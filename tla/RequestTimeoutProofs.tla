------------------------ MODULE RequestTimeoutProofs ------------------------
(***************************************************************************)
(* Proofs about RequestTimeout, for any number of requests and goroutines, *)
(* on the gateway's two routes and without the reuse of contexts.  The     *)
(* core is the stage every response is in: which goroutines still hold its *)
(* context, which writer each of them writes to, and which of these        *)
(* writers are closed.  The status that is recorded for a response follows *)
(* from its stage and from what c.Writer is then.                          *)
(***************************************************************************)
EXTENDS RequestTimeout, TLAPS

-----------------------------------------------------------------------------
(* RequestTimeoutMiddleware.                                               *)

\* The gateway's routes: under the global timeout, and under one of their own inside it.
Single == <<"timeout", "handler">>
Double == <<"timeout", "timeout", "handler">>

\* The pool hands out no context twice.
Gateway == ~Recycle /\ Chains \subseteq {Single, Double}

\* A whole response has nothing in it that another handler wrote.
LEMMA WholeIsOwn == ASSUME WholeResponse PROVE OwnOutputOnly
<1>1. SUFFICES ASSUME NEW r \in Requests, NEW q \in Requests, NEW i \in DOMAIN sent[r].body,
                      at[r] = "answered", sent[r].body[i] = q
               PROVE  q = r
  BY Zenon DEF OwnOutputOnly
<1>2. PICK status, body : status = sent[r].status /\ body = sent[r].body  BY Zenon
<1>3. <<status, body>> \in {<<200, <<r>> >>, <<504, <<TimeoutBody>> >>, <<500, <<>> >>}
  BY <1>1, <1>2 DEF WholeResponse
<1>4. body \in {<<r>>, <<TimeoutBody>>, <<>>}  BY <1>3, ZenonT(120)
<1>5. i \in DOMAIN body /\ body[i] = q  BY <1>1, <1>2, Zenon
<1>6. body = <<r>>
  <2>1. CASE body = <<TimeoutBody>>  BY <1>5, <2>1, TimeoutAssumption
  <2>2. CASE body = <<>>  BY <1>5, <2>2
  <2> QED  BY <1>4, <2>1, <2>2, Zenon
<1> QED  BY <1>5, <1>6

\* What a handler that has run to its end leaves in a buffer, and what a timeout does.
Header(code) == [status |-> code, body |-> <<>>, closed |-> FALSE]
Output(r) == [status |-> 200, body |-> <<r>>, closed |-> FALSE]
Expired == [status |-> 504, body |-> <<>>, closed |-> FALSE]
TimedOut == [status |-> 504, body |-> <<TimeoutBody>>, closed |-> FALSE]

\* The goroutines that were started for context x.
On(x) == {s \in Spawned : gin[s] = x}

Waiting == {"select", "flush", "flushBody", "timeout", "timeoutBody"}
Working == {"load", "store", "head", "body", "finished", "panicked"}
Labels == Waiting \cup Working \cup {"idle", "start", "gone", "return", "recover", "answered"}

Content == [status : Nat, body : Seq(Requests \cup {TimeoutBody, None}), closed : BOOLEAN]

\* A request has a context of its own, and its goroutines and writers belong to it.
Belongs(w, x) == w = x \/ w \in On(x)

TimeoutTypeOK ==
  /\ index \in [Contexts -> Nat] /\ handlers \in [Contexts -> {<<>>, Single, Double}]
  /\ cwriter \in [Contexts -> Writers] /\ owner \in [Contexts -> Requests \cup {None}]
  /\ pool \subseteq Contexts
  /\ writers \in [Writers -> Content]
  /\ at \in [Goroutines -> Labels] /\ gin \in [Goroutines -> Contexts \cup {None}]
  /\ reg \in [Goroutines -> Nat] /\ job \in [Goroutines -> Requests \cup {None}]
  /\ child \in [Goroutines -> Spawned \cup {None}]
  /\ orig \in [Goroutines -> Writers \cup {None}]
  /\ sent \in [Requests -> Content] /\ metric \in [Requests -> Nat]

Apart ==
  /\ \A g \in Goroutines : at[g] = "idle" <=> gin[g] = None
  /\ \A g \in Goroutines : at[g] = "idle" => child[g] = None /\ orig[g] = None
  /\ \A r \in Requests : at[r] # "idle" => owner[gin[r]] = r
  /\ \A x \in Contexts : x \in pool <=> owner[x] = None
  /\ \A x \in Contexts \ pool : gin[owner[x]] = x /\ handlers[x] \in {Single, Double}
  /\ \A s \in Spawned : gin[s] \notin pool
  /\ \A x \in Contexts : Belongs(cwriter[x], x)
  /\ \A g \in Goroutines :
       /\ orig[g] = None \/ Belongs(orig[g], gin[g])
       /\ child[g] = None \/ child[g] \in On(gin[g])
       /\ at[g] \in Waiting => orig[g] # None /\ child[g] # None
-----------------------------------------------------------------------------
\* s runs the rest of the chain, which is the handler, with a buffer of its own.
Runner(s, x, r) ==
  LET n == Len(handlers[x])
  IN /\ orig[s] = None /\ child[s] = None /\ cwriter[x] = s
     /\ \/ at[s] = "load" /\ index[x] = n - 1 /\ writers[s] = Fresh
        \/ at[s] = "store" /\ index[x] = n - 1 /\ reg[s] = n - 1 /\ writers[s] = Fresh
        \/ at[s] \in {"head", "body"} /\ index[x] = n /\ job[s] = r /\ writers[s] = Fresh
        \/ at[s] = "load" /\ index[x] = n /\ writers[s] = Output(r)
        \/ at[s] = "store" /\ index[x] = n /\ reg[s] = n /\ writers[s] = Output(r)
        \/ at[s] = "finished" /\ index[x] = n + 1 /\ writers[s] = Output(r)
        \/ at[s] = "panicked" /\ index[x] = n

\* s is left to itself: it is past the timeouts of the chain.
Straggler(s, x, r, low) ==
  /\ orig[s] = None /\ child[s] = None /\ at[s] \in Working
  /\ index[x] >= low
  /\ at[s] = "store" => reg[s] >= low
  /\ at[s] \in {"head", "body"} => job[s] = r

\* The inner timeout of a route with two, run by s: it is yet to start t; waits for it;
\* gives it up; is over; or has passed its panic on.
Alone(s, x) ==
  /\ On(x) = {s} /\ cwriter[x] = s /\ orig[s] = None /\ child[s] = None
  /\ writers[s] = Fresh
  /\ \/ at[s] = "load" /\ index[x] = 1
     \/ at[s] = "store" /\ reg[s] = 1
     \/ at[s] = "start" /\ index[x] = 2

Waits(s, t, x, r) ==
  /\ Runner(t, x, r)
  /\ orig[s] = s /\ child[s] = t /\ writers[s] = Fresh
  /\ at[s] \in {"select", "flush", "flushBody"}
  /\ at[s] # "select" => at[t] = "finished"

GivesUp(s, t, x, r) ==
  /\ Straggler(t, x, r, 2)
  /\ orig[s] = s /\ child[s] = t /\ cwriter[x] = t /\ writers[t].closed
  /\ \/ at[s] = "timeout" /\ writers[s] = Fresh
     \/ at[s] = "timeoutBody" /\ writers[s] = Expired

After(s, t, x, r) ==
  /\ Straggler(s, x, r, 2) /\ Straggler(t, x, r, 2)
  /\ cwriter[x] = t /\ writers[s] \in {Output(r), TimedOut}
  /\ \/ writers[t].closed
     \/ /\ at[t] = "finished" /\ index[x] >= 4
        /\ at[s] \in {"load", "store", "finished"} /\ (at[s] = "store" => reg[s] >= 4)
  /\ at[s] \in {"head", "body", "panicked"} => index[x] >= 3

Passed(s, t, x) ==
  /\ orig[s] = s /\ child[s] = t /\ cwriter[x] = s
  /\ at[s] = "panicked" /\ at[t] = "gone" /\ orig[t] = None

Inner(s, x, r) ==
  \/ handlers[x] = Single /\ On(x) = {s} /\ Runner(s, x, r)
  \/ handlers[x] = Double /\ Alone(s, x)
  \/ /\ handlers[x] = Double
     /\ \E t \in Spawned \ {s} :
          /\ On(x) = {s, t}
          /\ Waits(s, t, x, r) \/ GivesUp(s, t, x, r) \/ After(s, t, x, r) \/ Passed(s, t, x)

\* Nobody but g can write to the response writer of x.
Sealed(x, g) ==
  /\ cwriter[x] # x
  /\ \A h \in Goroutines \ {g} : gin[h] = x => orig[h] # x

Whole(w, r) ==
  <<w.status, w.body>> \in {<<200, <<r>> >>, <<504, <<TimeoutBody>> >>, <<500, <<>> >>}

\* A request before its outermost timeout, in it, at its deadline, after it, and after
\* a panic that came through it.
Before(r, x) ==
  /\ On(x) = {} /\ orig[r] = None /\ cwriter[x] = x /\ writers[x] = Fresh
  /\ \/ at[r] = "load" /\ index[x] = 0
     \/ at[r] = "store" /\ reg[r] = 0
     \/ at[r] = "start" /\ index[x] = 1

Inside(r, x) ==
  \E s \in Spawned :
    /\ orig[r] = x /\ child[r] = s /\ Inner(s, x, r)
    /\ \/ at[r] \in {"select", "flush"} /\ writers[x] = Fresh
       \/ at[r] = "flushBody" /\ writers[x] = Header(writers[s].status)
    /\ at[r] # "select" => at[s] = "finished"

Expiring(r, x) ==
  /\ orig[r] = x /\ Sealed(x, r)
  /\ \/ at[r] = "timeout" /\ writers[x] = Fresh
     \/ at[r] = "timeoutBody" /\ writers[x] = Expired

Over(r, x) == Sealed(x, None) /\ Whole(writers[x], r)

Late(t, x, r) ==
  /\ Straggler(t, x, r, 2) /\ index[x] >= 3
  /\ at[t] \in {"head", "body"} \/ (at[t] = "store" /\ reg[t] = 2) => writers[x] = Fresh

Panicking(r, x) ==
  /\ orig[r] = x /\ at[r] = "recover" /\ cwriter[x] = x
  /\ writers[x] \in {Fresh, Output(r)}
  /\ \E s \in Spawned :
       /\ child[r] = s /\ at[s] = "gone"
       /\ \A t, u \in On(x) \ {s} : t = u
       /\ \A t \in On(x) \ {s} : at[t] = "gone" \/ Late(t, x, r)

Answered(r) == at[r] = "answered" /\ Whole(sent[r], r)

Served(r, x) ==
  Before(r, x) \/ Inside(r, x) \/ Expiring(r, x) \/ Over(r, x) \/ Panicking(r, x) \/ Answered(r)

TimeoutInv ==
  /\ TimeoutTypeOK /\ Apart
  /\ \A x \in Contexts, r \in Requests : owner[x] = r => Served(r, x)
  /\ \A r \in Requests : at[r] = "answered" => Answered(r)
-----------------------------------------------------------------------------
(* Writers.                                                                *)

\* Writing a status changes one writer, unless it is closed or has begun its body.
LEMMA HeaderFacts ==
  ASSUME writers \in [Writers -> Content], NEW w \in Writers, NEW code \in Nat, WriteHeader(w, code)
  PROVE  /\ writers' \in [Writers -> Content]
         /\ \A v \in Writers : v # w => writers'[v] = writers[v]
         /\ writers'[w].body = writers[w].body /\ writers'[w].closed = writers[w].closed
         /\ writers[w].closed => writers'[w] = writers[w]
         /\ w \in Contexts /\ writers[w].body # <<>> => writers'[w] = writers[w]
         /\ ~writers[w].closed /\ writers[w].body = <<>>
              => writers'[w] = [status |-> code, body |-> <<>>, closed |-> FALSE]
<1>1. writers[w] \in Content  BY Zenon
<1> DEFINE new == IF writers[w].closed \/ (w \in Contexts /\ writers[w].body # <<>>)
                  THEN writers[w].status ELSE code
<1>2. new \in Nat  BY <1>1, Zenon DEF Content
<1>3. writers' = [writers EXCEPT ![w] = [writers[w] EXCEPT !.status = new]]  BY Zenon DEF WriteHeader
<1>4. writers[w] = [status |-> writers[w].status, body |-> writers[w].body, closed |-> writers[w].closed]
  BY <1>1, Zenon DEF Content
<1>5. [writers[w] EXCEPT !.status = new]
        = [status |-> new, body |-> writers[w].body, closed |-> writers[w].closed]
  <2> HIDE DEF new
  <2> QED  BY <1>4
<1>6. [writers[w] EXCEPT !.status = new] \in Content  BY <1>1, <1>2, <1>5, Zenon DEF Content
<1>7. /\ writers' \in [Writers -> Content]
      /\ \A v \in Writers : v # w => writers'[v] = writers[v]
      /\ writers'[w] = [status |-> new, body |-> writers[w].body, closed |-> writers[w].closed]
  <2> HIDE DEF new
  <2> QED  BY <1>3, <1>5, <1>6, Zenon
<1>8. writers[w].closed \in BOOLEAN  BY <1>1, Zenon DEF Content
<1>9. CASE writers[w].closed \/ (w \in Contexts /\ writers[w].body # <<>>)
  <2>1. new = writers[w].status  BY <1>9, Zenon
  <2> HIDE DEF new
  <2>2. writers'[w] = writers[w]  BY <1>4, <1>7, <2>1, Zenon
  <2> QED  BY <1>7, <1>9, <2>2, Zenon
<1>10. CASE ~(writers[w].closed \/ (w \in Contexts /\ writers[w].body # <<>>))
  <2>1. new = code  BY <1>10, Zenon
  <2>2. writers[w].closed = FALSE  BY <1>8, <1>10, Zenon
  <2> HIDE DEF new
  <2>3. writers'[w].body = writers[w].body /\ writers'[w].closed = writers[w].closed  BY <1>7
  <2> QED  BY <1>7, <1>10, <2>1, <2>2, <2>3, Zenon
<1> QED  BY <1>9, <1>10, Zenon

\* The middleware closes the buffer w: later writes to it are dropped.
Closing(w) == writers' = [writers EXCEPT ![w] = [status |-> 504, body |-> @.body, closed |-> TRUE]]

\* Closing a buffer at the deadline changes only that buffer.
LEMMA CloseFacts ==
  ASSUME writers \in [Writers -> Content], NEW w \in Writers, Closing(w)
  PROVE  /\ writers' \in [Writers -> Content]
         /\ \A v \in Writers : v # w => writers'[v] = writers[v]
         /\ writers'[w].closed /\ writers'[w].status = 504
<1>1. writers[w].body \in Seq(Requests \cup {TimeoutBody, None})  BY Zenon DEF Content
<1>2. PICK late : late = [status |-> 504, body |-> writers[w].body, closed |-> TRUE]  BY Zenon
<1>3. late \in Content  BY <1>1, <1>2 DEF Content
<1>4. writers' = [writers EXCEPT ![w] = late]  BY <1>2, Zenon DEF Closing
<1>5. /\ writers' \in [Writers -> Content] /\ writers'[w] = late
      /\ \A v \in Writers : v # w => writers'[v] = writers[v]
  BY <1>3, <1>4, Zenon
<1>6. late.closed /\ late.status = 504  BY <1>2, Zenon
<1> QED  BY <1>5, <1>6, Zenon

\* Appending to a body changes one writer, unless it is closed.
LEMMA BodyFacts ==
  ASSUME writers \in [Writers -> Content], NEW w \in Writers,
         NEW more \in Seq(Requests \cup {TimeoutBody, None}),
         writers' = [writers EXCEPT ![w].body = IF writers[w].closed THEN @ ELSE @ \o more]
  PROVE  /\ writers' \in [Writers -> Content]
         /\ \A v \in Writers : v # w => writers'[v] = writers[v]
         /\ writers'[w].closed = writers[w].closed /\ writers'[w].status = writers[w].status
         /\ writers[w].closed => writers'[w] = writers[w]
         /\ ~writers[w].closed /\ writers[w].body = <<>>
              => writers'[w] = [status |-> writers[w].status, body |-> more, closed |-> FALSE]
<1>1. writers[w] \in Content  BY Zenon
<1> DEFINE new == IF writers[w].closed THEN writers[w].body ELSE writers[w].body \o more
<1>2. new \in Seq(Requests \cup {TimeoutBody, None})  BY <1>1 DEF Content
<1>3. writers' = [writers EXCEPT ![w] = [writers[w] EXCEPT !.body = new]]  BY Zenon
<1>4. writers[w] = [status |-> writers[w].status, body |-> writers[w].body, closed |-> writers[w].closed]
  BY <1>1, Zenon DEF Content
<1>5. [writers[w] EXCEPT !.body = new]
        = [status |-> writers[w].status, body |-> new, closed |-> writers[w].closed]
  <2> HIDE DEF new
  <2> QED  BY <1>4
<1>6. [writers[w] EXCEPT !.body = new] \in Content  BY <1>1, <1>2, <1>5, Zenon DEF Content
<1>7. /\ writers' \in [Writers -> Content]
      /\ \A v \in Writers : v # w => writers'[v] = writers[v]
      /\ writers'[w] = [status |-> writers[w].status, body |-> new, closed |-> writers[w].closed]
  <2> HIDE DEF new
  <2> QED  BY <1>3, <1>5, <1>6, ZenonT(120)
<1>8. writers[w].closed \in BOOLEAN  BY <1>1, Zenon DEF Content
<1>9. CASE writers[w].closed
  <2>1. new = writers[w].body  BY <1>9, Zenon
  <2> HIDE DEF new
  <2>2. writers'[w] = writers[w]  BY <1>4, <1>7, <2>1, Zenon
  <2> QED  BY <1>7, <1>9, <2>2, Zenon
<1>10. CASE ~writers[w].closed
  <2>1. writers[w].body = <<>> => new = more  BY <1>10
  <2>2. writers[w].closed = FALSE  BY <1>8, <1>10, Zenon
  <2> HIDE DEF new
  <2>3. writers'[w].closed = writers[w].closed /\ writers'[w].status = writers[w].status  BY <1>7, ZenonT(120)
  <2> QED  BY <1>7, <1>10, <2>1, <2>2, <2>3, Zenon
<1> QED  BY <1>9, <1>10, Zenon

\* The same of a write by a handler or by the timeout.
LEMMA WriteFacts ==
  ASSUME writers \in [Writers -> Content], NEW w \in Writers,
         NEW data \in Requests \cup {TimeoutBody, None}, Write(w, data)
  PROVE  /\ writers' \in [Writers -> Content]
         /\ \A v \in Writers : v # w => writers'[v] = writers[v]
         /\ writers'[w].closed = writers[w].closed /\ writers'[w].status = writers[w].status
         /\ writers[w].closed => writers'[w] = writers[w]
         /\ ~writers[w].closed /\ writers[w].body = <<>>
              => writers'[w] = [status |-> writers[w].status, body |-> <<data>>, closed |-> FALSE]
<1>1. writers[w].body \in Seq(Requests \cup {TimeoutBody, None})  BY Zenon DEF Content
<1>2. Append(writers[w].body, data) = writers[w].body \o <<data>>  BY <1>1
<1>3. writers' = [writers EXCEPT ![w].body = IF writers[w].closed THEN @ ELSE @ \o <<data>>]
  BY <1>2, Zenon DEF Write
<1>4. <<data>> \in Seq(Requests \cup {TimeoutBody, None})  OBVIOUS
<1> QED  BY <1>3, <1>4, BodyFacts, Zenon
-----------------------------------------------------------------------------
(* Types.                                                                  *)

\* Where a goroutine is at work, it has a context.
LEMMA AtWork ==
  ASSUME TimeoutTypeOK, Apart, NEW g \in Goroutines, at[g] # "idle"
  PROVE  /\ gin[g] \in Contexts /\ gin[g] \notin pool
         /\ cwriter[gin[g]] \in Writers /\ index[gin[g]] \in Nat
         /\ owner[gin[g]] \in Requests /\ handlers[gin[g]] \in {Single, Double}
         /\ at[g] \in Waiting => orig[g] \in Writers /\ child[g] \in Spawned
<1>1. gin[g] \in Contexts
  <2>1. gin[g] \in Contexts \cup {None}  BY Zenon DEF TimeoutTypeOK
  <2>2. gin[g] # None  BY Zenon DEF Apart
  <2> QED  BY <2>1, <2>2, Zenon
<1>2. cwriter[gin[g]] \in Writers /\ index[gin[g]] \in Nat /\ owner[gin[g]] \in Requests \cup {None}
  BY <1>1, Zenon DEF TimeoutTypeOK
<1>3. gin[g] \notin pool
  <2>1. CASE g \in Spawned  BY <2>1, Zenon DEF Apart
  <2>2. CASE g \in Requests
    <3>1. owner[gin[g]] = g /\ g # None  BY <2>2, TimeoutAssumption, Zenon DEF Apart
    <3> QED  BY <1>1, <3>1, Zenon DEF Apart
  <2> QED  BY <2>1, <2>2, Zenon DEF Goroutines
<1>4. owner[gin[g]] # None /\ handlers[gin[g]] \in {Single, Double}
  BY <1>1, <1>3, Zenon DEF Apart
<1>5. at[g] \in Waiting => orig[g] \in Writers /\ child[g] \in Spawned
  <2>1. orig[g] \in Writers \cup {None} /\ child[g] \in Spawned \cup {None}
    BY Zenon DEF TimeoutTypeOK
  <2>2. at[g] \in Waiting => orig[g] # None /\ child[g] # None  BY Zenon DEF Apart
  <2> QED  BY <2>1, <2>2, Zenon
<1> QED  BY <1>1, <1>2, <1>3, <1>4, <1>5, Zenon

\* The handlers of the routes.
LEMMA RouteFacts ==
  /\ Len(Single) = 2 /\ Single[1] = "timeout" /\ Single[2] = "handler"
  /\ Len(Double) = 3 /\ Double[1] = "timeout" /\ Double[2] = "timeout" /\ Double[3] = "handler"
  /\ Single # Double
  BY Zenon DEF Single, Double

\* The writer a response starts with is a writer.
LEMMA FreshContent == Fresh \in Content
  BY DEF Fresh, Content

\* At first no context is in use; a request that is served starts before its timeouts.
LEMMA TimeoutInitially ==
  ASSUME TimeoutInit
  PROVE  TimeoutInv
<1>1. TimeoutTypeOK
  <2>1. index \in [Contexts -> Nat] /\ reg \in [Goroutines -> Nat] /\ metric \in [Requests -> Nat]
    BY Zenon DEF TimeoutInit
  <2>2. writers \in [Writers -> Content] /\ sent \in [Requests -> Content]
    BY FreshContent, Zenon DEF TimeoutInit
  <2>3. /\ handlers \in [Contexts -> {<<>>, Single, Double}] /\ cwriter \in [Contexts -> Writers]
        /\ owner \in [Contexts -> Requests \cup {None}] /\ pool \subseteq Contexts
    BY Zenon DEF TimeoutInit, Writers
  <2>4. /\ gin \in [Goroutines -> Contexts \cup {None}] /\ job \in [Goroutines -> Requests \cup {None}]
        /\ child \in [Goroutines -> Spawned \cup {None}] /\ orig \in [Goroutines -> Writers \cup {None}]
    BY Zenon DEF TimeoutInit
  <2>5. at \in [Goroutines -> Labels]  BY Zenon DEF TimeoutInit, Labels
  <2> QED  BY <2>1, <2>2, <2>3, <2>4, <2>5, Zenon DEF TimeoutTypeOK
<1>2. /\ \A g \in Goroutines : /\ at[g] = "idle" /\ gin[g] = None /\ child[g] = None /\ orig[g] = None
      /\ \A x \in Contexts : owner[x] = None /\ cwriter[x] = x
      /\ pool = Contexts
  BY Zenon DEF TimeoutInit
<1>3. /\ Requests \subseteq Goroutines /\ Spawned \subseteq Goroutines
      /\ None \notin Requests /\ None \notin Contexts
  BY TimeoutAssumption, Zenon DEF Goroutines
<1>4. Apart
  <2>1. \A g \in Goroutines : at[g] \notin Waiting  BY <1>2, Zenon DEF Waiting
  <2>2. \A x \in Contexts : Belongs(cwriter[x], x)  BY <1>2, Zenon DEF Belongs
  <2>3. \A s \in Spawned : gin[s] \notin pool  BY <1>2, <1>3, Zenon
  <2>4. \A g \in Goroutines :
          /\ orig[g] = None \/ Belongs(orig[g], gin[g])
          /\ child[g] = None \/ child[g] \in On(gin[g])
          /\ at[g] \in Waiting => orig[g] # None /\ child[g] # None
    BY <1>2, <2>1, Zenon
  <2>5. \A r \in Requests : at[r] # "idle" => owner[gin[r]] = r  BY <1>2, <1>3, Zenon
  <2>6. \A x \in Contexts \ pool : gin[owner[x]] = x /\ handlers[x] \in {Single, Double}
    BY <1>2, Zenon
  <2> QED  BY <1>2, <2>2, <2>3, <2>4, <2>5, <2>6, Zenon DEF Apart
<1>5. \A x \in Contexts, r \in Requests : owner[x] # r  BY <1>2, <1>3, Zenon
<1>6. \A r \in Requests : at[r] # "answered"  BY <1>2, <1>3, Zenon
<1> QED  BY <1>1, <1>4, <1>5, <1>6, Zenon DEF TimeoutInv

\* A request enters the router with an untouched writer and nobody on its context.
LEMMA ServeServes ==
  ASSUME Gateway, TimeoutTypeOK, Apart, NEW r \in Requests, NEW x \in Contexts, ServeHTTP(r, x)
  PROVE  Before(r, x)' /\ owner'[x] = r /\ \A y \in Contexts \ {x} : owner'[y] = owner[y]
<1>1. at[r] = "idle" /\ x \in pool /\ orig' = orig /\ r \in Goroutines /\ r \notin Spawned
  BY TimeoutAssumption, Zenon DEF ServeHTTP, Goroutines
<1>2. /\ \A h \in Goroutines \ {r} : gin'[h] = gin[h]
      /\ at'[r] = "load"
  BY <1>1, Zenon DEF ServeHTTP, TimeoutTypeOK, Goto
<1>3. On(x)' = {}
  <2>1. \A s \in Spawned : gin'[s] = gin[s] /\ gin[s] # x
    <3>1. \A s \in Spawned : s # r /\ s \in Goroutines  BY <1>1, Zenon DEF Goroutines
    <3>2. \A s \in Spawned : gin[s] \notin pool  BY Zenon DEF Apart
    <3> QED  BY <1>1, <1>2, <3>1, <3>2, Zenon
  <2> QED  BY <2>1, Zenon DEF On
<1>4. /\ index'[x] = 0 /\ cwriter'[x] = x /\ writers'[x] = Fresh
      /\ owner'[x] = r /\ \A y \in Contexts \ {x} : owner'[y] = owner[y]
  BY Zenon DEF ServeHTTP, TimeoutTypeOK, Writers
<1>5. orig'[r] = None  BY <1>1, Zenon DEF Apart
<1> QED  BY <1>2, <1>3, <1>4, <1>5, Zenon DEF Before

\* A goroutine moves between labels.
LEMMA GotoType ==
  ASSUME TimeoutTypeOK, NEW g \in Goroutines, NEW label \in Labels, Goto(g, label)
  PROVE  at' \in [Goroutines -> Labels]
  BY Zenon DEF TimeoutTypeOK, Goto

\* The labels, one by one.
LEMMA LabelNames ==
  /\ {"idle", "load", "store", "start", "select", "flush", "flushBody", "timeout", "timeoutBody",
      "head", "body", "finished", "panicked", "gone", "return", "recover", "answered"} = Labels
  /\ "idle" \notin Waiting /\ "idle" \notin Working
  BY Zenon DEF Labels, Waiting, Working

\* Idle goroutines take no step of a chain.
LEMMA StepsAreBusy ==
  ASSUME NEW g \in Goroutines, Middleware(g) \/ Handler(g)
  PROVE  at[g] # "idle"
  BY ZenonT(120) DEF Middleware, Handler, LoadIndex, StoreIndex, StartTimeout, Finished, PanicReceived,
     DeadlineExceeded, FlushHead, FlushBody, TimeoutHead, WriteTimeoutBody, HandlerHead,
     HandlerBody, HandlerPanic

\* Every step keeps the types.
LEMMA TypeStep ==
  ASSUME Gateway, TimeoutTypeOK, Apart, [TimeoutNext]_timeoutVars
  PROVE  TimeoutTypeOK'
<1>1. ASSUME NEW r \in Requests, NEW x \in Contexts, ServeHTTP(r, x)
      PROVE  TimeoutTypeOK'
  <2>1. r \in Goroutines /\ x \in Writers  BY Zenon DEF Goroutines, Writers
  <2>2. PICK chain \in Chains : handlers' = [handlers EXCEPT ![x] = chain]
    BY <1>1, Zenon DEF ServeHTTP
  <2>3. chain \in {<<>>, Single, Double}  BY Zenon DEF Gateway
  <2>4. handlers' \in [Contexts -> {<<>>, Single, Double}]  BY <2>2, <2>3, Zenon DEF TimeoutTypeOK
  <2>5. writers' \in [Writers -> Content]
    BY <1>1, <2>1, FreshContent, Zenon DEF ServeHTTP, TimeoutTypeOK
  <2>6. index' \in [Contexts -> Nat]  BY <1>1, Zenon DEF ServeHTTP, TimeoutTypeOK
  <2>7. /\ cwriter' \in [Contexts -> Writers] /\ owner' \in [Contexts -> Requests \cup {None}]
        /\ pool' \subseteq Contexts /\ gin' \in [Goroutines -> Contexts \cup {None}]
    BY <1>1, <2>1, Zenon DEF ServeHTTP, TimeoutTypeOK
  <2>8. at' \in [Goroutines -> Labels]
    <3>1. "load" \in Labels  BY Zenon DEF Labels, Working
    <3> QED  BY <1>1, <2>1, <3>1, Zenon DEF ServeHTTP, TimeoutTypeOK, Goto
  <2>9. UNCHANGED <<reg, job, child, orig, sent, metric>>  BY <1>1, Zenon DEF ServeHTTP, results
  <2> QED  BY <2>4, <2>5, <2>6, <2>7, <2>8, <2>9, Zenon DEF TimeoutTypeOK
<1>2. ASSUME NEW g \in Goroutines, at[g] # "idle",
             \/ LoadIndex(g) \/ StoreIndex(g) \/ StartTimeout(g)
             \/ Finished(g) \/ PanicReceived(g) \/ DeadlineExceeded(g)
             \/ FlushHead(g) \/ FlushBody(g) \/ TimeoutHead(g) \/ WriteTimeoutBody(g)
             \/ HandlerHead(g) \/ HandlerBody(g) \/ HandlerPanic(g)
      PROVE  TimeoutTypeOK'
  <2> DEFINE x == gin[g]
  <2>0. /\ x \in Contexts /\ cwriter[x] \in Writers /\ index[x] \in Nat /\ owner[x] \in Requests
        /\ at[g] \in Waiting => orig[g] \in Writers /\ child[g] \in Spawned
    BY <1>2, AtWork, Zenon
  <2>00. /\ child[g] \in Spawned => writers[child[g]] \in Content /\ child[g] \in Writers
                                    /\ child[g] \in Goroutines
         /\ job[g] \in Requests \cup {None} /\ reg[g] \in Nat
         /\ writers \in [Writers -> Content]
    BY Zenon DEF TimeoutTypeOK, Writers, Goroutines
  <2> HIDE DEF x
  <2>1. CASE LoadIndex(g)
    <3>1. at' \in [Goroutines -> Labels]  BY <2>1, GotoType, LabelNames, Zenon DEF LoadIndex
    <3>2. reg' \in [Goroutines -> Nat]  BY <2>0, <2>1, Zenon DEF LoadIndex, TimeoutTypeOK, x
    <3> QED  BY <2>1, <3>1, <3>2, Zenon DEF LoadIndex, TimeoutTypeOK, ginVars, results
  <2>2. CASE StoreIndex(g)
    <3>0. reg[g] + 1 \in Nat /\ 0 \in Nat  BY <2>00
    <3>1. at' \in [Goroutines -> Labels]
      <4>1. PICK label \in Labels : Goto(g, label)  BY <2>2, LabelNames, Zenon DEF StoreIndex
      <4> QED  BY <4>1, GotoType, Zenon
    <3>2. index' \in [Contexts -> Nat] /\ reg' \in [Goroutines -> Nat]
      BY <2>0, <2>2, <3>0, Zenon DEF StoreIndex, TimeoutTypeOK, x
    <3>3. job' \in [Goroutines -> Requests \cup {None}]
      <4>1. \/ job' = job \/ job' = [job EXCEPT ![g] = owner[x]]  BY <2>2, Zenon DEF StoreIndex, x
      <4> QED  BY <2>0, <4>1, Zenon DEF TimeoutTypeOK
    <3> QED  BY <2>2, <3>1, <3>2, <3>3, Zenon DEF StoreIndex, TimeoutTypeOK, results
  <2>3. CASE StartTimeout(g)
    <3>1. PICK s \in Spawned :
            /\ orig' = [orig EXCEPT ![g] = cwriter[x]]
            /\ writers' = [writers EXCEPT ![s] = Fresh]
            /\ cwriter' = [cwriter EXCEPT ![x] = s]
            /\ child' = [child EXCEPT ![g] = s]
            /\ gin' = [gin EXCEPT ![s] = x]
            /\ at' = [at EXCEPT ![g] = "select", ![s] = "load"]
            /\ UNCHANGED <<index, handlers, owner, pool, reg, job, results>>
      BY <2>3, Zenon DEF StartTimeout, x
    <3>2. s \in Writers /\ s \in Goroutines  BY Zenon DEF Writers, Goroutines
    <3>3. at' \in [Goroutines -> Labels]
      BY <3>1, <3>2, LabelNames, Zenon DEF TimeoutTypeOK
    <3>4. /\ writers' \in [Writers -> Content] /\ gin' \in [Goroutines -> Contexts \cup {None}]
          /\ cwriter' \in [Contexts -> Writers]
      BY <2>0, <3>1, <3>2, FreshContent, Zenon DEF TimeoutTypeOK
    <3>5. orig' \in [Goroutines -> Writers \cup {None}] /\ child' \in [Goroutines -> Spawned \cup {None}]
      BY <2>0, <3>1, <3>2, Zenon DEF TimeoutTypeOK
    <3> QED  BY <3>1, <3>3, <3>4, <3>5, Zenon DEF TimeoutTypeOK, results
  <2>4. CASE Finished(g)
    <3>1. at' \in [Goroutines -> Labels]  BY <2>4, GotoType, LabelNames, Zenon DEF Finished
    <3> QED  BY <2>4, <3>1, Zenon DEF Finished, TimeoutTypeOK, ginVars, locals, results
  <2>5. CASE PanicReceived(g)
    <3>1. at[g] \in Waiting  BY <2>5, Zenon DEF PanicReceived, Waiting
    <3>2. at' = [at EXCEPT ![g] = Panic(g), ![child[g]] = "gone"]
      BY <2>5, Zenon DEF PanicReceived
    <3>3. Panic(g) \in Labels  BY LabelNames, Zenon DEF Panic
    <3>4. at' \in [Goroutines -> Labels]
      BY <2>0, <2>00, <3>1, <3>2, <3>3, LabelNames, Zenon DEF TimeoutTypeOK
    <3>5. cwriter' \in [Contexts -> Writers]
      BY <2>0, <2>5, <3>1, Zenon DEF PanicReceived, TimeoutTypeOK, x
    <3> QED  BY <2>5, <3>4, <3>5, Zenon DEF PanicReceived, TimeoutTypeOK, locals, results
  <2>6. CASE DeadlineExceeded(g)
    <3>0. at[g] \in Waiting  BY <2>6, Zenon DEF DeadlineExceeded, Waiting
    <3>1. at' \in [Goroutines -> Labels]  BY <2>6, GotoType, LabelNames, Zenon DEF DeadlineExceeded
    <3>2. Closing(child[g])  BY <2>6, Zenon DEF DeadlineExceeded, Closing
    <3>3. writers' \in [Writers -> Content]  BY <2>0, <2>00, <3>0, <3>2, CloseFacts, ZenonT(120)
    <3> QED  BY <2>6, <3>1, <3>3, Zenon DEF DeadlineExceeded, TimeoutTypeOK, ginVars, locals, results
  <2>7. CASE FlushHead(g)
    <3>0. at[g] \in Waiting  BY <2>7, Zenon DEF FlushHead, Waiting
    <3>1. at' \in [Goroutines -> Labels]  BY <2>7, GotoType, LabelNames, Zenon DEF FlushHead
    <3>2. writers[child[g]].status \in Nat  BY <2>0, <2>00, <3>0, Zenon DEF Content
    <3>3. writers' \in [Writers -> Content]
      BY <2>0, <2>00, <2>7, <3>0, <3>2, HeaderFacts, Zenon DEF FlushHead
    <3> QED  BY <2>7, <3>1, <3>3, Zenon DEF FlushHead, TimeoutTypeOK, ginVars, locals, results
  <2>8. CASE TimeoutHead(g)
    <3>0. at[g] \in Waiting  BY <2>8, Zenon DEF TimeoutHead, Waiting
    <3>1. at' \in [Goroutines -> Labels]  BY <2>8, GotoType, LabelNames, Zenon DEF TimeoutHead
    <3>2. PICK code \in Nat : WriteHeader(orig[g], code)  BY <2>8 DEF TimeoutHead
    <3>3. writers' \in [Writers -> Content]  BY <2>0, <2>00, <3>0, <3>2, HeaderFacts, Zenon
    <3> QED  BY <2>8, <3>1, <3>3, Zenon DEF TimeoutHead, TimeoutTypeOK, ginVars, locals, results
  <2>9. CASE HandlerHead(g)
    <3>1. at' \in [Goroutines -> Labels]  BY <2>9, GotoType, LabelNames, Zenon DEF HandlerHead
    <3>2. 200 \in Nat  OBVIOUS
    <3>3. writers' \in [Writers -> Content]
      BY <2>0, <2>00, <2>9, <3>2, HeaderFacts, Zenon DEF HandlerHead, x
    <3> QED  BY <2>9, <3>1, <3>3, Zenon DEF HandlerHead, TimeoutTypeOK, ginVars, locals, results
  <2>10. CASE HandlerBody(g)
    <3>1. at' \in [Goroutines -> Labels]  BY <2>10, GotoType, LabelNames, Zenon DEF HandlerBody
    <3>2. job[g] \in Requests \cup {TimeoutBody, None}  BY <2>00, Zenon
    <3>3. writers' \in [Writers -> Content]
      BY <2>0, <2>00, <2>10, <3>2, WriteFacts, Zenon DEF HandlerBody, x
    <3>4. job' \in [Goroutines -> Requests \cup {None}]  BY <2>10, Zenon DEF HandlerBody, TimeoutTypeOK
    <3> QED  BY <2>10, <3>1, <3>3, <3>4, Zenon DEF HandlerBody, TimeoutTypeOK, ginVars, results
  <2>11. CASE HandlerPanic(g)
    <3>0. Panic(g) \in Labels  BY LabelNames, Zenon DEF Panic
    <3>1. at' \in [Goroutines -> Labels]  BY <2>11, <3>0, GotoType, Zenon DEF HandlerPanic
    <3>4. job' \in [Goroutines -> Requests \cup {None}]  BY <2>11, Zenon DEF HandlerPanic, TimeoutTypeOK
    <3> QED  BY <2>11, <3>1, <3>4, Zenon DEF HandlerPanic, TimeoutTypeOK, ginVars, results
  <2>12. CASE FlushBody(g) \/ WriteTimeoutBody(g)
    <3>0. at[g] \in Waiting  BY <2>12, Zenon DEF FlushBody, WriteTimeoutBody, Waiting
    <3>1. Leave(g)  BY <2>12, Zenon DEF FlushBody, WriteTimeoutBody
    <3>2. at' \in [Goroutines -> Labels]  BY <3>1, GotoType, LabelNames, Zenon DEF Leave
    <3>3. child' \in [Goroutines -> Spawned \cup {None}] /\ orig' \in [Goroutines -> Writers \cup {None}]
      BY <3>1, Zenon DEF Leave, TimeoutTypeOK
    <3>4. CASE FlushBody(g)
      <4>1. writers[child[g]].body \in Seq(Requests \cup {TimeoutBody, None})
        BY <2>0, <2>00, <3>0, Zenon DEF Content
      <4>2. writers' \in [Writers -> Content]
        BY <2>0, <2>00, <3>0, <3>4, <4>1, BodyFacts, Zenon DEF FlushBody
      <4> QED  BY <3>1, <3>2, <3>3, <3>4, <4>2, Zenon DEF FlushBody, Leave, TimeoutTypeOK, ginVars, results
    <3>5. CASE WriteTimeoutBody(g)
      <4>1. writers' \in [Writers -> Content]
        BY <2>0, <2>00, <3>0, <3>5, WriteFacts, Zenon DEF WriteTimeoutBody
      <4> QED
        BY <3>1, <3>2, <3>3, <3>5, <4>1, Zenon DEF WriteTimeoutBody, Leave, TimeoutTypeOK, ginVars, results
    <3> QED  BY <2>12, <3>4, <3>5, Zenon
  <2> QED
    BY <1>2, <2>1, <2>2, <2>3, <2>4, <2>5, <2>6, <2>7, <2>8, <2>9, <2>10, <2>11, <2>12, Zenon
<1>3. ASSUME NEW r \in Requests, Return(r) \/ Recover(r)
      PROVE  TimeoutTypeOK'
  <2>0. r \in Goroutines /\ at[r] # "idle"  BY <1>3, Zenon DEF Goroutines, Return, Recover
  <2>1. gin[r] \in Contexts /\ cwriter[gin[r]] \in Writers /\ gin[r] \in Writers
    BY <2>0, AtWork, Zenon DEF Writers
  <2>2. writers[gin[r]] \in Content /\ writers[cwriter[gin[r]]] \in Content
    BY <2>1, Zenon DEF TimeoutTypeOK
  <2>3. writers[cwriter[gin[r]]].status \in Nat /\ 500 \in Nat  BY <2>2 DEF Content
  <2>4. pool' \subseteq Contexts  BY <1>3, Zenon DEF Gateway, Return, Recover, TimeoutTypeOK
  <2>5. at' \in [Goroutines -> Labels]
    BY <1>3, <2>0, GotoType, LabelNames, Zenon DEF Return, Recover
  <2>6. metric' \in [Requests -> Nat]
    <3>1. PICK n \in Nat : metric' = [metric EXCEPT ![r] = n]
      <4>1. CASE Return(r)  BY <2>3, <4>1, Zenon DEF Return
      <4>2. CASE Recover(r)
        <5> DEFINE code == writers[cwriter[gin[r]]].status
                   n == IF code < 500 THEN 500 ELSE code
        <5>1. n \in Nat  BY <2>3, ZenonT(120)
        <5>2. metric' = [metric EXCEPT ![r] = n]  BY <4>2, Zenon DEF Recover
        <5> HIDE DEF n
        <5> QED  BY <5>1, <5>2, Zenon
      <4> QED  BY <1>3, <4>1, <4>2, Zenon
    <3> QED  BY <3>1, Zenon DEF TimeoutTypeOK
  <2>7. writers' \in [Writers -> Content] /\ sent' \in [Requests -> Content]
    <3>1. CASE Return(r)
      BY <2>2, <3>1, Zenon DEF Return, TimeoutTypeOK
    <3>2. CASE Recover(r)
      <4>0. PICK code \in Nat : WriteHeader(cwriter[gin[r]], code)  BY <3>2 DEF Recover
      <4>1. writers' \in [Writers -> Content]  BY <2>1, <4>0, HeaderFacts, Zenon DEF TimeoutTypeOK
      <4> QED  BY <2>1, <3>2, <4>1, Zenon DEF Recover, TimeoutTypeOK
    <3> QED  BY <1>3, <3>1, <3>2, Zenon
  <2>8. CASE Return(r)
    BY <2>4, <2>5, <2>6, <2>7, <2>8, Zenon DEF Return, TimeoutTypeOK, locals
  <2>9. CASE Recover(r)
    BY <2>4, <2>5, <2>6, <2>7, <2>9, Zenon DEF Recover, TimeoutTypeOK, locals
  <2> QED  BY <1>3, <2>8, <2>9, Zenon
<1>4. ASSUME NEW s \in Spawned, Expire(s)
      PROVE  TimeoutTypeOK'
  BY <1>4, Zenon DEF Expire, TimeoutTypeOK, ginVars, locals, results
<1>5. CASE UNCHANGED timeoutVars
  BY <1>5, Zenon DEF timeoutVars, TimeoutTypeOK, ginVars, locals, results
<1> QED
  BY <1>1, <1>2, <1>3, <1>4, <1>5, StepsAreBusy, ZenonT(30) DEF TimeoutNext, Middleware, Handler
-----------------------------------------------------------------------------
(* What a step leaves alone.                                               *)

\* A step that starts nothing: contexts and goroutines stay with their requests.
Plain ==
  /\ gin' = gin /\ owner' = owner /\ pool' = pool /\ handlers' = handlers
  /\ \A h \in Goroutines : at'[h] = "idle" <=> at[h] = "idle"
  /\ \A x \in Contexts : Belongs(cwriter'[x], x)
  /\ \A h \in Goroutines :
       /\ orig'[h] \in {orig[h], None} /\ child'[h] \in {child[h], None}
       /\ at'[h] \in Waiting => at[h] \in Waiting /\ orig'[h] = orig[h] /\ child'[h] = child[h]

\* A step of g changes g, its child, its context and the writers of that.
Shape(g) ==
  /\ \A h \in Goroutines \ {g} :
       /\ h # child[g] => at'[h] = at[h]
       /\ reg'[h] = reg[h] /\ job'[h] = job[h] /\ child'[h] = child[h] /\ orig'[h] = orig[h]
  /\ \A y \in Contexts \ {gin[g]} : index'[y] = index[y] /\ cwriter'[y] = cwriter[y]
  /\ \A w \in Writers : ~Belongs(w, gin[g]) => writers'[w] = writers[w]
  /\ \A q \in Requests \ {g} : sent'[q] = sent[q] /\ metric'[q] = metric[q]

\* Moving a goroutine moves no other.
LEMMA GotoFacts ==
  ASSUME TimeoutTypeOK, NEW g \in Goroutines, NEW label, Goto(g, label)
  PROVE  at'[g] = label /\ \A h \in Goroutines \ {g} : at'[h] = at[h]
  BY Zenon DEF TimeoutTypeOK, Goto

\* A step that starts no goroutine touches only what belongs to its context.
LEMMA OrdinaryStep ==
  ASSUME Gateway, TimeoutTypeOK, Apart, NEW g \in Goroutines,
         \/ LoadIndex(g) \/ StoreIndex(g)
         \/ Finished(g) \/ PanicReceived(g) \/ DeadlineExceeded(g)
         \/ FlushHead(g) \/ FlushBody(g) \/ TimeoutHead(g) \/ WriteTimeoutBody(g)
         \/ HandlerHead(g) \/ HandlerBody(g) \/ HandlerPanic(g)
         \/ g \in Requests /\ (Return(g) \/ Recover(g))
  PROVE  Plain /\ Shape(g)
<1>0. at[g] # "idle"
  BY ZenonT(120) DEF LoadIndex, StoreIndex, Finished, PanicReceived, DeadlineExceeded, FlushHead,
     FlushBody, TimeoutHead, WriteTimeoutBody, HandlerHead, HandlerBody, HandlerPanic, Return, Recover
<1> DEFINE x == gin[g]
<1>1. /\ x \in Contexts /\ cwriter[x] \in Writers /\ Belongs(cwriter[x], x) /\ Belongs(x, x)
      /\ at[g] \in Waiting => /\ orig[g] \in Writers /\ child[g] \in Spawned
                              /\ Belongs(orig[g], x) /\ Belongs(child[g], x)
      /\ x \in Writers
  <2>1. /\ x \in Contexts /\ cwriter[x] \in Writers
        /\ at[g] \in Waiting => orig[g] \in Writers /\ child[g] \in Spawned
    BY <1>0, AtWork, Zenon
  <2>2. Belongs(cwriter[x], x) /\ Belongs(x, x)  BY <2>1, Zenon DEF Apart, Belongs
  <2>3. at[g] \in Waiting => /\ orig[g] # None /\ child[g] # None
                            /\ Belongs(orig[g], gin[g]) /\ child[g] \in On(gin[g])
    BY Zenon DEF Apart
  <2> QED  BY <2>1, <2>2, <2>3, Zenon DEF Belongs, Writers
<1> HIDE DEF x
<1>2. CASE LoadIndex(g)
  <2>1. at'[g] = "store" /\ \A h \in Goroutines \ {g} : at'[h] = at[h]
    BY <1>2, GotoFacts, Zenon DEF LoadIndex
  <2>2. \A h \in Goroutines \ {g} : reg'[h] = reg[h]  BY <1>2, Zenon DEF LoadIndex, TimeoutTypeOK
  <2>3. UNCHANGED <<index, handlers, cwriter, owner, pool, writers, gin, job, child, orig, sent, metric>>
    BY <1>2, Zenon DEF LoadIndex, ginVars, results
  <2>4. Plain  BY <1>0, <2>1, <2>3, Zenon DEF Plain, Apart, Waiting
  <2>5. Shape(g)  BY <2>1, <2>2, <2>3, Zenon DEF Shape
  <2> QED  BY <2>4, <2>5, Zenon
<1>3. CASE StoreIndex(g)
  <2>0. PICK label \in {"return", "finished", "head", "start"} : Goto(g, label)
    BY <1>3, Zenon DEF StoreIndex
  <2>1. at'[g] = label /\ \A h \in Goroutines \ {g} : at'[h] = at[h]  BY <2>0, GotoFacts, Zenon
  <2>2. \A h \in Goroutines \ {g} : reg'[h] = reg[h]  BY <1>3, Zenon DEF StoreIndex, TimeoutTypeOK
  <2>3. \A h \in Goroutines \ {g} : job'[h] = job[h]
    <3>1. \/ job' = job \/ job' = [job EXCEPT ![g] = owner[gin[g]]]  BY <1>3, Zenon DEF StoreIndex
    <3> QED  BY <3>1, Zenon DEF TimeoutTypeOK
  <2>4. \A y \in Contexts \ {gin[g]} : index'[y] = index[y]
    BY <1>3, Zenon DEF StoreIndex, TimeoutTypeOK
  <2>5. UNCHANGED <<handlers, cwriter, owner, pool, writers, gin, child, orig, sent, metric>>
    BY <1>3, Zenon DEF StoreIndex, results
  <2>6. at'[g] # "idle" /\ at'[g] \notin Waiting  BY <2>1, Zenon DEF Waiting
  <2>7. Plain  BY <1>0, <2>1, <2>5, <2>6, Zenon DEF Plain, Apart
  <2>8. Shape(g)  BY <2>1, <2>2, <2>3, <2>4, <2>5, Zenon DEF Shape
  <2> QED  BY <2>7, <2>8, Zenon
<1>4. CASE Finished(g)
  <2>1. at'[g] = "flush" /\ at[g] \in Waiting /\ \A h \in Goroutines \ {g} : at'[h] = at[h]
    BY <1>4, GotoFacts, Zenon DEF Finished, Waiting
  <2>2. UNCHANGED <<index, handlers, cwriter, owner, pool, writers, gin, reg, job, child, orig, sent, metric>>
    BY <1>4, Zenon DEF Finished, ginVars, locals, results
  <2>3. Plain  BY <1>0, <2>1, <2>2, Zenon DEF Plain, Apart
  <2>4. Shape(g)  BY <2>1, <2>2, Zenon DEF Shape
  <2> QED  BY <2>3, <2>4, Zenon
<1>5. CASE PanicReceived(g)
  <2>1. at' = [at EXCEPT ![g] = Panic(g), ![child[g]] = "gone"] /\ at[g] \in Waiting
    BY <1>5, Zenon DEF PanicReceived, Waiting
  <2>2. at[child[g]] = "panicked" /\ child[g] \in Goroutines
    BY <1>1, <1>5, <2>1, Zenon DEF PanicReceived, Goroutines
  <2>3. at'[child[g]] = "gone" /\ (g # child[g] => at'[g] = Panic(g))
    BY <2>1, <2>2, Zenon DEF TimeoutTypeOK
  <2>4. \A h \in Goroutines \ {g} : h # child[g] => at'[h] = at[h]
    BY <2>1, <2>2, Zenon DEF TimeoutTypeOK
  <2>5. \A y \in Contexts \ {gin[g]} : cwriter'[y] = cwriter[y]
    BY <1>5, Zenon DEF PanicReceived, TimeoutTypeOK
  <2>6. cwriter'[x] = orig[g]  BY <1>1, <1>5, Zenon DEF PanicReceived, TimeoutTypeOK, x
  <2>7. UNCHANGED <<index, handlers, owner, pool, writers, gin, reg, job, child, orig, sent, metric>>
    BY <1>5, Zenon DEF PanicReceived, locals, results
  <2>8. \A y \in Contexts : Belongs(cwriter'[y], y)
    <3>1. \A y \in Contexts : Belongs(cwriter[y], y)  BY Zenon DEF Apart
    <3>2. Belongs(cwriter'[x], x)  BY <1>1, <2>1, <2>6, Zenon
    <3>3. \A y \in Contexts \ {x} : cwriter'[y] = cwriter[y]  BY <2>5, Zenon DEF x
    <3>4. ASSUME NEW y \in Contexts PROVE Belongs(cwriter'[y], y)
      <4>1. CASE y = x  BY <3>2, <4>1, Zenon
      <4>2. CASE y # x
        <5>1. cwriter'[y] = cwriter[y]  BY <3>3, <4>2, Zenon
        <5> QED  BY <3>1, <5>1, Zenon
      <4> QED  BY <4>1, <4>2, Zenon
    <3> QED  BY <3>4, Zenon
  <2>9. "idle" # "panicked" /\ "idle" # Panic(g) /\ "gone" \notin Waiting /\ Panic(g) \notin Waiting
        /\ "gone" # "idle"
    BY Zenon DEF Panic, Waiting
  <2>10. \A h \in Goroutines : at'[h] = "idle" <=> at[h] = "idle"
    BY <1>0, <2>2, <2>3, <2>4, <2>9, Zenon
  <2>11. \A h \in Goroutines : at'[h] \in Waiting => at[h] \in Waiting
    BY <2>2, <2>3, <2>4, <2>9, Zenon
  <2>12. Plain  BY <2>7, <2>8, <2>10, <2>11, Zenon DEF Plain
  <2>13. Shape(g)  BY <2>4, <2>5, <2>7, Zenon DEF Shape
  <2> QED  BY <2>12, <2>13, Zenon
<1>6. CASE DeadlineExceeded(g)
  <2>1. at'[g] = "timeout" /\ at[g] \in Waiting /\ \A h \in Goroutines \ {g} : at'[h] = at[h]
    BY <1>6, GotoFacts, Zenon DEF DeadlineExceeded, Waiting
  <2>2. UNCHANGED <<index, handlers, cwriter, owner, pool, gin, reg, job, child, orig, sent, metric>>
    BY <1>6, Zenon DEF DeadlineExceeded, ginVars, locals, results
  <2>3. \A w \in Writers : ~Belongs(w, gin[g]) => writers'[w] = writers[w]
    <3>1. PICK e : writers' = [writers EXCEPT ![child[g]] = e]
      BY <1>6, ZenonT(120) DEF DeadlineExceeded
    <3> QED  BY <1>1, <2>1, <3>1, Zenon DEF TimeoutTypeOK, x
  <2>4. Plain  BY <1>0, <2>1, <2>2, Zenon DEF Plain, Apart
  <2>5. Shape(g)  BY <2>1, <2>2, <2>3, Zenon DEF Shape
  <2> QED  BY <2>4, <2>5, Zenon
<1>7. CASE FlushHead(g) \/ TimeoutHead(g)
  <2>1. /\ at'[g] \in {"flushBody", "timeoutBody"} /\ at[g] \in Waiting
        /\ \A h \in Goroutines \ {g} : at'[h] = at[h]
    BY <1>7, GotoFacts, Zenon DEF FlushHead, TimeoutHead, Waiting
  <2>2. UNCHANGED <<index, handlers, cwriter, owner, pool, gin, reg, job, child, orig, sent, metric>>
    BY <1>7, Zenon DEF FlushHead, TimeoutHead, ginVars, locals, results
  <2>3. \A w \in Writers : ~Belongs(w, gin[g]) => writers'[w] = writers[w]
    BY <1>1, <1>7, <2>1, ZenonT(120) DEF FlushHead, TimeoutHead, WriteHeader, TimeoutTypeOK, x
  <2>4. Plain  BY <1>0, <2>1, <2>2, Zenon DEF Plain, Apart
  <2>5. Shape(g)  BY <2>1, <2>2, <2>3, Zenon DEF Shape
  <2> QED  BY <2>4, <2>5, Zenon
<1>8. CASE FlushBody(g) \/ WriteTimeoutBody(g)
  <2>0. Leave(g) /\ at[g] \in Waiting  BY <1>8, Zenon DEF FlushBody, WriteTimeoutBody, Waiting
  <2>1. at'[g] = "load" /\ \A h \in Goroutines \ {g} : at'[h] = at[h]
    BY <2>0, GotoFacts, Zenon DEF Leave
  <2>2. UNCHANGED <<index, handlers, cwriter, owner, pool, gin, reg, job, sent, metric>>
    BY <1>8, <2>0, Zenon DEF FlushBody, WriteTimeoutBody, Leave, ginVars, results
  <2>3. \A w \in Writers : ~Belongs(w, gin[g]) => writers'[w] = writers[w]
    BY <1>1, <1>8, <2>0, Zenon DEF FlushBody, WriteTimeoutBody, Write, TimeoutTypeOK, x
  <2>4. /\ child'[g] = None /\ orig'[g] = None
        /\ \A h \in Goroutines \ {g} : child'[h] = child[h] /\ orig'[h] = orig[h]
    BY <2>0, Zenon DEF Leave, TimeoutTypeOK
  <2>5. "load" \notin Waiting /\ "load" # "idle"  BY Zenon DEF Waiting
  <2>6. Plain
    <3>1. \A h \in Goroutines : at'[h] = "idle" <=> at[h] = "idle"  BY <1>0, <2>1, <2>5, Zenon
    <3>2. \A h \in Goroutines :
            /\ orig'[h] \in {orig[h], None} /\ child'[h] \in {child[h], None}
            /\ at'[h] \in Waiting => at[h] \in Waiting /\ orig'[h] = orig[h] /\ child'[h] = child[h]
      BY <2>1, <2>4, <2>5, Zenon
    <3> QED  BY <2>2, <3>1, <3>2, Zenon DEF Plain, Apart
  <2>7. Shape(g)  BY <2>1, <2>2, <2>3, <2>4, Zenon DEF Shape
  <2> QED  BY <2>6, <2>7, Zenon
<1>9. CASE HandlerHead(g)
  <2>1. at'[g] = "body" /\ \A h \in Goroutines \ {g} : at'[h] = at[h]
    BY <1>9, GotoFacts, Zenon DEF HandlerHead
  <2>2. UNCHANGED <<index, handlers, cwriter, owner, pool, gin, reg, job, child, orig, sent, metric>>
    BY <1>9, Zenon DEF HandlerHead, ginVars, locals, results
  <2>3. \A w \in Writers : ~Belongs(w, gin[g]) => writers'[w] = writers[w]
    BY <1>1, <1>9, Zenon DEF HandlerHead, WriteHeader, TimeoutTypeOK, x
  <2>4. Plain  BY <1>0, <2>1, <2>2, Zenon DEF Plain, Apart, Waiting
  <2>5. Shape(g)  BY <2>1, <2>2, <2>3, Zenon DEF Shape
  <2> QED  BY <2>4, <2>5, Zenon
<1>10. CASE HandlerBody(g)
  <2>1. at'[g] = "load" /\ \A h \in Goroutines \ {g} : at'[h] = at[h]
    BY <1>10, GotoFacts, Zenon DEF HandlerBody
  <2>2. UNCHANGED <<index, handlers, cwriter, owner, pool, gin, reg, child, orig, sent, metric>>
    BY <1>10, Zenon DEF HandlerBody, ginVars, results
  <2>3. \A w \in Writers : ~Belongs(w, gin[g]) => writers'[w] = writers[w]
    BY <1>1, <1>10, Zenon DEF HandlerBody, Write, TimeoutTypeOK, x
  <2>4. \A h \in Goroutines \ {g} : job'[h] = job[h]  BY <1>10, Zenon DEF HandlerBody, TimeoutTypeOK
  <2>5. Plain  BY <1>0, <2>1, <2>2, Zenon DEF Plain, Apart, Waiting
  <2>6. Shape(g)  BY <2>1, <2>2, <2>3, <2>4, Zenon DEF Shape
  <2> QED  BY <2>5, <2>6, Zenon
<1>11. CASE HandlerPanic(g)
  <2>1. at'[g] = Panic(g) /\ \A h \in Goroutines \ {g} : at'[h] = at[h]
    BY <1>11, GotoFacts, Zenon DEF HandlerPanic
  <2>2. UNCHANGED <<index, handlers, cwriter, owner, pool, writers, gin, reg, child, orig, sent, metric>>
    BY <1>11, Zenon DEF HandlerPanic, ginVars, results
  <2>3. Panic(g) \notin Waiting /\ Panic(g) # "idle"  BY Zenon DEF Panic, Waiting
  <2>4. \A h \in Goroutines \ {g} : job'[h] = job[h]  BY <1>11, Zenon DEF HandlerPanic, TimeoutTypeOK
  <2>5. Plain
    <3>1. \A h \in Goroutines : at'[h] = "idle" <=> at[h] = "idle"  BY <1>0, <2>1, <2>3, Zenon
    <3>2. \A h \in Goroutines : at'[h] \in Waiting => at[h] \in Waiting  BY <2>1, <2>3, Zenon
    <3> QED  BY <2>2, <3>1, <3>2, Zenon DEF Plain, Apart
  <2>6. Shape(g)  BY <2>1, <2>2, <2>4, Zenon DEF Shape
  <2> QED  BY <2>5, <2>6, Zenon
<1>12. CASE g \in Requests /\ (Return(g) \/ Recover(g))
  <2>1. at'[g] = "answered" /\ \A h \in Goroutines \ {g} : at'[h] = at[h]
    BY <1>12, GotoFacts, Zenon DEF Return, Recover
  <2>2. UNCHANGED <<index, handlers, cwriter, owner, pool, gin, reg, job, child, orig>>
    BY <1>12, ZenonT(120) DEF Return, Recover, locals, Gateway
  <2>3. \A w \in Writers : ~Belongs(w, gin[g]) => writers'[w] = writers[w]
    <3>1. CASE Return(g)  BY <3>1, Zenon DEF Return
    <3>2. CASE Recover(g)
      <4>1. PICK code \in Nat : WriteHeader(cwriter[x], code)  BY <3>2 DEF Recover, x
      <4> QED  BY <1>1, <4>1, Zenon DEF WriteHeader, TimeoutTypeOK, x
    <3> QED  BY <1>12, <3>1, <3>2, Zenon
  <2>4. \A q \in Requests \ {g} : sent'[q] = sent[q] /\ metric'[q] = metric[q]
    BY <1>12, ZenonT(120) DEF Return, Recover, TimeoutTypeOK
  <2>5. Plain  BY <1>0, <2>1, <2>2, Zenon DEF Plain, Apart, Waiting
  <2>6. Shape(g)  BY <2>1, <2>2, <2>3, <2>4, Zenon DEF Shape
  <2> QED  BY <2>5, <2>6, Zenon
<1> QED
  BY <1>2, <1>3, <1>4, <1>5, <1>6, <1>7, <1>8, <1>9, <1>10, <1>11, <1>12, Zenon

\* Such a step keeps the contexts apart.
LEMMA PlainApart ==
  ASSUME Apart, Plain
  PROVE  Apart'
<1>1. gin' = gin  BY Zenon DEF Plain
<1>3. /\ \A g \in Goroutines : at'[g] = "idle" <=> gin'[g] = None
      /\ \A g \in Goroutines : at'[g] = "idle" => child'[g] = None /\ orig'[g] = None
  BY Zenon DEF Apart, Plain
<1>4. /\ \A r \in Requests : at'[r] # "idle" => owner'[gin'[r]] = r
      /\ \A x \in Contexts : x \in pool' <=> owner'[x] = None
      /\ \A x \in Contexts \ pool' : gin'[owner'[x]] = x /\ handlers'[x] \in {Single, Double}
      /\ \A s \in Spawned : gin'[s] \notin pool'
  BY Zenon DEF Apart, Plain, Goroutines
<1>5. \A x \in Contexts : Belongs(cwriter[x], x)'  BY <1>1, Zenon DEF Plain, Belongs, On
<1>6. ASSUME NEW g \in Goroutines
      PROVE  (/\ orig[g] = None \/ Belongs(orig[g], gin[g])
              /\ child[g] = None \/ child[g] \in On(gin[g])
              /\ at[g] \in Waiting => orig[g] # None /\ child[g] # None)'
  <2>1. /\ orig[g] = None \/ Belongs(orig[g], gin[g])
        /\ child[g] = None \/ child[g] \in On(gin[g])
        /\ at[g] \in Waiting => orig[g] # None /\ child[g] # None
    BY Zenon DEF Apart
  <2>3. orig'[g] \in {orig[g], None} /\ child'[g] \in {child[g], None}  BY Zenon DEF Plain
  <2>4. at'[g] \in Waiting => at[g] \in Waiting /\ orig'[g] = orig[g] /\ child'[g] = child[g]
    BY Zenon DEF Plain
  <2> QED  BY <1>1, <2>1, <2>3, <2>4, Zenon DEF Belongs, On
<1> QED  BY <1>3, <1>4, <1>5, <1>6, Zenon DEF Apart

\* A timeout starts a goroutine that was idle, in the context of the one that waits for it.
Starts(g, s) ==
  /\ at[g] = "start" /\ at[s] = "idle" /\ g # s
  /\ gin[s] = None /\ orig[s] = None /\ child[s] = None
  /\ at' = [at EXCEPT ![g] = "select", ![s] = "load"]
  /\ gin' = [gin EXCEPT ![s] = gin[g]]
  /\ orig' = [orig EXCEPT ![g] = cwriter[gin[g]]]
  /\ child' = [child EXCEPT ![g] = s]
  /\ cwriter' = [cwriter EXCEPT ![gin[g]] = s]
  /\ writers' = [writers EXCEPT ![s] = Fresh]
  /\ UNCHANGED <<index, handlers, owner, pool, reg, job, sent, metric>>

Started(g, s) ==
  /\ Starts(g, s)
  /\ at'[g] = "select" /\ at'[s] = "load" /\ orig'[g] = cwriter[gin[g]] /\ child'[g] = s
  /\ gin'[s] = gin[g] /\ cwriter'[gin[g]] = s /\ writers'[s] = Fresh
  /\ orig'[s] = None /\ child'[s] = None
  /\ \A h \in Goroutines \ {s} : gin'[h] = gin[h]
  /\ \A h \in Goroutines \ {g, s} : at'[h] = at[h] /\ orig'[h] = orig[h] /\ child'[h] = child[h]
  /\ \A y \in Contexts \ {gin[g]} : cwriter'[y] = cwriter[y]
  /\ \A w \in Writers \ {s} : writers'[w] = writers[w]

\* What starting a timeout goroutine does.
LEMMA StartFacts ==
  ASSUME TimeoutTypeOK, Apart, NEW g \in Goroutines, StartTimeout(g)
  PROVE  \E s \in Spawned : Started(g, s)
<1>1. at[g] = "start"  BY Zenon DEF StartTimeout
<1>2. gin[g] \in Contexts  BY <1>1, AtWork, Zenon
<1>3. PICK s \in Spawned :
        /\ at[s] = "idle"
        /\ orig' = [orig EXCEPT ![g] = cwriter[gin[g]]]
        /\ writers' = [writers EXCEPT ![s] = Fresh]
        /\ cwriter' = [cwriter EXCEPT ![gin[g]] = s]
        /\ child' = [child EXCEPT ![g] = s]
        /\ gin' = [gin EXCEPT ![s] = gin[g]]
        /\ at' = [at EXCEPT ![g] = "select", ![s] = "load"]
        /\ UNCHANGED <<index, handlers, owner, pool, reg, job, results>>
  BY Zenon DEF StartTimeout
<1>4. s \in Goroutines /\ s \in Writers /\ g # s  BY <1>1, <1>3, Zenon DEF Goroutines, Writers
<1>5. gin[s] = None /\ orig[s] = None /\ child[s] = None  BY <1>3, <1>4, Zenon DEF Apart
<1>6. Starts(g, s)  BY <1>1, <1>3, <1>4, <1>5, Zenon DEF Starts, results
<1>7. /\ at'[g] = "select" /\ at'[s] = "load"
      /\ \A h \in Goroutines \ {g, s} : at'[h] = at[h]
  BY <1>3, <1>4, Zenon DEF TimeoutTypeOK
<1>8. /\ orig'[g] = cwriter[gin[g]] /\ child'[g] = s /\ orig'[s] = None /\ child'[s] = None
      /\ \A h \in Goroutines \ {g, s} : orig'[h] = orig[h] /\ child'[h] = child[h]
  BY <1>3, <1>4, <1>5, Zenon DEF TimeoutTypeOK
<1>9. gin'[s] = gin[g] /\ \A h \in Goroutines \ {s} : gin'[h] = gin[h]
  BY <1>3, <1>4, Zenon DEF TimeoutTypeOK
<1>10. cwriter'[gin[g]] = s /\ \A y \in Contexts \ {gin[g]} : cwriter'[y] = cwriter[y]
  BY <1>2, <1>3, Zenon DEF TimeoutTypeOK
<1>11. writers'[s] = Fresh /\ \A w \in Writers \ {s} : writers'[w] = writers[w]
  BY <1>3, <1>4, Zenon DEF TimeoutTypeOK
<1>12. Started(g, s)  BY <1>6, <1>7, <1>8, <1>9, <1>10, <1>11, Zenon DEF Started
<1> QED  BY <1>12, Zenon

\* Starting one keeps the contexts apart.
LEMMA StartApart ==
  ASSUME TimeoutTypeOK, Apart, NEW g \in Goroutines, StartTimeout(g)
  PROVE  Apart'
<1>0. PICK s \in Spawned : Started(g, s)  BY StartFacts, Zenon
<1>1. /\ Starts(g, s)
      /\ at'[g] = "select" /\ at'[s] = "load" /\ orig'[g] = cwriter[gin[g]] /\ child'[g] = s
      /\ gin'[s] = gin[g] /\ cwriter'[gin[g]] = s
      /\ orig'[s] = None /\ child'[s] = None
      /\ \A h \in Goroutines \ {s} : gin'[h] = gin[h]
      /\ \A h \in Goroutines \ {g, s} : at'[h] = at[h] /\ orig'[h] = orig[h] /\ child'[h] = child[h]
      /\ \A y \in Contexts \ {gin[g]} : cwriter'[y] = cwriter[y]
  BY <1>0, Zenon DEF Started
<1>2. /\ at[g] = "start" /\ at[s] = "idle" /\ g # s /\ gin[s] = None
      /\ owner' = owner /\ pool' = pool /\ handlers' = handlers
  BY <1>1, Zenon DEF Starts
<1>3. /\ gin[g] \in Contexts /\ gin[g] \notin pool /\ gin[g] # None
      /\ s \in Goroutines /\ \A q \in Requests : q \in Goroutines /\ q # s
  <2>1. gin[g] \in Contexts /\ gin[g] \notin pool  BY <1>2, AtWork, Zenon
  <2> QED  BY <2>1, TimeoutAssumption, Zenon DEF Goroutines
<1>4. /\ \A h \in Goroutines : at'[h] = "idle" <=> gin'[h] = None
      /\ \A h \in Goroutines : at'[h] = "idle" => child'[h] = None /\ orig'[h] = None
  <2>1. ASSUME NEW h \in Goroutines
        PROVE  (at'[h] = "idle" <=> gin'[h] = None) /\ (at'[h] = "idle" => child'[h] = None /\ orig'[h] = None)
    <3>1. CASE h = g  BY <1>1, <1>2, <1>3, <3>1, Zenon
    <3>2. CASE h = s  BY <1>1, <1>2, <1>3, <3>2, Zenon
    <3>3. CASE h \notin {g, s}
      <4>1. at'[h] = at[h] /\ gin'[h] = gin[h] /\ orig'[h] = orig[h] /\ child'[h] = child[h]
        BY <1>1, <3>3, Zenon
      <4>2. (at[h] = "idle" <=> gin[h] = None) /\ (at[h] = "idle" => child[h] = None /\ orig[h] = None)
        BY Zenon DEF Apart
      <4> QED  BY <4>1, <4>2, Zenon
    <3> QED  BY <3>1, <3>2, <3>3, Zenon
  <2> QED  BY <2>1, Zenon
<1>5. \A r \in Requests : at'[r] # "idle" => owner'[gin'[r]] = r
  <2>1. ASSUME NEW r \in Requests, at'[r] # "idle" PROVE owner'[gin'[r]] = r
    <3>1. at[r] # "idle" /\ gin'[r] = gin[r]  BY <1>1, <1>2, <1>3, <2>1, Zenon
    <3> QED  BY <1>2, <3>1, Zenon DEF Apart
  <2> QED  BY <2>1, Zenon
<1>6. /\ \A x \in Contexts : x \in pool' <=> owner'[x] = None
      /\ \A x \in Contexts \ pool' : gin'[owner'[x]] = x /\ handlers'[x] \in {Single, Double}
  <2>1. ASSUME NEW x \in Contexts \ pool PROVE gin'[owner[x]] = x /\ handlers[x] \in {Single, Double}
    <3>1. gin[owner[x]] = x /\ owner[x] # None /\ handlers[x] \in {Single, Double}  BY Zenon DEF Apart
    <3>2. owner[x] \in Requests  BY <3>1, Zenon DEF TimeoutTypeOK
    <3> QED  BY <1>1, <1>3, <3>1, <3>2, Zenon
  <2> QED  BY <1>2, <2>1, Zenon DEF Apart
<1>7. \A t \in Spawned : gin'[t] \notin pool'
  BY <1>1, <1>2, <1>3, Zenon DEF Apart, Goroutines
<1>8. \A w, y : Belongs(w, y) /\ y # None => w = y \/ (w \in Spawned /\ gin'[w] = y)
  BY <1>1, <1>2, Zenon DEF Belongs, On, Goroutines
<1>9. ASSUME NEW x \in Contexts
      PROVE  cwriter'[x] = x \/ (cwriter'[x] \in Spawned /\ gin'[cwriter'[x]] = x)
  <2>1. CASE x = gin[g]  BY <1>1, <2>1, Zenon
  <2>2. CASE x # gin[g]
    <3>1. Belongs(cwriter[x], x) /\ x # None  BY TimeoutAssumption, Zenon DEF Apart
    <3>2. cwriter'[x] = cwriter[x]  BY <1>1, <2>2, Zenon
    <3>3. cwriter[x] = x \/ (cwriter[x] \in Spawned /\ gin'[cwriter[x]] = x)  BY <1>8, <3>1, Zenon
    <3> QED  BY <3>2, <3>3, Zenon
  <2> QED  BY <2>1, <2>2, Zenon
<1>10. ASSUME NEW h \in Goroutines
       PROVE  /\ \/ orig'[h] = None \/ orig'[h] = gin'[h]
                 \/ orig'[h] \in Spawned /\ gin'[orig'[h]] = gin'[h]
              /\ child'[h] = None \/ (child'[h] \in Spawned /\ gin'[child'[h]] = gin'[h])
              /\ at'[h] \in Waiting => orig'[h] # None /\ child'[h] # None
  <2>1. CASE h = g
    <3>1. Belongs(cwriter[gin[g]], gin[g]) /\ cwriter[gin[g]] \in Writers
      BY <1>3, Zenon DEF Apart, TimeoutTypeOK
    <3>2. None \notin Writers /\ None \notin Spawned  BY TimeoutAssumption, Zenon DEF Writers
    <3>3. gin'[g] = gin[g]  BY <1>1, <1>2, Zenon
    <3>4. orig'[g] = cwriter[gin[g]] /\ child'[g] = s /\ gin'[s] = gin[g]  BY <1>1, Zenon
    <3>5. cwriter[gin[g]] = gin[g] \/ (cwriter[gin[g]] \in Spawned /\ gin'[cwriter[gin[g]]] = gin[g])
      BY <1>3, <1>8, <3>1, Zenon
    <3>6. orig'[g] # None /\ child'[g] # None  BY <3>1, <3>2, <3>4, Zenon
    <3>7. /\ orig'[g] = gin'[g] \/ (orig'[g] \in Spawned /\ gin'[orig'[g]] = gin'[g])
          /\ child'[g] \in Spawned /\ gin'[child'[g]] = gin'[g]
      BY <3>3, <3>4, <3>5, Zenon
    <3> QED  BY <2>1, <3>6, <3>7, Zenon
  <2>2. CASE h = s  BY <1>1, <2>2, Zenon DEF Waiting
  <2>3. CASE h \notin {g, s}
    <3>1. orig'[h] = orig[h] /\ child'[h] = child[h] /\ at'[h] = at[h] /\ gin'[h] = gin[h]
      BY <1>1, <2>3, Zenon
    <3>2. CASE at[h] = "idle"
      <4>1. orig[h] = None /\ child[h] = None /\ "idle" \notin Waiting  BY <3>2, LabelNames, Zenon DEF Apart
      <4> QED  BY <3>1, <3>2, <4>1, Zenon
    <3>3. CASE at[h] # "idle"
      <4>1. /\ orig[h] = None \/ Belongs(orig[h], gin[h])
            /\ child[h] = None \/ (child[h] \in Spawned /\ gin[child[h]] = gin[h])
            /\ at[h] \in Waiting => orig[h] # None /\ child[h] # None /\ gin[h] # None
        BY <3>3, Zenon DEF Apart, On
      <4>2. gin[h] # None  BY <3>3, Zenon DEF Apart
      <4>3. child[h] \in Spawned /\ gin[child[h]] = gin[h] => gin'[child[h]] = gin[h]
        BY <1>1, <1>2, <4>2, Zenon DEF Goroutines
      <4>4. Belongs(orig[h], gin[h])
              => orig[h] = gin[h] \/ (orig[h] \in Spawned /\ gin'[orig[h]] = gin[h])
        BY <1>8, <4>2, Zenon
      <4> QED  BY <3>1, <4>1, <4>3, <4>4, Zenon
    <3> QED  BY <3>2, <3>3, Zenon
  <2> QED  BY <2>1, <2>2, <2>3, Zenon
<1> QED  BY <1>4, <1>5, <1>6, <1>7, <1>9, <1>10, Zenon DEF Apart, Belongs, On

\* So does taking a context from the pool.
LEMMA ServeApart ==
  ASSUME Gateway, TimeoutTypeOK, Apart, NEW r \in Requests, NEW x \in Contexts, ServeHTTP(r, x)
  PROVE  Apart'
<1>1. /\ at[r] = "idle" /\ x \in pool /\ pool' = pool \ {x}
      /\ UNCHANGED <<reg, job, child, orig>>
  BY Zenon DEF ServeHTTP
<1>2. /\ gin'[r] = x /\ at'[r] = "load"
      /\ \A h \in Goroutines \ {r} : gin'[h] = gin[h] /\ at'[h] = at[h]
  BY Zenon DEF ServeHTTP, TimeoutTypeOK, Goto, Goroutines
<1>3. /\ owner'[x] = r /\ cwriter'[x] = x
      /\ \A y \in Contexts \ {x} : owner'[y] = owner[y] /\ cwriter'[y] = cwriter[y]
  BY Zenon DEF ServeHTTP, TimeoutTypeOK
<1>4. /\ handlers'[x] \in {Single, Double}
      /\ \A y \in Contexts \ {x} : handlers'[y] = handlers[y]
  <2>1. PICK chain \in Chains : handlers' = [handlers EXCEPT ![x] = chain]  BY Zenon DEF ServeHTTP
  <2>2. chain \in {Single, Double}  BY Zenon DEF Gateway
  <2> QED  BY <2>1, <2>2, Zenon DEF TimeoutTypeOK
<1>5. /\ r \in Goroutines /\ r \notin Spawned /\ r # None /\ x # None
      /\ gin[r] = None /\ orig[r] = None /\ child[r] = None
  <2>1. r \in Goroutines /\ r \notin Spawned /\ r # None /\ x # None
    BY TimeoutAssumption, Zenon DEF Goroutines
  <2> QED  BY <1>1, <2>1, Zenon DEF Apart
<1>6. ASSUME NEW h \in Goroutines
      PROVE  (at'[h] = "idle" <=> gin'[h] = None) /\ (at'[h] = "idle" => child'[h] = None /\ orig'[h] = None)
  <2>1. CASE h = r  BY <1>2, <1>5, <2>1, Zenon
  <2>2. CASE h # r
    <3>1. (at[h] = "idle" <=> gin[h] = None) /\ (at[h] = "idle" => child[h] = None /\ orig[h] = None)
      BY Zenon DEF Apart
    <3> QED  BY <1>1, <1>2, <2>2, <3>1, Zenon
  <2> QED  BY <2>1, <2>2, Zenon
<1>7. ASSUME NEW q \in Requests, at'[q] # "idle" PROVE owner'[gin'[q]] = q
  <2>1. CASE q = r  BY <1>2, <1>3, <2>1, Zenon
  <2>2. CASE q # r
    <3>0. q \in Goroutines  BY Zenon DEF Goroutines
    <3>1. at[q] # "idle" /\ gin'[q] = gin[q]  BY <1>2, <1>7, <2>2, <3>0, Zenon
    <3>2. gin[q] \in Contexts /\ gin[q] \notin pool  BY <3>0, <3>1, AtWork, Zenon
    <3>3. owner[gin[q]] = q  BY <3>1, Zenon DEF Apart
    <3>4. gin[q] # x  BY <1>1, <3>2, Zenon
    <3> QED  BY <1>3, <3>1, <3>2, <3>3, <3>4, Zenon
  <2> QED  BY <2>1, <2>2, Zenon
<1>8. ASSUME NEW y \in Contexts
      PROVE  /\ y \in pool' <=> owner'[y] = None
             /\ y \notin pool' => gin'[owner'[y]] = y /\ handlers'[y] \in {Single, Double}
             /\ cwriter'[y] = y \/ (cwriter'[y] \in Spawned /\ gin'[cwriter'[y]] = y)
  <2>1. CASE y = x  BY <1>1, <1>2, <1>3, <1>4, <1>5, <2>1, Zenon
  <2>2. CASE y # x
    <3>1. owner'[y] = owner[y] /\ cwriter'[y] = cwriter[y] /\ handlers'[y] = handlers[y]
      BY <1>3, <1>4, <2>2, Zenon
    <3>2. y \in pool' <=> y \in pool  BY <1>1, <2>2, Zenon
    <3>3. /\ y \in pool <=> owner[y] = None
          /\ y \notin pool => gin[owner[y]] = y /\ handlers[y] \in {Single, Double}
          /\ Belongs(cwriter[y], y)
      BY Zenon DEF Apart
    <3>4. y \notin pool => owner[y] \in Goroutines /\ owner[y] # r
      <4>1. y # None  BY TimeoutAssumption, Zenon
      <4>2. owner[y] \in Requests \cup {None}  BY Zenon DEF TimeoutTypeOK
      <4> QED  BY <1>5, <3>3, <4>1, <4>2, Zenon DEF Goroutines
    <3>5. y \notin pool => gin'[owner[y]] = y  BY <1>2, <3>3, <3>4, Zenon
    <3>6. cwriter[y] = y \/ (cwriter[y] \in Spawned /\ gin'[cwriter[y]] = y)
      BY <1>2, <1>5, <3>3, Zenon DEF Belongs, On, Goroutines
    <3> QED  BY <3>1, <3>2, <3>3, <3>5, <3>6, Zenon
  <2> QED  BY <2>1, <2>2, Zenon
<1>9. \A s \in Spawned : gin'[s] \notin pool'
  BY <1>1, <1>2, <1>5, Zenon DEF Apart, Goroutines
<1>10. ASSUME NEW h \in Goroutines
       PROVE  /\ \/ orig'[h] = None \/ orig'[h] = gin'[h]
                 \/ orig'[h] \in Spawned /\ gin'[orig'[h]] = gin'[h]
              /\ child'[h] = None \/ (child'[h] \in Spawned /\ gin'[child'[h]] = gin'[h])
              /\ at'[h] \in Waiting => orig'[h] # None /\ child'[h] # None
  <2>1. CASE h = r  BY <1>1, <1>2, <1>5, <2>1, Zenon DEF Waiting
  <2>2. CASE h # r
    <3>1. /\ orig[h] = None \/ Belongs(orig[h], gin[h])
          /\ child[h] = None \/ (child[h] \in Spawned /\ gin[child[h]] = gin[h])
          /\ at[h] \in Waiting => orig[h] # None /\ child[h] # None
      BY Zenon DEF Apart, On
    <3>2. /\ gin'[h] = gin[h] /\ at'[h] = at[h]
          /\ \A t \in Spawned : gin'[t] = gin[t]
      BY <1>2, <1>5, <2>2, Zenon DEF Goroutines
    <3> QED  BY <1>1, <3>1, <3>2, Zenon DEF Belongs, On
  <2> QED  BY <2>1, <2>2, Zenon
<1> QED  BY <1>6, <1>7, <1>8, <1>9, <1>10, Zenon DEF Apart, Belongs, On
-----------------------------------------------------------------------------
(* What a step in one context leaves of another.                           *)

Untouched(y) ==
  /\ index'[y] = index[y] /\ handlers'[y] = handlers[y] /\ cwriter'[y] = cwriter[y]
  /\ \A h \in Goroutines : gin'[h] = y <=> gin[h] = y
  /\ \A h \in Goroutines : gin[h] = y
       => /\ at'[h] = at[h] /\ reg'[h] = reg[h] /\ job'[h] = job[h]
          /\ child'[h] = child[h] /\ orig'[h] = orig[h]
  /\ \A w \in Writers : Belongs(w, y) => writers'[w] = writers[w]
  /\ \A q \in Requests : gin[q] = y => sent'[q] = sent[q] /\ metric'[q] = metric[q]

\* The goroutines that were started in y, and what they share, stay as they are.
Steady(y) ==
  /\ On(y)' = On(y)
  /\ index'[y] = index[y] /\ handlers'[y] = handlers[y] /\ cwriter'[y] = cwriter[y]
  /\ \A h \in On(y) : /\ at'[h] = at[h] /\ reg'[h] = reg[h] /\ job'[h] = job[h]
                       /\ child'[h] = child[h] /\ orig'[h] = orig[h]
                       /\ writers'[h] = writers[h]

\* The inner timeout of a context is left alone by steps that do not touch it.
LEMMA FrameInner ==
  ASSUME NEW y \in Contexts, NEW r \in Requests, NEW s \in Spawned, Steady(y), Inner(s, y, r)
  PROVE  Inner(s, y, r)'
<1>1. On(y)' = On(y)  BY Zenon DEF Steady
<1>2. index'[y] = index[y] /\ handlers'[y] = handlers[y] /\ cwriter'[y] = cwriter[y]
  BY Zenon DEF Steady
<1>3. \A h \in On(y) : /\ at'[h] = at[h] /\ reg'[h] = reg[h] /\ job'[h] = job[h]
                       /\ child'[h] = child[h] /\ orig'[h] = orig[h]
                       /\ writers'[h] = writers[h]
  BY Zenon DEF Steady
<1>4. ASSUME NEW h \in On(y), Runner(h, y, r) PROVE Runner(h, y, r)'
  BY <1>2, <1>3, <1>4, Zenon DEF Runner
<1>5. ASSUME NEW h \in On(y), Straggler(h, y, r, 2) PROVE Straggler(h, y, r, 2)'
  BY <1>2, <1>3, <1>5, Zenon DEF Straggler
<1>6. CASE handlers[y] = Single /\ On(y) = {s} /\ Runner(s, y, r)
  BY <1>1, <1>2, <1>4, <1>6, Zenon DEF Inner
<1>7. CASE handlers[y] = Double /\ Alone(s, y)
  <2>1. s \in On(y)  BY <1>7, Zenon DEF Alone
  <2>2. Alone(s, y)'  BY <1>1, <1>2, <1>3, <1>7, <2>1, Zenon DEF Alone
  <2> QED  BY <1>2, <1>7, <2>2, Zenon DEF Inner
<1>8. ASSUME NEW t \in Spawned \ {s}, handlers[y] = Double, On(y) = {s, t},
             Waits(s, t, y, r) \/ GivesUp(s, t, y, r) \/ After(s, t, y, r) \/ Passed(s, t, y)
      PROVE  Inner(s, y, r)'
  <2>1. s \in On(y) /\ t \in On(y)  BY <1>8, Zenon
  <2>2. CASE Waits(s, t, y, r)
    <3>1. Waits(s, t, y, r)'  BY <1>3, <1>4, <2>1, <2>2, Zenon DEF Waits
    <3> QED  BY <1>1, <1>2, <1>8, <3>1, Zenon DEF Inner
  <2>3. CASE GivesUp(s, t, y, r)
    <3>0. writers'[t] = writers[t]  BY <1>3, <2>1, Zenon
    <3>2. writers[t].closed => writers'[t].closed  BY <3>0, Zenon
    <3>3. Straggler(t, y, r, 2)'  BY <1>5, <2>1, <2>3, Zenon DEF GivesUp
    <3>4. writers'[s] = writers[s] /\ at'[s] = at[s] /\ orig'[s] = orig[s] /\ child'[s] = child[s]
      BY <1>3, <2>1, Zenon
    <3>5. /\ orig[s] = s /\ child[s] = t /\ cwriter[y] = t
          /\ \/ at[s] = "timeout" /\ writers[s] = Fresh
             \/ at[s] = "timeoutBody" /\ writers[s] = Expired
      BY <2>3, Zenon DEF GivesUp
    <3>6. writers'[t].closed  BY <2>3, <3>2, Zenon DEF GivesUp
    <3>7. /\ orig'[s] = s /\ child'[s] = t /\ cwriter'[y] = t
          /\ \/ at'[s] = "timeout" /\ writers'[s] = Fresh
             \/ at'[s] = "timeoutBody" /\ writers'[s] = Expired
      BY <1>2, <3>4, <3>5, Zenon
    <3>1. GivesUp(s, t, y, r)'  BY <3>3, <3>6, <3>7, Zenon DEF GivesUp
    <3> QED  BY <1>1, <1>2, <1>8, <3>1, Zenon DEF Inner
  <2>4. CASE After(s, t, y, r)
    <3>1. After(s, t, y, r)'  BY <1>2, <1>3, <1>5, <2>1, <2>4, Zenon DEF After
    <3> QED  BY <1>1, <1>2, <1>8, <3>1, Zenon DEF Inner
  <2>5. CASE Passed(s, t, y)
    <3>1. Passed(s, t, y)'  BY <1>2, <1>3, <2>1, <2>5, Zenon DEF Passed
    <3> QED  BY <1>1, <1>2, <1>8, <3>1, Zenon DEF Inner
  <2> QED  BY <1>8, <2>2, <2>3, <2>4, <2>5, Zenon
<1> QED  BY <1>6, <1>7, <1>8, Zenon DEF Inner

\* So is the stage a response is in.
LEMMA FrameServed ==
  ASSUME TimeoutTypeOK, Apart, NEW y \in Contexts, NEW r \in Requests, owner[y] = r,
         Untouched(y), Served(r, y)
  PROVE  /\ Served(r, y)'
         /\ Before(r, y) => Before(r, y)'
         /\ Inside(r, y) => Inside(r, y)'
<1>1. gin[r] = y /\ r \in Goroutines
  BY TimeoutAssumption, Zenon DEF Apart, Goroutines
<1>2. /\ at'[r] = at[r] /\ reg'[r] = reg[r] /\ child'[r] = child[r] /\ orig'[r] = orig[r]
      /\ sent'[r] = sent[r]
      /\ index'[y] = index[y] /\ cwriter'[y] = cwriter[y] /\ writers'[y] = writers[y]
  BY <1>1, Zenon DEF Untouched, Belongs, Writers
<1>3. On(y)' = On(y)  BY Zenon DEF On, Untouched, Goroutines
<1>4. \A h \in On(y) : /\ at'[h] = at[h] /\ reg'[h] = reg[h] /\ job'[h] = job[h]
                       /\ child'[h] = child[h] /\ orig'[h] = orig[h]
                       /\ writers'[h] = writers[h]
  BY Zenon DEF On, Untouched, Goroutines, Belongs, Writers
<1>5. ASSUME NEW g, Sealed(y, g) PROVE Sealed(y, g)'
  BY <1>2, <1>5, Zenon DEF Sealed, Untouched
<1>6. ASSUME Before(r, y) PROVE Before(r, y)'
  BY <1>2, <1>3, <1>6, Zenon DEF Before
<1>7. ASSUME Inside(r, y) PROVE Inside(r, y)'
  <2>1. PICK s \in Spawned :
          /\ orig[r] = y /\ child[r] = s /\ Inner(s, y, r)
          /\ \/ at[r] \in {"select", "flush"} /\ writers[y] = Fresh
             \/ at[r] = "flushBody" /\ writers[y] = Header(writers[s].status)
          /\ at[r] # "select" => at[s] = "finished"
    BY <1>7, Zenon DEF Inside
  <2>2. Inner(s, y, r)'
    <3>1. handlers'[y] = handlers[y]  BY Zenon DEF Untouched
    <3>2. Steady(y)  BY <1>2, <1>3, <1>4, <3>1, Zenon DEF Steady
    <3> QED  BY <2>1, <3>2, FrameInner, Zenon
  <2>3. s \in On(y)
    <3>1. child[r] \in On(gin[r])  BY <1>1, <2>1, TimeoutAssumption, Zenon DEF Apart
    <3> QED  BY <1>1, <2>1, <3>1, Zenon
  <2> QED
    <3>1. Header(writers[s].status) = Header(writers'[s].status) /\ at'[s] = at[s]
      BY <1>4, <2>3, Zenon
    <3>2. \/ at'[r] \in {"select", "flush"} /\ writers'[y] = Fresh
          \/ at'[r] = "flushBody" /\ writers'[y] = Header(writers'[s].status)
      BY <1>2, <2>1, <3>1, Zenon
    <3> QED  BY <1>2, <2>1, <2>2, <3>1, <3>2, ZenonT(120) DEF Inside, Header
<1>8. ASSUME Expiring(r, y) PROVE Expiring(r, y)'
  BY <1>2, <1>5, <1>8, Zenon DEF Expiring
<1>9. ASSUME Over(r, y) PROVE Over(r, y)'
  <2>1. Sealed(y, None)'  BY <1>5, <1>9, Zenon DEF Over
  <2>2. Whole(writers[y], r)'  BY <1>2, <1>9 DEF Over, Whole
  <2> QED  BY <2>1, <2>2, Zenon DEF Over
<1>10. ASSUME Panicking(r, y) PROVE Panicking(r, y)'
  <2>1. PICK s \in Spawned :
          /\ child[r] = s /\ at[s] = "gone"
          /\ \A t, u \in On(y) \ {s} : t = u
          /\ \A t \in On(y) \ {s} : at[t] = "gone" \/ Late(t, y, r)
    BY <1>10, Zenon DEF Panicking
  <2>2. s \in On(y)
    <3>1. child[r] \in On(gin[r])  BY <1>1, <2>1, TimeoutAssumption, Zenon DEF Apart
    <3> QED  BY <1>1, <2>1, <3>1, Zenon
  <2>3. \A t \in On(y) : Late(t, y, r) => Late(t, y, r)'
    BY <1>2, <1>4, ZenonT(120) DEF Late, Straggler
  <2>4. /\ orig[r] = y /\ at[r] = "recover" /\ cwriter[y] = y
        /\ writers[y] \in {Fresh, Output(r)}
    BY <1>10, Zenon DEF Panicking
  <2> QED
    <3>1. /\ child'[r] = s /\ at'[s] = "gone"
          /\ \A t, u \in On(y)' \ {s} : t = u
          /\ \A t \in On(y)' \ {s} : at'[t] = "gone" \/ Late(t, y, r)'
      <4>1. child'[r] = s /\ at'[s] = "gone"  BY <1>2, <1>4, <2>1, <2>2, Zenon
      <4>2. \A t, u \in On(y)' \ {s} : t = u  BY <1>3, <2>1, Zenon
      <4>3. ASSUME NEW t \in On(y) \ {s} PROVE at'[t] = "gone" \/ Late(t, y, r)'
        <5>1. at[t] = "gone" \/ Late(t, y, r)  BY <2>1, Zenon
        <5> QED  BY <1>4, <2>3, <5>1, Zenon
      <4> QED  BY <1>3, <4>1, <4>2, <4>3, Zenon
    <3>2. writers'[y] \in {Fresh, Output(r)}  BY <1>2, <2>4, Zenon
    <3> QED  BY <1>2, <2>4, <3>1, <3>2, Zenon DEF Panicking
<1>11. ASSUME Answered(r) PROVE Answered(r)'
  BY <1>2, <1>11 DEF Answered, Whole
<1> QED  BY <1>6, <1>7, <1>8, <1>9, <1>10, <1>11, Zenon DEF Served

\* A goroutine works in its context, and so do its child and their writers.
LEMMA ContextFacts ==
  ASSUME TimeoutTypeOK, Apart, NEW g \in Goroutines, at[g] # "idle"
  PROVE  /\ gin[g] \in Contexts /\ gin[g] \in Writers
         /\ \A y \in Contexts \ {gin[g]} :
              /\ \A h \in Goroutines : gin[h] = y => h # g /\ h # child[g]
              /\ \A w \in Writers : Belongs(w, y) => ~Belongs(w, gin[g])
<1>1. gin[g] \in Contexts  BY AtWork, Zenon
<1>2. child[g] = None \/ child[g] \in On(gin[g])  BY Zenon DEF Apart
<1>3. \A h \in Goroutines : h # None  BY TimeoutAssumption, Zenon DEF Goroutines
<1>4. ASSUME NEW y \in Contexts \ {gin[g]}
      PROVE  /\ \A h \in Goroutines : gin[h] = y => h # g /\ h # child[g]
             /\ \A w \in Writers : Belongs(w, y) => ~Belongs(w, gin[g])
  <2>1. \A h \in Goroutines : gin[h] = y => h # g /\ h # child[g]
    BY <1>2, <1>3, Zenon DEF On
  <2>2. \A w \in Writers : Belongs(w, y) => ~Belongs(w, gin[g])
    BY <1>1, TimeoutAssumption, Zenon DEF Belongs, On
  <2> QED  BY <2>1, <2>2, Zenon
<1> QED  BY <1>1, <1>4, Zenon DEF Writers

\* A step on one context does not touch another.
LEMMA OrdinaryUntouched ==
  ASSUME TimeoutTypeOK, Apart, NEW g \in Goroutines, at[g] # "idle", Plain, Shape(g),
         NEW y \in Contexts, y # gin[g]
  PROVE  Untouched(y)
<1>1. /\ \A h \in Goroutines : gin[h] = y => h # g /\ h # child[g]
      /\ \A w \in Writers : Belongs(w, y) => ~Belongs(w, gin[g])
  BY ContextFacts, Zenon
<1>2. index'[y] = index[y] /\ cwriter'[y] = cwriter[y] /\ handlers' = handlers /\ gin' = gin
  BY Zenon DEF Plain, Shape
<1>3. \A h \in Goroutines : gin[h] = y
       => /\ at'[h] = at[h] /\ reg'[h] = reg[h] /\ job'[h] = job[h]
          /\ child'[h] = child[h] /\ orig'[h] = orig[h]
  BY <1>1, Zenon DEF Shape
<1>4. \A w \in Writers : Belongs(w, y) => writers'[w] = writers[w]
  BY <1>1, Zenon DEF Shape
<1>5. \A q \in Requests : gin[q] = y => sent'[q] = sent[q] /\ metric'[q] = metric[q]
  BY <1>1, Zenon DEF Shape, Goroutines
<1> QED  BY <1>2, <1>3, <1>4, <1>5, Zenon DEF Untouched

\* Nor does the start of a goroutine on one context.
LEMMA StartUntouched ==
  ASSUME TimeoutTypeOK, Apart, NEW g \in Goroutines, StartTimeout(g),
         NEW y \in Contexts, y # gin[g]
  PROVE  Untouched(y)
<1>0. at[g] # "idle"  BY Zenon DEF StartTimeout
<1>9. PICK s \in Spawned : Started(g, s)  BY StartFacts, Zenon
<1>1. /\ Starts(g, s)
      /\ gin'[s] = gin[g]
      /\ \A h \in Goroutines \ {s} : gin'[h] = gin[h]
      /\ \A h \in Goroutines \ {g, s} : at'[h] = at[h] /\ orig'[h] = orig[h] /\ child'[h] = child[h]
      /\ \A z \in Contexts \ {gin[g]} : cwriter'[z] = cwriter[z]
      /\ \A w \in Writers \ {s} : writers'[w] = writers[w]
  BY <1>9, Zenon DEF Started
<1>2. /\ gin[s] = None /\ index' = index /\ handlers' = handlers
      /\ reg' = reg /\ job' = job /\ sent' = sent /\ metric' = metric
  BY <1>1, Zenon DEF Starts
<1>3. y # None /\ y # s  BY TimeoutAssumption, Zenon
<1>4. \A h \in Goroutines : gin[h] = y => h # g /\ h # s  BY <1>2, <1>3, Zenon
<1>5. \A h \in Goroutines : gin'[h] = y <=> gin[h] = y  BY <1>1, <1>2, <1>3, Zenon
<1>6. \A w \in Writers : Belongs(w, y) => w # s  BY <1>2, <1>3, Zenon DEF Belongs, On
<1>7. \A h \in Goroutines : gin[h] = y
       => /\ at'[h] = at[h] /\ reg'[h] = reg[h] /\ job'[h] = job[h]
          /\ child'[h] = child[h] /\ orig'[h] = orig[h]
  BY <1>1, <1>2, <1>4, Zenon
<1>8. \A w \in Writers : Belongs(w, y) => writers'[w] = writers[w]
  BY <1>1, <1>6, Zenon
<1> QED  BY <1>1, <1>2, <1>5, <1>7, <1>8, Zenon DEF Untouched

\* Nor does the arrival of a request.
LEMMA ServeUntouched ==
  ASSUME TimeoutTypeOK, Apart, NEW r \in Requests, NEW x \in Contexts, ServeHTTP(r, x),
         NEW y \in Contexts, y # x
  PROVE  Untouched(y)
<1>1. /\ at[r] = "idle" /\ UNCHANGED <<reg, job, child, orig, sent, metric>>
  BY Zenon DEF ServeHTTP, results
<1>2. r \in Goroutines  BY Zenon DEF Goroutines
<1>3. gin[r] = None /\ y # None  BY <1>1, <1>2, TimeoutAssumption, Zenon DEF Apart
<1>4. gin'[r] = x /\ \A h \in Goroutines \ {r} : gin'[h] = gin[h] /\ at'[h] = at[h]
  BY <1>2, Zenon DEF ServeHTTP, TimeoutTypeOK, Goto
<1>5. index'[y] = index[y] /\ handlers'[y] = handlers[y] /\ cwriter'[y] = cwriter[y]
  BY Zenon DEF ServeHTTP, TimeoutTypeOK
<1>6. \A w \in Writers : w # x => writers'[w] = writers[w]
  BY Zenon DEF ServeHTTP, TimeoutTypeOK
<1>7. \A w \in Writers : Belongs(w, y) => w # x
  BY TimeoutAssumption, Zenon DEF Belongs, On
<1>8. \A h \in Goroutines : gin[h] = y => h # r  BY <1>3, Zenon
<1>9. \A h \in Goroutines : gin'[h] = y <=> gin[h] = y  BY <1>3, <1>4, Zenon
<1> QED  BY <1>1, <1>4, <1>5, <1>6, <1>7, <1>8, <1>9, Zenon DEF Untouched

\* Nor does a step that changes no context at all.
LEMMA StillUntouched ==
  ASSUME NEW y \in Contexts,
         UNCHANGED <<index, handlers, cwriter, gin, at, reg, job, child, orig, writers, sent, metric>>
  PROVE  Untouched(y)
  BY Zenon DEF Untouched
-----------------------------------------------------------------------------
(* The steps of a goroutine in its context.                                *)

Steps(g) == Middleware(g) \/ Handler(g) \/ (g \in Requests /\ (Return(g) \/ Recover(g)))

\* The label of a goroutine says which step it takes.
LEMMA ByLabel ==
  ASSUME NEW g \in Goroutines, Steps(g)
  PROVE  /\ at[g] = "load" => LoadIndex(g)
         /\ at[g] = "store" => StoreIndex(g)
         /\ at[g] = "start" => StartTimeout(g)
         /\ at[g] = "select" => Finished(g) \/ PanicReceived(g) \/ DeadlineExceeded(g)
         /\ at[g] = "flush" => FlushHead(g)
         /\ at[g] = "flushBody" => FlushBody(g)
         /\ at[g] = "timeout" => TimeoutHead(g)
         /\ at[g] = "timeoutBody" => WriteTimeoutBody(g)
         /\ at[g] = "head" => HandlerHead(g) \/ HandlerPanic(g)
         /\ at[g] = "body" => HandlerBody(g) \/ HandlerPanic(g)
         /\ at[g] = "return" => g \in Requests /\ Return(g)
         /\ at[g] = "recover" => g \in Requests /\ Recover(g)
         /\ at[g] \notin {"idle", "finished", "panicked", "gone", "answered"}
  BY ZenonT(120) DEF Steps, Middleware, Handler, LoadIndex, StoreIndex, StartTimeout, Finished, PanicReceived,
     DeadlineExceeded, FlushHead, FlushBody, TimeoutHead, WriteTimeoutBody, HandlerHead,
     HandlerBody, HandlerPanic, Return, Recover

\* g moves to label and changes nothing else of the goroutines, but its own locals.
Moves(g, label) ==
  /\ gin' = gin /\ handlers' = handlers /\ owner' = owner
  /\ at'[g] = label
  /\ \A h \in Goroutines \ {g} :
       /\ at'[h] = at[h] /\ reg'[h] = reg[h] /\ job'[h] = job[h]
       /\ child'[h] = child[h] /\ orig'[h] = orig[h]

\* The effect of reading the index of the chain.
LEMMA LoadEffect ==
  ASSUME TimeoutTypeOK, Apart, NEW g \in Goroutines, LoadIndex(g)
  PROVE  /\ Moves(g, "store") /\ reg'[g] = index[gin[g]]
         /\ UNCHANGED <<index, cwriter, writers, job, child, orig, sent, metric>>
<1>1. at'[g] = "store" /\ \A h \in Goroutines \ {g} : at'[h] = at[h]
  BY GotoFacts, Zenon DEF LoadIndex
<1>2. reg'[g] = index[gin[g]] /\ \A h \in Goroutines \ {g} : reg'[h] = reg[h]
  BY Zenon DEF LoadIndex, TimeoutTypeOK
<1> QED  BY <1>1, <1>2, Zenon DEF LoadIndex, Moves, ginVars, results

\* The effect of writing it back: the goroutine leaves, or runs the next handler.
LEMMA StoreEffect ==
  ASSUME TimeoutTypeOK, Apart, NEW g \in Goroutines, StoreIndex(g),
         NEW x \in Contexts, gin[g] = x
  PROVE  /\ index'[x] = reg[g] + 1
         /\ UNCHANGED <<cwriter, writers, child, orig, sent, metric>>
         /\ reg[g] + 1 > Len(handlers[x])
              => Moves(g, IF g \in Requests THEN "return" ELSE "finished") /\ job' = job
         /\ reg[g] + 1 =< Len(handlers[x]) /\ handlers[x][reg[g] + 1] = "handler"
              => Moves(g, "head") /\ job'[g] = owner[x]
         /\ reg[g] + 1 =< Len(handlers[x]) /\ handlers[x][reg[g] + 1] # "handler"
              => Moves(g, "start") /\ job' = job
<1>1. index'[x] = reg[g] + 1
  BY Zenon DEF StoreIndex, TimeoutTypeOK
<1>2. \A h \in Goroutines \ {g} : reg'[h] = reg[h]
  BY Zenon DEF StoreIndex, TimeoutTypeOK
<1>3. UNCHANGED <<handlers, cwriter, owner, writers, gin, child, orig, sent, metric>>
  BY Zenon DEF StoreIndex, results
<1>4. ASSUME NEW label, Goto(g, label), \A h \in Goroutines \ {g} : job'[h] = job[h]
      PROVE  Moves(g, label)
  <2>1. at'[g] = label /\ \A h \in Goroutines \ {g} : at'[h] = at[h]
    BY <1>4, GotoFacts, Zenon
  <2> QED  BY <1>2, <1>3, <1>4, <2>1, Zenon DEF Moves
<1>5. reg[g] \in Nat /\ Len(handlers[x]) \in Nat
  <2>1. handlers[x] \in {<<>>, Single, Double}  BY Zenon DEF TimeoutTypeOK
  <2>2. Len(handlers[x]) \in Nat  BY <2>1, Zenon DEF Single, Double
  <2> QED  BY <2>2, Zenon DEF TimeoutTypeOK
<1>6. CASE reg[g] + 1 > Len(handlers[x])
  <2>1. Goto(g, IF g \in Requests THEN "return" ELSE "finished") /\ job' = job
    BY <1>6, Zenon DEF StoreIndex
  <2>2. Moves(g, IF g \in Requests THEN "return" ELSE "finished")  BY <1>4, <2>1, Zenon
  <2>3. ~(reg[g] + 1 =< Len(handlers[x]))  BY <1>5, <1>6
  <2> QED  BY <1>1, <1>3, <2>1, <2>2, <2>3, Zenon
<1>7. CASE ~(reg[g] + 1 > Len(handlers[x])) /\ handlers[x][reg[g] + 1] = "handler"
  <2>1. Goto(g, "head") /\ job' = [job EXCEPT ![g] = owner[x]]
    BY <1>7, Zenon DEF StoreIndex
  <2>2. job'[g] = owner[x] /\ \A h \in Goroutines \ {g} : job'[h] = job[h]
    BY <2>1, Zenon DEF TimeoutTypeOK
  <2>3. Moves(g, "head")  BY <1>4, <2>1, <2>2, Zenon
  <2> QED  BY <1>1, <1>3, <1>7, <2>2, <2>3, Zenon
<1>8. CASE ~(reg[g] + 1 > Len(handlers[x])) /\ handlers[x][reg[g] + 1] # "handler"
  <2>1. Goto(g, "start") /\ job' = job
    BY <1>8, Zenon DEF StoreIndex
  <2>2. Moves(g, "start")  BY <1>4, <2>1, Zenon
  <2> QED  BY <1>1, <1>3, <1>8, <2>1, <2>2, Zenon
<1> QED  BY <1>6, <1>7, <1>8, Zenon

\* Steps that only write, or not even that.
LEMMA PlainEffect ==
  ASSUME TimeoutTypeOK, Apart, NEW g \in Goroutines
  PROVE  /\ Finished(g)
              => Moves(g, "flush") /\ UNCHANGED <<index, cwriter, writers, reg, job, child, orig, sent, metric>>
         /\ FlushHead(g)
              => Moves(g, "flushBody") /\ UNCHANGED <<index, cwriter, reg, job, child, orig, sent, metric>>
         /\ DeadlineExceeded(g)
              => Moves(g, "timeout") /\ UNCHANGED <<index, cwriter, reg, job, child, orig, sent, metric>>
         /\ TimeoutHead(g)
              => Moves(g, "timeoutBody") /\ UNCHANGED <<index, cwriter, reg, job, child, orig, sent, metric>>
         /\ HandlerHead(g)
              => Moves(g, "body") /\ UNCHANGED <<index, cwriter, reg, job, child, orig, sent, metric>>
<1>1. ASSUME NEW label, Goto(g, label), UNCHANGED <<ginVars, locals, results>>
      PROVE  Moves(g, label) /\ UNCHANGED <<index, cwriter, reg, job, child, orig, sent, metric>>
  <2>1. at'[g] = label /\ \A h \in Goroutines \ {g} : at'[h] = at[h]
    BY <1>1, GotoFacts, Zenon
  <2> QED  BY <1>1, <2>1, Zenon DEF Moves, ginVars, locals, results
<1>2. Finished(g) => Goto(g, "flush") /\ UNCHANGED <<ginVars, locals, results>> /\ writers' = writers
  BY Zenon DEF Finished
<1>3. FlushHead(g) => Goto(g, "flushBody") /\ UNCHANGED <<ginVars, locals, results>>
  BY Zenon DEF FlushHead
<1>4. DeadlineExceeded(g) => Goto(g, "timeout") /\ UNCHANGED <<ginVars, locals, results>>
  BY Zenon DEF DeadlineExceeded
<1>5. TimeoutHead(g) => Goto(g, "timeoutBody") /\ UNCHANGED <<ginVars, locals, results>>
  BY Zenon DEF TimeoutHead
<1>6. HandlerHead(g) => Goto(g, "body") /\ UNCHANGED <<ginVars, locals, results>>
  BY Zenon DEF HandlerHead
<1> QED  BY <1>1, <1>2, <1>3, <1>4, <1>5, <1>6, Zenon

\* The middleware returns.
LEMMA LeaveEffect ==
  ASSUME TimeoutTypeOK, Apart, NEW g \in Goroutines, FlushBody(g) \/ WriteTimeoutBody(g)
  PROVE  /\ Moves(g, "load") /\ child'[g] = None /\ orig'[g] = None
         /\ UNCHANGED <<index, cwriter, reg, job, sent, metric>>
<1>1. Leave(g) /\ UNCHANGED <<ginVars, results>>  BY Zenon DEF FlushBody, WriteTimeoutBody
<1>2. at'[g] = "load" /\ \A h \in Goroutines \ {g} : at'[h] = at[h]
  BY <1>1, GotoFacts, Zenon DEF Leave
<1>3. /\ child'[g] = None /\ orig'[g] = None
      /\ \A h \in Goroutines \ {g} : child'[h] = child[h] /\ orig'[h] = orig[h]
  BY <1>1, Zenon DEF Leave, TimeoutTypeOK
<1> QED  BY <1>1, <1>2, <1>3, Zenon DEF Leave, Moves, ginVars, results

\* The handler is done, or panics.
LEMMA HandlerEffect ==
  ASSUME TimeoutTypeOK, Apart, NEW g \in Goroutines
  PROVE  /\ HandlerBody(g)
              => Moves(g, "load") /\ UNCHANGED <<index, cwriter, reg, child, orig, sent, metric>>
         /\ HandlerPanic(g)
              => Moves(g, Panic(g)) /\ UNCHANGED <<index, cwriter, writers, reg, child, orig, sent, metric>>
<1>1. ASSUME NEW label, Goto(g, label), UNCHANGED <<ginVars, gin, reg, child, orig, results>>,
             job' = [job EXCEPT ![g] = None]
      PROVE  Moves(g, label) /\ UNCHANGED <<index, cwriter, reg, child, orig, sent, metric>>
  <2>1. at'[g] = label /\ \A h \in Goroutines \ {g} : at'[h] = at[h]
    BY <1>1, GotoFacts, Zenon
  <2>2. \A h \in Goroutines \ {g} : job'[h] = job[h]  BY <1>1, Zenon DEF TimeoutTypeOK
  <2> QED  BY <1>1, <2>1, <2>2, Zenon DEF Moves, ginVars, results
<1>2. HandlerBody(g) => /\ Goto(g, "load") /\ UNCHANGED <<ginVars, gin, reg, child, orig, results>>
                        /\ job' = [job EXCEPT ![g] = None]
  BY Zenon DEF HandlerBody
<1>3. HandlerPanic(g) => /\ Goto(g, Panic(g)) /\ UNCHANGED <<ginVars, gin, reg, child, orig, results>>
                         /\ writers' = writers /\ job' = [job EXCEPT ![g] = None]
  BY Zenon DEF HandlerPanic
<1> QED  BY <1>1, <1>2, <1>3, Zenon

\* The effect of receiving the panic of a goroutine.
LEMMA PanicEffect ==
  ASSUME TimeoutTypeOK, Apart, NEW g \in Goroutines, PanicReceived(g)
  PROVE  /\ gin' = gin /\ handlers' = handlers /\ owner' = owner
         /\ UNCHANGED <<index, writers, reg, job, child, orig, sent, metric>>
         /\ at[child[g]] = "panicked" /\ child[g] # g /\ child[g] \in Spawned
         /\ at'[g] = Panic(g) /\ at'[child[g]] = "gone"
         /\ \A h \in Goroutines \ {g, child[g]} : at'[h] = at[h]
         /\ cwriter'[gin[g]] = orig[g]
<1>1. at[g] = "select" /\ at[child[g]] = "panicked"  BY Zenon DEF PanicReceived
<1>2. child[g] \in Spawned /\ gin[g] \in Contexts
  <2>1. at[g] # "idle" /\ at[g] \in Waiting  BY <1>1, Zenon DEF Waiting
  <2> QED  BY <2>1, AtWork, Zenon
<1>3. child[g] # g /\ child[g] \in Goroutines  BY <1>1, <1>2, Zenon DEF Goroutines
<1>4. at' = [at EXCEPT ![g] = Panic(g), ![child[g]] = "gone"]  BY Zenon DEF PanicReceived
<1>5. /\ at'[g] = Panic(g) /\ at'[child[g]] = "gone"
      /\ \A h \in Goroutines \ {g, child[g]} : at'[h] = at[h]
  BY <1>3, <1>4, Zenon DEF TimeoutTypeOK
<1>6. cwriter'[gin[g]] = orig[g]  BY <1>2, Zenon DEF PanicReceived, TimeoutTypeOK
<1> QED  BY <1>1, <1>2, <1>3, <1>5, <1>6, Zenon DEF PanicReceived, locals, results

\* Every step but the start of a timeout is an ordinary one.
LEMMA PlainStep ==
  ASSUME Gateway, TimeoutTypeOK, Apart, NEW g \in Goroutines, Steps(g), at[g] # "start"
  PROVE  Plain /\ Shape(g)
<1>1. \/ LoadIndex(g) \/ StoreIndex(g)
      \/ Finished(g) \/ PanicReceived(g) \/ DeadlineExceeded(g)
      \/ FlushHead(g) \/ FlushBody(g) \/ TimeoutHead(g) \/ WriteTimeoutBody(g)
      \/ HandlerHead(g) \/ HandlerBody(g) \/ HandlerPanic(g)
      \/ g \in Requests /\ (Return(g) \/ Recover(g))
  <2>1. ~StartTimeout(g)  BY Zenon DEF StartTimeout
  <2> QED  BY <2>1, Zenon DEF Steps, Middleware, Handler
<1> QED  BY <1>1, OrdinaryStep, Zenon

\* A step writes to the buffer it closes, to the writer it saved or to the context's.
LEMMA OnlyWrites ==
  ASSUME TimeoutTypeOK, Apart, NEW g \in Goroutines, Steps(g), at[g] # "start",
         NEW w \in Writers, w \notin {child[g], orig[g], cwriter[gin[g]]}
  PROVE  writers'[w] = writers[w]
<1>1. at[g] # "idle"  BY ByLabel, Zenon
<1>2. cwriter[gin[g]] \in Writers /\ (at[g] \in Waiting => orig[g] \in Writers /\ child[g] \in Spawned)
  BY <1>1, AtWork, Zenon
<1>3. ASSUME NEW v \in Writers, NEW code \in Nat, v # w, WriteHeader(v, code) PROVE writers'[w] = writers[w]
  BY <1>3, HeaderFacts, ZenonT(120) DEF TimeoutTypeOK
<1>4. ASSUME NEW v \in Writers, v # w, NEW new, writers' = [writers EXCEPT ![v] = new]
      PROVE  writers'[w] = writers[w]
  BY <1>4, Zenon DEF TimeoutTypeOK
<1>5. ASSUME FlushHead(g) \/ TimeoutHead(g) \/ HandlerHead(g) \/ (g \in Requests /\ Recover(g))
      PROVE  writers'[w] = writers[w]
  <2>1. 504 \in Nat /\ 200 \in Nat /\ 500 \in Nat  OBVIOUS
  <2>2. ASSUME FlushHead(g) PROVE writers'[w] = writers[w]
    <3>1. at[g] \in Waiting /\ WriteHeader(orig[g], writers[child[g]].status)
      BY <2>2, Zenon DEF FlushHead, Waiting
    <3>2. writers[child[g]] \in Content  BY <1>2, <3>1, Zenon DEF TimeoutTypeOK, Writers
    <3>3. writers[child[g]].status \in Nat  BY <3>2, Zenon DEF Content
    <3> QED  BY <1>2, <1>3, <3>1, <3>3, Zenon
  <2>3. ASSUME TimeoutHead(g) PROVE writers'[w] = writers[w]
    BY <1>2, <1>3, <2>1, <2>3, ZenonT(120) DEF TimeoutHead, Waiting
  <2>4. ASSUME HandlerHead(g) PROVE writers'[w] = writers[w]
    BY <1>2, <1>3, <2>1, <2>4, ZenonT(120) DEF HandlerHead
  <2>5. ASSUME g \in Requests, Recover(g) PROVE writers'[w] = writers[w]
    BY <1>2, <1>3, <2>1, <2>5, ZenonT(120) DEF Recover
  <2> QED  BY <1>5, <2>2, <2>3, <2>4, <2>5, Zenon
<1>6. ASSUME LoadIndex(g) \/ StoreIndex(g) \/ Finished(g) \/ PanicReceived(g) \/ HandlerPanic(g)
             \/ (g \in Requests /\ Return(g))
      PROVE  writers'[w] = writers[w]
  BY <1>6, Zenon DEF LoadIndex, StoreIndex, Finished, PanicReceived, HandlerPanic, Return
<1>7. ASSUME DeadlineExceeded(g) PROVE writers'[w] = writers[w]
  <2>1. PICK new : writers' = [writers EXCEPT ![child[g]] = new]  BY <1>7, ZenonT(120) DEF DeadlineExceeded
  <2>2. child[g] \in Writers  BY <1>2, <1>7, Zenon DEF DeadlineExceeded, Waiting, Writers
  <2> QED  BY <1>4, <2>1, <2>2, Zenon
<1>8. ASSUME FlushBody(g) PROVE writers'[w] = writers[w]
  <2>1. PICK new : writers' = [writers EXCEPT ![orig[g]] = new]  BY <1>8, Zenon DEF FlushBody
  <2>2. orig[g] \in Writers  BY <1>2, <1>8, Zenon DEF FlushBody, Waiting
  <2> QED  BY <1>4, <2>1, <2>2, Zenon
<1>9. ASSUME WriteTimeoutBody(g) PROVE writers'[w] = writers[w]
  <2>1. PICK new : writers' = [writers EXCEPT ![orig[g]] = new]
    BY <1>9, Zenon DEF WriteTimeoutBody, Write
  <2>2. orig[g] \in Writers  BY <1>2, <1>9, Zenon DEF WriteTimeoutBody, Waiting
  <2> QED  BY <1>4, <2>1, <2>2, Zenon
<1>10. ASSUME HandlerBody(g) PROVE writers'[w] = writers[w]
  <2>1. PICK new : writers' = [writers EXCEPT ![cwriter[gin[g]]] = new]
    BY <1>10, Zenon DEF HandlerBody, Write
  <2> QED  BY <1>2, <1>4, <2>1, Zenon
<1>11. ~StartTimeout(g)  BY Zenon DEF StartTimeout
<1> QED  BY <1>5, <1>6, <1>7, <1>8, <1>9, <1>10, <1>11, Zenon DEF Steps, Middleware, Handler

\* Once nobody but g0 can write to the response, it stays so, and nobody else does.
LEMMA SealedStep ==
  ASSUME Gateway, TimeoutTypeOK, Apart, NEW g \in Goroutines, Steps(g),
         NEW x \in Contexts, gin[g] = x, NEW g0, g # g0, Sealed(x, g0)
  PROVE  writers'[x] = writers[x] /\ Sealed(x, g0)'
<1>1. cwriter[x] # x /\ orig[g] # x /\ \A h \in Goroutines \ {g0} : gin[h] = x => orig[h] # x
  BY Zenon DEF Sealed
<1>2. x \in Writers /\ x # None /\ x \notin Spawned  BY TimeoutAssumption, Zenon DEF Writers
<1>3. CASE at[g] # "start"
  <2>1. child[g] # x  BY <1>2, Zenon DEF TimeoutTypeOK
  <2>2. writers'[x] = writers[x]  BY <1>1, <1>2, <1>3, <2>1, OnlyWrites, Zenon
  <2>3. Plain /\ Shape(g)  BY <1>3, PlainStep, Zenon
  <2>4. \A h \in Goroutines \ {g0} : gin'[h] = x => orig'[h] # x
    BY <1>1, <1>2, <2>3, Zenon DEF Plain
  <2>5. cwriter'[x] # x
    <3>1. CASE at[g] # "select" \/ ~PanicReceived(g)
      <4>1. cwriter' = cwriter
        BY <1>3, <3>1, ZenonT(120) DEF Steps, Middleware, Handler, LoadIndex, StoreIndex, StartTimeout,
           Finished, PanicReceived, DeadlineExceeded, FlushHead, FlushBody, TimeoutHead,
           WriteTimeoutBody, HandlerHead, HandlerBody, HandlerPanic, Return, Recover, ginVars
      <4> QED  BY <1>1, <4>1, Zenon
    <3>2. CASE PanicReceived(g)  BY <1>1, <3>2, PanicEffect, Zenon
    <3> QED  BY <3>1, <3>2, Zenon
  <2> QED  BY <2>2, <2>4, <2>5, Zenon DEF Sealed
<1>4. CASE at[g] = "start"
  <2>1. StartTimeout(g)  BY <1>4, ByLabel, Zenon
  <2>5. PICK s \in Spawned : Started(g, s)  BY <2>1, StartFacts, Zenon
  <2>2. /\ orig'[g] = cwriter[gin[g]]
        /\ gin'[s] = gin[g] /\ cwriter'[gin[g]] = s /\ orig'[s] = None
        /\ \A h \in Goroutines \ {s} : gin'[h] = gin[h]
        /\ \A h \in Goroutines \ {g, s} : orig'[h] = orig[h]
        /\ \A w \in Writers \ {s} : writers'[w] = writers[w]
    BY <2>5, Zenon DEF Started
  <2>3. writers'[x] = writers[x] /\ cwriter'[x] # x  BY <1>2, <2>2, Zenon
  <2>4. ASSUME NEW h \in Goroutines \ {g0}, gin'[h] = x PROVE orig'[h] # x
    <3>1. CASE h = g  BY <1>1, <2>2, <3>1, Zenon
    <3>2. CASE h = s  BY <1>2, <2>2, <3>2, Zenon
    <3>3. CASE h \notin {g, s}  BY <1>1, <2>2, <2>4, <3>3, ZenonT(120)
    <3> QED  BY <3>1, <3>2, <3>3, Zenon
  <2> QED  BY <2>3, <2>4, Zenon DEF Sealed
<1> QED  BY <1>3, <1>4, Zenon
-----------------------------------------------------------------------------
(* Goroutines at work on the rest of a chain.                              *)

\* A step of s that concerns nobody else.
Keeps(s) ==
  /\ gin' = gin /\ handlers' = handlers /\ owner' = owner /\ cwriter' = cwriter
  /\ sent' = sent /\ metric' = metric /\ child' = child /\ orig' = orig
  /\ \A h \in Goroutines \ {s} : at'[h] = at[h] /\ reg'[h] = reg[h] /\ job'[h] = job[h]

\* What they do, by where they are.
Loads(s, x) ==
  at'[s] = "store" /\ reg'[s] = index[x] /\ index' = index /\ writers' = writers /\ job' = job
Stores(s, x) ==
  LET i == reg[s] + 1
  IN /\ index'[x] = i /\ writers' = writers
     /\ i > Len(handlers[x]) => at'[s] = "finished" /\ job' = job
     /\ i =< Len(handlers[x]) /\ handlers[x][i] = "handler" => at'[s] = "head" /\ job'[s] = owner[x]
     /\ i =< Len(handlers[x]) /\ handlers[x][i] # "handler" => at'[s] = "start" /\ job' = job
Panics(s) == at'[s] = "panicked" /\ writers' = writers
Heads(s, x) == at'[s] = "body" /\ job' = job /\ WriteHeader(cwriter[x], 200)
Bodies(s, x) == at'[s] = "load" /\ Write(cwriter[x], job[s])

\* The steps of a goroutine inside the chain.
LEMMA WorkStep ==
  ASSUME TimeoutTypeOK, Apart, NEW s \in Spawned, NEW x \in Contexts, gin[s] = x, Steps(s),
         at[s] \in {"load", "store", "head", "body"}
  PROVE  /\ Keeps(s)
         /\ at[s] = "load" => Loads(s, x)
         /\ at[s] = "store" => Stores(s, x)
         /\ at[s] = "head" => index' = index /\ (Heads(s, x) \/ Panics(s))
         /\ at[s] = "body" => index' = index /\ (Bodies(s, x) \/ Panics(s))
<1>1. s \in Goroutines /\ s \notin Requests  BY TimeoutAssumption, Zenon DEF Goroutines
<1>2. CASE at[s] = "load"
  <2>1. LoadIndex(s)  BY <1>1, <1>2, ByLabel, Zenon
  <2>2. /\ Moves(s, "store") /\ reg'[s] = index[x]
        /\ UNCHANGED <<index, cwriter, writers, job, child, orig, sent, metric>>
    BY <1>1, <2>1, LoadEffect, Zenon
  <2> QED  BY <1>2, <2>2, Zenon DEF Moves, Keeps, Loads
<1>3. CASE at[s] = "store"
  <2>1. StoreIndex(s)  BY <1>1, <1>3, ByLabel, Zenon
  <2>2. /\ index'[x] = reg[s] + 1
        /\ UNCHANGED <<cwriter, writers, child, orig, sent, metric>>
        /\ reg[s] + 1 > Len(handlers[x]) => Moves(s, "finished") /\ job' = job
        /\ reg[s] + 1 =< Len(handlers[x]) /\ handlers[x][reg[s] + 1] = "handler"
             => Moves(s, "head") /\ job'[s] = owner[x]
        /\ reg[s] + 1 =< Len(handlers[x]) /\ handlers[x][reg[s] + 1] # "handler"
             => Moves(s, "start") /\ job' = job
    BY <1>1, <2>1, StoreEffect, Zenon
  <2>3. (reg[s] + 1 > Len(handlers[x])) \/ reg[s] + 1 =< Len(handlers[x])
    <3>1. handlers[x] \in {<<>>, Single, Double} /\ reg[s] \in Nat
      BY <1>1, Zenon DEF TimeoutTypeOK
    <3> QED  BY <3>1 DEF Single, Double
  <2>4. PICK label : Moves(s, label)  BY <2>2, <2>3, Zenon
  <2>5. Keeps(s)  BY <2>2, <2>4, Zenon DEF Moves, Keeps
  <2>6. Stores(s, x)  BY <2>2, Zenon DEF Stores, Moves
  <2> QED  BY <1>3, <2>5, <2>6, Zenon
<1>4. ASSUME HandlerPanic(s) PROVE Keeps(s) /\ index' = index /\ Panics(s)
  <2>1. /\ Moves(s, Panic(s))
        /\ UNCHANGED <<index, cwriter, writers, reg, child, orig, sent, metric>>
    BY <1>1, <1>4, HandlerEffect, Zenon
  <2>2. Panic(s) = "panicked"  BY <1>1, Zenon DEF Panic
  <2> QED  BY <2>1, <2>2, Zenon DEF Moves, Keeps, Panics
<1>5. CASE at[s] = "head"
  <2>1. HandlerHead(s) \/ HandlerPanic(s)  BY <1>1, <1>5, ByLabel, Zenon
  <2>2. ASSUME HandlerHead(s) PROVE Keeps(s) /\ index' = index /\ Heads(s, x)
    <3>1. Moves(s, "body") /\ UNCHANGED <<index, cwriter, reg, job, child, orig, sent, metric>>
      BY <1>1, <2>2, PlainEffect, Zenon
    <3>2. WriteHeader(cwriter[x], 200)  BY <2>2, Zenon DEF HandlerHead
    <3> QED  BY <3>1, <3>2, Zenon DEF Moves, Keeps, Heads
  <2> QED  BY <1>4, <1>5, <2>1, <2>2, Zenon
<1>6. CASE at[s] = "body"
  <2>1. HandlerBody(s) \/ HandlerPanic(s)  BY <1>1, <1>6, ByLabel, Zenon
  <2>2. ASSUME HandlerBody(s) PROVE Keeps(s) /\ index' = index /\ Bodies(s, x)
    <3>1. Moves(s, "load") /\ UNCHANGED <<index, cwriter, reg, child, orig, sent, metric>>
      BY <1>1, <2>2, HandlerEffect, Zenon
    <3>2. Write(cwriter[x], job[s])  BY <2>2, Zenon DEF HandlerBody
    <3> QED  BY <3>1, <3>2, Zenon DEF Moves, Keeps, Bodies
  <2> QED  BY <1>4, <1>6, <2>1, <2>2, Zenon
<1> QED  BY <1>2, <1>3, <1>5, <1>6, Zenon

\* They write to the context's writer, and not even there when it is closed.
LEMMA WorkWrites ==
  ASSUME TimeoutTypeOK, Apart, NEW s \in Spawned, NEW x \in Contexts, gin[s] = x, Steps(s),
         at[s] \in {"load", "store", "head", "body"}
  PROVE  /\ \A w \in Writers : w # cwriter[x] => writers'[w] = writers[w]
         /\ writers[cwriter[x]].closed => writers'[cwriter[x]] = writers[cwriter[x]]
<1>1. \/ writers' = writers \/ WriteHeader(cwriter[x], 200) \/ Write(cwriter[x], job[s])
  BY WorkStep, ZenonT(120) DEF Loads, Stores, Heads, Bodies, Panics
<1>2. /\ cwriter[x] \in Writers /\ writers \in [Writers -> Content]
      /\ job[s] \in Requests \cup {TimeoutBody, None}
  BY Zenon DEF TimeoutTypeOK, Goroutines
<1>3. 200 \in Nat  OBVIOUS
<1>4. CASE writers' = writers  BY <1>4, Zenon
<1>5. CASE WriteHeader(cwriter[x], 200)  BY <1>2, <1>3, <1>5, HeaderFacts, ZenonT(120)
<1>6. CASE Write(cwriter[x], job[s])  BY <1>2, <1>6, WriteFacts, Zenon
<1> QED  BY <1>1, <1>4, <1>5, <1>6, Zenon

\* What a write does to an untouched writer.
LEMMA FreshWrites ==
  ASSUME TimeoutTypeOK, NEW w \in Writers, writers[w] = Fresh, NEW r \in Requests
  PROVE  /\ WriteHeader(w, 200) => writers'[w] = Fresh
         /\ Write(w, r) => writers'[w] = Output(r)
         /\ \A code \in Nat : WriteHeader(w, code) => writers'[w] = Header(code)
<1>1. ~writers[w].closed /\ writers[w].body = <<>> /\ writers[w].status = 200  BY DEF Fresh
<1>2. writers \in [Writers -> Content] /\ r \in Requests \cup {TimeoutBody, None}
  BY Zenon DEF TimeoutTypeOK
<1>3. \A code \in Nat : WriteHeader(w, code) => writers'[w] = Header(code)
  <2> SUFFICES ASSUME NEW code \in Nat, WriteHeader(w, code) PROVE writers'[w] = Header(code)
    BY Zenon
  <2>1. ~writers[w].closed /\ writers[w].body = <<>>
          => writers'[w] = [status |-> code, body |-> <<>>, closed |-> FALSE]
    BY <1>2, HeaderFacts, Zenon
  <2> QED  BY <1>1, <2>1, Zenon DEF Header
<1>4. 200 \in Nat /\ Header(200) = Fresh  BY DEF Header, Fresh
<1>5. Write(w, r) => writers'[w] = Output(r)
  <2> SUFFICES ASSUME Write(w, r) PROVE writers'[w] = Output(r)
    BY Zenon
  <2>1. ~writers[w].closed /\ writers[w].body = <<>>
          => writers'[w] = [status |-> writers[w].status, body |-> <<r>>, closed |-> FALSE]
    BY <1>2, WriteFacts, Zenon
  <2> QED  BY <1>1, <2>1, Zenon DEF Output
<1> QED  BY <1>3, <1>4, <1>5, Zenon

\* A runner stays one, and writes to its own buffer alone.
LEMMA RunnerStep ==
  ASSUME TimeoutTypeOK, Apart, NEW s \in Spawned, NEW x \in Contexts, NEW r \in Requests,
         gin[s] = x, owner[x] = r, handlers[x] \in {Single, Double}, Runner(s, x, r), Steps(s)
  PROVE  /\ Keeps(s) /\ Runner(s, x, r)'
         /\ \A w \in Writers : w # s => writers'[w] = writers[w]
<1> DEFINE n == Len(handlers[x])
<1>1. s \in Goroutines /\ s \in Writers  BY Zenon DEF Goroutines, Writers
<1>2. n \in {2, 3} /\ n + 1 > n /\ n - 1 + 1 = n /\ n =< n /\ handlers[x][n] = "handler"
  <2>1. n \in {2, 3} /\ handlers[x][n] = "handler"  BY RouteFacts, Zenon
  <2> HIDE DEF n
  <2> QED  BY <2>1
<1>3. cwriter[x] = s /\ orig[s] = None /\ child[s] = None  BY Zenon DEF Runner
<1>4. at[s] \in {"load", "store", "head", "body"}
  <2>1. at[s] \notin {"idle", "finished", "panicked", "gone", "answered"}  BY <1>1, ByLabel, Zenon
  <2> QED  BY <2>1, Zenon DEF Runner
<1>5. /\ Keeps(s)
      /\ at[s] = "load" => Loads(s, x)
      /\ at[s] = "store" => Stores(s, x)
      /\ at[s] = "head" => index' = index /\ (Heads(s, x) \/ Panics(s))
      /\ at[s] = "body" => index' = index /\ (Bodies(s, x) \/ Panics(s))
  BY <1>4, WorkStep, Zenon
<1>6. \A w \in Writers : w # s => writers'[w] = writers[w]  BY <1>3, <1>4, WorkWrites, Zenon
<1>7. /\ handlers' = handlers /\ cwriter'[x] = s /\ orig'[s] = None /\ child'[s] = None
  BY <1>3, <1>5, Zenon DEF Keeps
<1>8. ASSUME \/ at'[s] = "load" /\ index'[x] = n - 1 /\ writers'[s] = Fresh
             \/ at'[s] = "store" /\ index'[x] = n - 1 /\ reg'[s] = n - 1 /\ writers'[s] = Fresh
             \/ at'[s] \in {"head", "body"} /\ index'[x] = n /\ job'[s] = r /\ writers'[s] = Fresh
             \/ at'[s] = "load" /\ index'[x] = n /\ writers'[s] = Output(r)
             \/ at'[s] = "store" /\ index'[x] = n /\ reg'[s] = n /\ writers'[s] = Output(r)
             \/ at'[s] = "finished" /\ index'[x] = n + 1 /\ writers'[s] = Output(r)
             \/ at'[s] = "panicked" /\ index'[x] = n
      PROVE  Runner(s, x, r)'
  BY <1>7, <1>8, Zenon DEF Runner
<1>9. \/ at[s] = "load" /\ index[x] = n - 1 /\ writers[s] = Fresh
      \/ at[s] = "store" /\ index[x] = n - 1 /\ reg[s] = n - 1 /\ writers[s] = Fresh
      \/ at[s] \in {"head", "body"} /\ index[x] = n /\ job[s] = r /\ writers[s] = Fresh
      \/ at[s] = "load" /\ index[x] = n /\ writers[s] = Output(r)
      \/ at[s] = "store" /\ index[x] = n /\ reg[s] = n /\ writers[s] = Output(r)
  BY <1>4, Zenon DEF Runner
<1> HIDE DEF n
<1>10. CASE at[s] = "load"
  <2>1. at'[s] = "store" /\ reg'[s] = index[x] /\ index' = index /\ writers' = writers
    BY <1>5, <1>10, Zenon DEF Loads
  <2>2. Runner(s, x, r)'  BY <1>8, <1>9, <1>10, <2>1, Zenon
  <2> QED  BY <1>5, <1>6, <2>2, Zenon
<1>11. CASE at[s] = "store" /\ reg[s] = n - 1 /\ writers[s] = Fresh
  <2>1. reg[s] + 1 = n  BY <1>2, <1>11, Zenon
  <2>2. at'[s] = "head" /\ job'[s] = r /\ index'[x] = n /\ writers' = writers
    BY <1>2, <1>5, <1>11, <2>1, Zenon DEF Stores, n
  <2>3. Runner(s, x, r)'  BY <1>8, <1>11, <2>2, Zenon
  <2> QED  BY <1>5, <1>6, <2>3, Zenon
<1>12. CASE at[s] = "store" /\ reg[s] = n /\ writers[s] = Output(r)
  <2>1. at'[s] = "finished" /\ index'[x] = n + 1 /\ writers' = writers
    BY <1>2, <1>5, <1>12, Zenon DEF Stores, n
  <2>3. Runner(s, x, r)'  BY <1>8, <1>12, <2>1, Zenon
  <2> QED  BY <1>5, <1>6, <2>3, Zenon
<1>13. CASE at[s] = "head"
  <2>1. index[x] = n /\ job[s] = r /\ writers[s] = Fresh /\ index' = index
    BY <1>5, <1>9, <1>13, Zenon
  <2>2. CASE Heads(s, x)
    <3>1. writers'[s] = Fresh  BY <1>1, <1>3, <2>1, <2>2, FreshWrites, Zenon DEF Heads
    <3>2. Runner(s, x, r)'  BY <1>8, <2>1, <2>2, <3>1, Zenon DEF Heads
    <3> QED  BY <1>5, <1>6, <3>2, Zenon
  <2>3. CASE Panics(s)
    <3>2. Runner(s, x, r)'  BY <1>8, <2>1, <2>3, Zenon DEF Panics
    <3> QED  BY <1>5, <1>6, <3>2, Zenon
  <2> QED  BY <1>5, <1>13, <2>2, <2>3, Zenon
<1>14. CASE at[s] = "body"
  <2>1. index[x] = n /\ job[s] = r /\ writers[s] = Fresh /\ index' = index
    BY <1>5, <1>9, <1>14, ZenonT(120)
  <2>2. CASE Bodies(s, x)
    <3>1. writers'[s] = Output(r)  BY <1>1, <1>3, <2>1, <2>2, FreshWrites, Zenon DEF Bodies
    <3>2. Runner(s, x, r)'  BY <1>8, <2>1, <2>2, <3>1, ZenonT(120) DEF Bodies
    <3> QED  BY <1>5, <1>6, <3>2, Zenon
  <2>3. CASE Panics(s)
    <3>2. Runner(s, x, r)'  BY <1>8, <2>1, <2>3, Zenon DEF Panics
    <3> QED  BY <1>5, <1>6, <3>2, Zenon
  <2> QED  BY <1>5, <1>14, <2>2, <2>3, Zenon
<1> QED  BY <1>4, <1>9, <1>10, <1>11, <1>12, <1>13, <1>14, Zenon

\* A runner that is given up is a straggler.
LEMMA RunnerStraggles ==
  ASSUME NEW s \in Spawned, NEW x \in Contexts, NEW r \in Requests, handlers[x] = Double, Runner(s, x, r)
  PROVE  Straggler(s, x, r, 2)
<1>1. Len(handlers[x]) = 3  BY RouteFacts, Zenon
<1>2. /\ orig[s] = None /\ child[s] = None
      /\ \/ at[s] = "load" /\ index[x] = 3 - 1
         \/ at[s] = "store" /\ index[x] = 3 - 1 /\ reg[s] = 3 - 1
         \/ at[s] \in {"head", "body"} /\ index[x] = 3 /\ job[s] = r
         \/ at[s] = "load" /\ index[x] = 3
         \/ at[s] = "store" /\ index[x] = 3 /\ reg[s] = 3
         \/ at[s] = "finished" /\ index[x] = 3 + 1
         \/ at[s] = "panicked" /\ index[x] = 3
  BY <1>1, Zenon DEF Runner
<1>3. at[s] \in Working /\ (at[s] \in {"head", "body"} => job[s] = r)  BY <1>2, Zenon DEF Working
<1>4. index[x] >= 2 /\ (at[s] = "store" => reg[s] >= 2)  BY <1>2
<1> QED  BY <1>2, <1>3, <1>4, Zenon DEF Straggler

\* s goes on past the timeouts: it has the handler's output to write, to c.Writer, or none.
LEMMA StragglerStep ==
  ASSUME TimeoutTypeOK, Apart, NEW s \in Spawned, NEW x \in Contexts, NEW r \in Requests,
         gin[s] = x, owner[x] = r, handlers[x] \in {Single, Double}, Straggler(s, x, r, 2), Steps(s)
  PROVE  /\ Keeps(s) /\ Straggler(s, x, r, 2)'
         /\ at[s] \in {"load", "store", "head", "body"}
         /\ \/ at[s] # "store" /\ index'[x] = index[x]
            \/ at[s] = "store" /\ index'[x] = reg[s] + 1 /\ writers' = writers
<1>1. s \in Goroutines /\ reg[s] \in Nat /\ index[x] \in Nat  BY Zenon DEF Goroutines, TimeoutTypeOK
<1>2. /\ orig[s] = None /\ child[s] = None /\ index[x] >= 2 /\ at[s] \in Working
      /\ at[s] = "store" => reg[s] >= 2
      /\ at[s] \in {"head", "body"} => job[s] = r
  BY Zenon DEF Straggler
<1>3. at[s] \in {"load", "store", "head", "body"}
  <2>1. at[s] \notin {"idle", "finished", "panicked", "gone", "answered"}  BY <1>1, ByLabel, Zenon
  <2> QED  BY <1>2, <2>1, Zenon DEF Working
<1>4. /\ Keeps(s)
      /\ at[s] = "load" => Loads(s, x)
      /\ at[s] = "store" => Stores(s, x)
      /\ at[s] = "head" => index' = index /\ (Heads(s, x) \/ Panics(s))
      /\ at[s] = "body" => index' = index /\ (Bodies(s, x) \/ Panics(s))
  BY <1>3, WorkStep, Zenon
<1>5. orig'[s] = None /\ child'[s] = None  BY <1>2, <1>4, Zenon DEF Keeps
<1>6. CASE at[s] = "load"
  <2>1. at'[s] = "store" /\ reg'[s] = index[x] /\ index' = index  BY <1>4, <1>6, Zenon DEF Loads
  <2>2. Straggler(s, x, r, 2)'  BY <1>2, <1>5, <2>1, Zenon DEF Straggler, Working
  <2> QED  BY <1>4, <1>6, <2>1, <2>2, Zenon
<1>7. CASE at[s] = "store"
  <2>1. Stores(s, x)  BY <1>4, <1>7, Zenon
  <2>2. index'[x] = reg[s] + 1 /\ writers' = writers  BY <2>1, Zenon DEF Stores
  <2>3. index'[x] >= 2  BY <1>1, <1>2, <1>7, <2>2
  <2>4. \/ reg[s] + 1 > Len(handlers[x])
        \/ reg[s] + 1 =< Len(handlers[x]) /\ handlers[x][reg[s] + 1] = "handler"
    BY <1>1, <1>2, <1>7, RouteFacts
  <2>5. \/ at'[s] = "finished"
        \/ at'[s] = "head" /\ job'[s] = r
    BY <2>1, <2>4, Zenon DEF Stores
  <2>6. Straggler(s, x, r, 2)'  BY <1>5, <2>3, <2>5, Zenon DEF Straggler, Working
  <2> QED  BY <1>4, <1>7, <2>2, <2>6, Zenon
<1>8. CASE at[s] \in {"head", "body"}
  <2>1. index' = index /\ (Heads(s, x) \/ Bodies(s, x) \/ Panics(s))  BY <1>4, <1>8, Zenon
  <2>2. /\ at'[s] \in {"body", "load", "panicked"}
        /\ at'[s] = "body" => job'[s] = r
    BY <1>2, <1>8, <2>1, Zenon DEF Heads, Bodies, Panics
  <2>3. Straggler(s, x, r, 2)'  BY <1>2, <1>5, <2>1, <2>2, Zenon DEF Straggler, Working
  <2> QED  BY <1>4, <1>8, <2>1, <2>3, Zenon
<1> QED  BY <1>3, <1>6, <1>7, <1>8, Zenon

-----------------------------------------------------------------------------
(* Goroutines that wait.                                                   *)

\* A goroutine that waits has a writer to go back to and a child with a buffer.
LEMMA WaitingWriters ==
  ASSUME TimeoutTypeOK, Apart, NEW g \in Goroutines, at[g] \in Waiting
  PROVE  /\ orig[g] \in Writers /\ child[g] \in Spawned /\ child[g] \in Writers
         /\ writers[child[g]] \in Content
         /\ writers[child[g]].status \in Nat
         /\ writers[child[g]].body \in Seq(Requests \cup {TimeoutBody, None})
<1>1. at[g] # "idle"  BY Zenon DEF Waiting
<1>2. orig[g] \in Writers /\ child[g] \in Spawned /\ child[g] \in Writers
  BY <1>1, AtWork, Zenon DEF Writers
<1>3. writers[child[g]] \in Content  BY <1>2, Zenon DEF TimeoutTypeOK
<1>4. /\ writers[child[g]].status \in Nat
      /\ writers[child[g]].body \in Seq(Requests \cup {TimeoutBody, None})
  BY <1>3, Zenon DEF Content
<1> QED  BY <1>2, <1>3, <1>4, Zenon

\* The effect of copying the buffer of a child to the original writer.
LEMMA FlushEffect ==
  ASSUME TimeoutTypeOK, Apart, NEW g \in Goroutines
  PROVE  /\ FlushHead(g)
              => /\ \A w \in Writers : w # orig[g] => writers'[w] = writers[w]
                 /\ writers[orig[g]] = Fresh => writers'[orig[g]] = Header(writers[child[g]].status)
         /\ FlushBody(g)
              => /\ \A w \in Writers : w # orig[g] => writers'[w] = writers[w]
                 /\ \A code \in Nat : writers[orig[g]] = Header(code)
                      => writers'[orig[g]] = [status |-> code, body |-> writers[child[g]].body, closed |-> FALSE]
<1>0. writers \in [Writers -> Content]  BY Zenon DEF TimeoutTypeOK
<1>1. ASSUME FlushHead(g)
      PROVE  /\ \A w \in Writers : w # orig[g] => writers'[w] = writers[w]
             /\ writers[orig[g]] = Fresh => writers'[orig[g]] = Header(writers[child[g]].status)
  <2>1. at[g] \in Waiting /\ WriteHeader(orig[g], writers[child[g]].status)
    BY <1>1, Zenon DEF FlushHead, Waiting
  <2>2. orig[g] \in Writers /\ writers[child[g]].status \in Nat  BY <2>1, WaitingWriters, Zenon
  <2>3. /\ \A w \in Writers : w # orig[g] => writers'[w] = writers[w]
        /\ ~writers[orig[g]].closed /\ writers[orig[g]].body = <<>>
              => writers'[orig[g]] = [status |-> writers[child[g]].status, body |-> <<>>, closed |-> FALSE]
    BY <1>0, <2>1, <2>2, HeaderFacts, Zenon
  <2>4. writers[orig[g]] = Fresh => ~writers[orig[g]].closed /\ writers[orig[g]].body = <<>>  BY DEF Fresh
  <2> QED  BY <2>3, <2>4, Zenon DEF Header
<1>2. ASSUME FlushBody(g)
      PROVE  /\ \A w \in Writers : w # orig[g] => writers'[w] = writers[w]
             /\ \A code \in Nat : writers[orig[g]] = Header(code)
                  => writers'[orig[g]] = [status |-> code, body |-> writers[child[g]].body, closed |-> FALSE]
  <2>1. /\ at[g] \in Waiting
        /\ writers' = [writers EXCEPT ![orig[g]].body =
                         IF writers[orig[g]].closed THEN @ ELSE @ \o writers[child[g]].body]
    BY <1>2, Zenon DEF FlushBody, Waiting
  <2>2. /\ orig[g] \in Writers
        /\ writers[child[g]].body \in Seq(Requests \cup {TimeoutBody, None})
    BY <2>1, WaitingWriters, Zenon
  <2>3. /\ \A w \in Writers : w # orig[g] => writers'[w] = writers[w]
        /\ ~writers[orig[g]].closed /\ writers[orig[g]].body = <<>>
              => writers'[orig[g]] = [status |-> writers[orig[g]].status, body |-> writers[child[g]].body, closed |-> FALSE]
    BY <1>0, <2>1, <2>2, BodyFacts, Zenon
  <2>4. ASSUME NEW code \in Nat, writers[orig[g]] = Header(code)
        PROVE  ~writers[orig[g]].closed /\ writers[orig[g]].body = <<>> /\ writers[orig[g]].status = code
    BY <2>4 DEF Header
  <2> QED  BY <2>3, <2>4, Zenon
<1> QED  BY <1>1, <1>2, Zenon

\* The effect of writing the timeout response to the original writer.
LEMMA TimeoutEffect ==
  ASSUME TimeoutTypeOK, Apart, NEW g \in Goroutines
  PROVE  /\ TimeoutHead(g)
              => /\ \A w \in Writers : w # orig[g] => writers'[w] = writers[w]
                 /\ writers[orig[g]] = Fresh => writers'[orig[g]] = Expired
         /\ WriteTimeoutBody(g)
              => /\ \A w \in Writers : w # orig[g] => writers'[w] = writers[w]
                 /\ writers[orig[g]] = Expired => writers'[orig[g]] = TimedOut
<1>0. writers \in [Writers -> Content] /\ 504 \in Nat /\ TimeoutBody \in Requests \cup {TimeoutBody, None}
  BY DEF TimeoutTypeOK
<1>1. ASSUME TimeoutHead(g)
      PROVE  /\ \A w \in Writers : w # orig[g] => writers'[w] = writers[w]
             /\ writers[orig[g]] = Fresh => writers'[orig[g]] = Expired
  <2>1. at[g] \in Waiting /\ WriteHeader(orig[g], 504)
    BY <1>1, Zenon DEF TimeoutHead, Waiting
  <2>2. orig[g] \in Writers  BY <2>1, WaitingWriters, Zenon
  <2>3. /\ \A w \in Writers : w # orig[g] => writers'[w] = writers[w]
        /\ ~writers[orig[g]].closed /\ writers[orig[g]].body = <<>>
              => writers'[orig[g]] = [status |-> 504, body |-> <<>>, closed |-> FALSE]
    <3>1. PICK code \in Nat : code = 504  BY <1>0, ZenonT(120)
    <3>2. WriteHeader(orig[g], code)  BY <2>1, <3>1, Zenon
    <3>3. /\ \A w \in Writers : w # orig[g] => writers'[w] = writers[w]
          /\ ~writers[orig[g]].closed /\ writers[orig[g]].body = <<>>
                => writers'[orig[g]] = [status |-> code, body |-> <<>>, closed |-> FALSE]
      BY <1>0, <2>2, <3>2, HeaderFacts, ZenonT(120)
    <3> QED  BY <3>1, <3>3, ZenonT(120)
  <2>4. writers[orig[g]] = Fresh => ~writers[orig[g]].closed /\ writers[orig[g]].body = <<>>  BY DEF Fresh
  <2> QED  BY <2>3, <2>4, Zenon DEF Expired
<1>2. ASSUME WriteTimeoutBody(g)
      PROVE  /\ \A w \in Writers : w # orig[g] => writers'[w] = writers[w]
             /\ writers[orig[g]] = Expired => writers'[orig[g]] = TimedOut
  <2>1. at[g] \in Waiting /\ Write(orig[g], TimeoutBody)
    BY <1>2, Zenon DEF WriteTimeoutBody, Waiting
  <2>2. orig[g] \in Writers  BY <2>1, WaitingWriters, Zenon
  <2>3. /\ \A w \in Writers : w # orig[g] => writers'[w] = writers[w]
        /\ ~writers[orig[g]].closed /\ writers[orig[g]].body = <<>>
              => writers'[orig[g]] = [status |-> writers[orig[g]].status, body |-> <<TimeoutBody>>, closed |-> FALSE]
    BY <1>0, <2>1, <2>2, WriteFacts, Zenon
  <2>4. ASSUME writers[orig[g]] = Expired
        PROVE  ~writers[orig[g]].closed /\ writers[orig[g]].body = <<>> /\ writers[orig[g]].status = 504
    BY <2>4 DEF Expired
  <2>5. writers[orig[g]] = Expired => writers'[orig[g]] = TimedOut  BY <2>3, <2>4, ZenonT(120) DEF TimedOut
  <2> QED  BY <2>3, <2>5, Zenon
<1> QED  BY <1>1, <1>2, Zenon

\* The status of a response that came too late.
GatewayTimeout == 504

\* At the deadline the buffer of the child is closed, and nothing else is written.
LEMMA DeadlineEffect ==
  ASSUME TimeoutTypeOK, Apart, NEW g \in Goroutines, DeadlineExceeded(g)
  PROVE  /\ writers'[child[g]].closed /\ writers'[child[g]].status = GatewayTimeout
         /\ \A w \in Writers : w # child[g] => writers'[w] = writers[w]
<1>1. at[g] \in Waiting /\ Closing(child[g])  BY Zenon DEF DeadlineExceeded, Waiting, Closing
<1>2. child[g] \in Writers  BY <1>1, WaitingWriters, Zenon
<1>3. writers \in [Writers -> Content]  BY Zenon DEF TimeoutTypeOK
<1> QED  BY <1>1, <1>2, <1>3, CloseFacts DEF GatewayTimeout
-----------------------------------------------------------------------------
(* The goroutines inside the outermost timeout.                            *)

\* All that work in a context are its request and the goroutines started in it.
LEMMA Workers ==
  ASSUME TimeoutTypeOK, Apart, NEW x \in Contexts, NEW r \in Requests, owner[x] = r,
         NEW g \in Goroutines, gin[g] = x
  PROVE  g = r \/ g \in On(x)
<1>1. x # None  BY TimeoutAssumption, Zenon
<1>2. at[g] # "idle"  BY <1>1, Zenon DEF Apart
<1>3. g \in Requests => owner[gin[g]] = g  BY <1>2, Zenon DEF Apart
<1> QED  BY <1>3, Zenon DEF On, Goroutines

\* While the inner part of a chain runs, only the request can write to its response.
LEMMA InnerSealed ==
  ASSUME TimeoutTypeOK, Apart, NEW x \in Contexts, NEW r \in Requests, owner[x] = r,
         NEW s \in Spawned, Inner(s, x, r)
  PROVE  Sealed(x, r) /\ cwriter[x] \in Spawned
<1>1. /\ cwriter[x] \in Spawned
      /\ \A h \in On(x) : orig[h] = None \/ orig[h] \in Spawned
  <2>1. CASE On(x) = {s} /\ Runner(s, x, r)  BY <2>1, Zenon DEF Runner
  <2>2. CASE Alone(s, x)  BY <2>2, Zenon DEF Alone
  <2>3. ASSUME NEW t \in Spawned, On(x) = {s, t},
               Waits(s, t, x, r) \/ GivesUp(s, t, x, r) \/ After(s, t, x, r) \/ Passed(s, t, x)
        PROVE  <1>1!1 /\ <1>1!2
    <3>1. CASE Waits(s, t, x, r)  BY <2>3, <3>1, Zenon DEF Waits, Runner
    <3>2. CASE GivesUp(s, t, x, r)  BY <2>3, <3>2, Zenon DEF GivesUp, Straggler
    <3>3. CASE After(s, t, x, r)  BY <2>3, <3>3, Zenon DEF After, Straggler
    <3>4. CASE Passed(s, t, x)
      <4>1. cwriter[x] = s /\ orig[s] = s /\ orig[t] = None  BY <3>4, Zenon DEF Passed
      <4> QED  BY <2>3, <4>1, Zenon
    <3> QED  BY <2>3, <3>1, <3>2, <3>3, <3>4, Zenon
  <2> QED  BY <2>1, <2>2, <2>3, Zenon DEF Inner
<1>2. x \notin Spawned /\ x # None  BY TimeoutAssumption, Zenon
<1> QED  BY <1>1, <1>2, Workers, Zenon DEF Sealed


\* An inner part that has finished holds a whole response in its buffer.
LEMMA InnerFinished ==
  ASSUME NEW x \in Contexts, NEW r \in Requests, NEW s \in Spawned, Inner(s, x, r), at[s] = "finished"
  PROVE  /\ writers[s] \in {Output(r), TimedOut}
         /\ \/ On(x) = {s}
            \/ \E t \in Spawned \ {s} : On(x) = {s, t} /\ After(s, t, x, r)
<1>1. CASE On(x) = {s} /\ Runner(s, x, r)  BY <1>1, Zenon DEF Runner
<1>2. CASE Alone(s, x)  BY <1>2, Zenon DEF Alone
<1>3. ASSUME NEW t \in Spawned \ {s}, On(x) = {s, t},
             Waits(s, t, x, r) \/ GivesUp(s, t, x, r) \/ After(s, t, x, r) \/ Passed(s, t, x)
      PROVE  /\ writers[s] \in {Output(r), TimedOut}
             /\ \/ On(x) = {s}
                \/ \E u \in Spawned \ {s} : On(x) = {s, u} /\ After(s, u, x, r)
  <2>1. ~Waits(s, t, x, r) /\ ~GivesUp(s, t, x, r) /\ ~Passed(s, t, x)
    BY Zenon DEF Waits, GivesUp, Passed
  <2>2. After(s, t, x, r)  BY <1>3, <2>1, Zenon
  <2>3. writers[s] \in {Output(r), TimedOut}  BY <2>2, Zenon DEF After
  <2> QED  BY <1>3, <2>2, <2>3, Zenon
<1> QED  BY <1>1, <1>2, <1>3, Zenon DEF Inner

\* The goroutines of a context change only when one is started.
LEMMA KeepsOn ==
  ASSUME gin' = gin
  PROVE  \A x \in Contexts : On(x)' = On(x)
  BY Zenon DEF On

\* s starts its own timeout's goroutine.
LEMMA AloneStep ==
  ASSUME TimeoutTypeOK, Apart, NEW s \in Spawned, NEW x \in Contexts, NEW r \in Requests,
         owner[x] = r, handlers[x] = Double, Alone(s, x), Steps(s)
  PROVE  Inner(s, x, r)'
<1>1. /\ On(x) = {s} /\ cwriter[x] = s /\ orig[s] = None /\ child[s] = None
      /\ writers[s] = Fresh
      /\ \/ at[s] = "load" /\ index[x] = 1
         \/ at[s] = "store" /\ reg[s] = 1
         \/ at[s] = "start" /\ index[x] = 2
  BY Zenon DEF Alone
<1>2. gin[s] = x /\ s \in Goroutines /\ s \in Writers  BY <1>1, Zenon DEF On, Goroutines, Writers
<1>3. CASE at[s] = "load"
  <2>1. Keeps(s) /\ Loads(s, x)  BY <1>2, <1>3, WorkStep, Zenon
  <2>2. On(x)' = {s}  BY <1>1, <2>1, KeepsOn, Zenon DEF Keeps
  <2>3. Alone(s, x)'  BY <1>1, <1>3, <2>1, <2>2, Zenon DEF Alone, Keeps, Loads
  <2> QED  BY <2>1, <2>3, Zenon DEF Inner, Keeps
<1>4. CASE at[s] = "store"
  <2>1. Keeps(s) /\ Stores(s, x)  BY <1>2, <1>4, WorkStep, Zenon
  <2>2. On(x)' = {s}  BY <1>1, <2>1, KeepsOn, Zenon DEF Keeps
  <2>3. reg[s] + 1 = 2 /\ 2 =< Len(handlers[x]) /\ handlers[x][2] # "handler"
    <3>1. reg[s] = 1  BY <1>1, <1>4, Zenon
    <3> QED  BY <3>1, RouteFacts
  <2>4. at'[s] = "start" /\ index'[x] = 2 /\ writers' = writers  BY <2>1, <2>3, Zenon DEF Stores
  <2>5. Alone(s, x)'  BY <1>1, <2>1, <2>2, <2>4, Zenon DEF Alone, Keeps
  <2> QED  BY <2>1, <2>5, Zenon DEF Inner, Keeps
<1>5. CASE at[s] = "start"
  <2>1. StartTimeout(s)  BY <1>2, <1>5, ByLabel, Zenon
  <2>2. PICK t \in Spawned : Started(s, t)  BY <1>2, <2>1, StartFacts, Zenon
  <2>3. /\ at'[s] = "select" /\ at'[t] = "load" /\ orig'[s] = s /\ child'[s] = t
        /\ gin'[t] = x /\ cwriter'[x] = t /\ writers'[t] = Fresh
        /\ orig'[t] = None /\ child'[t] = None
        /\ \A h \in Goroutines \ {t} : gin'[h] = gin[h]
        /\ \A w \in Writers \ {t} : writers'[w] = writers[w]
    BY <1>1, <1>2, <2>2, Zenon DEF Started
  <2>4. s # t /\ index' = index /\ handlers' = handlers  BY <2>2, Zenon DEF Started, Starts
  <2>5. On(x)' = {s, t}
    <3>1. \A h \in Spawned : gin[h] = x <=> h = s  BY <1>1, Zenon DEF On
    <3>2. \A h \in Spawned : gin'[h] = x <=> h \in {s, t}
      BY <2>3, <3>1, Zenon DEF Goroutines
    <3> QED  BY <3>2, Zenon DEF On
  <2>6. writers'[s] = Fresh  BY <1>1, <1>2, <2>3, <2>4, Zenon
  <2>7. index'[x] = Len(handlers'[x]) - 1
    <3>1. index[x] = 2  BY <1>1, <1>5, Zenon
    <3> QED  BY <2>4, <3>1, RouteFacts
  <2>8. Runner(t, x, r)'  BY <2>3, <2>7, Zenon DEF Runner
  <2>9. Waits(s, t, x, r)'  BY <2>3, <2>6, <2>8, Zenon DEF Waits
  <2> QED  BY <2>4, <2>5, <2>9, Zenon DEF Inner
<1> QED  BY <1>1, <1>3, <1>4, <1>5, Zenon

\* The four ways in which an inner timeout with a child goes on.
LEMMA InnerAgain ==
  ASSUME NEW s \in Spawned, NEW t \in Spawned, s # t, NEW x \in Contexts, NEW r \in Requests,
         handlers[x] = Double, On(x) = {s, t}, gin' = gin, handlers' = handlers,
         \/ Waits(s, t, x, r)' \/ GivesUp(s, t, x, r)' \/ After(s, t, x, r)' \/ Passed(s, t, x)'
  PROVE  Inner(s, x, r)'
<1>1. On(x)' = {s, t}  BY KeepsOn, Zenon
<1>2. t \in Spawned \ {s}  BY Zenon
<1> QED  BY <1>1, <1>2, Zenon DEF Inner

\* s waits for t.
LEMMA WaitsStep ==
  ASSUME TimeoutTypeOK, Apart, NEW s \in Spawned, NEW t \in Spawned, s # t, NEW x \in Contexts,
         NEW r \in Requests, owner[x] = r, handlers[x] = Double, On(x) = {s, t},
         Waits(s, t, x, r), NEW g \in {s, t}, Steps(g)
  PROVE  Inner(s, x, r)'
<1>1. /\ Runner(t, x, r)
      /\ orig[s] = s /\ child[s] = t /\ writers[s] = Fresh
      /\ at[s] \in {"select", "flush", "flushBody"}
      /\ at[s] # "select" => at[t] = "finished"
  BY Zenon DEF Waits
<1>2. /\ gin[s] = x /\ gin[t] = x /\ s \in Goroutines /\ t \in Goroutines
      /\ s \in Writers /\ t \in Writers
  BY Zenon DEF On, Goroutines, Writers
<1>3. handlers[x] \in {Single, Double}  BY Zenon
<1>4. CASE g = t
  <2>1. /\ Keeps(t) /\ Runner(t, x, r)'
        /\ \A w \in Writers : w # t => writers'[w] = writers[w]
    BY <1>1, <1>2, <1>3, <1>4, RunnerStep, Zenon
  <2>2. at[t] # "finished"  BY <1>2, <1>4, ByLabel, Zenon
  <2>3. at[s] = "select"  BY <1>1, <2>2, Zenon
  <2>4. /\ at'[s] = "select" /\ orig'[s] = s /\ child'[s] = t /\ writers'[s] = Fresh
        /\ gin' = gin /\ handlers' = handlers
    BY <1>1, <1>2, <2>1, <2>3, Zenon DEF Keeps
  <2>5. Waits(s, t, x, r)'  BY <2>1, <2>4, Zenon DEF Waits
  <2> QED  BY <2>4, <2>5, InnerAgain, Zenon
<1>5. ASSUME NEW label \in {"flush", "flushBody"}, Moves(s, label), at[t] = "finished",
             UNCHANGED <<index, cwriter, reg, job, child, orig>>,
             writers'[t] = writers[t], writers'[s] = Fresh
      PROVE  Inner(s, x, r)'
  <2>1. /\ gin' = gin /\ handlers' = handlers /\ at'[s] = label /\ at'[t] = at[t]
    BY <1>2, <1>5, Zenon DEF Moves
  <2>2. Runner(t, x, r)'  BY <1>1, <1>5, <2>1, Zenon DEF Runner
  <2>3. Waits(s, t, x, r)'  BY <1>1, <1>5, <2>1, <2>2, Zenon DEF Waits
  <2> QED  BY <2>1, <2>3, InnerAgain, Zenon
<1>6. ASSUME at[t] = "finished" PROVE writers[t] = Output(r) /\ index[x] = 4
  <2>1. writers[t] = Output(r) /\ index[x] = Len(handlers[x]) + 1  BY <1>1, <1>6, Zenon DEF Runner
  <2> QED  BY <2>1, RouteFacts
<1>7. CASE g = s /\ at[s] = "select"
  <2>1. Finished(s) \/ PanicReceived(s) \/ DeadlineExceeded(s)  BY <1>2, <1>7, ByLabel, Zenon
  <2>2. CASE Finished(s)
    <3>1. at[t] = "finished"  BY <1>1, <2>2, Zenon DEF Finished
    <3>2. Moves(s, "flush") /\ UNCHANGED <<index, cwriter, writers, reg, job, child, orig>>
      BY <1>2, <2>2, PlainEffect, Zenon
    <3> QED  BY <1>1, <1>5, <3>1, <3>2, Zenon
  <2>3. CASE PanicReceived(s)
    <3>1. /\ gin' = gin /\ handlers' = handlers /\ child' = child /\ orig' = orig
          /\ at'[s] = Panic(s) /\ at'[t] = "gone" /\ cwriter'[x] = orig[s]
      BY <1>1, <1>2, <2>3, PanicEffect, ZenonT(120)
    <3>2. Panic(s) = "panicked"  BY TimeoutAssumption, Zenon DEF Panic
    <3>3. orig[t] = None  BY <1>1, Zenon DEF Runner
    <3>4. Passed(s, t, x)'  BY <1>1, <3>1, <3>2, <3>3, Zenon DEF Passed
    <3> QED  BY <3>1, <3>4, InnerAgain, Zenon
  <2>4. CASE DeadlineExceeded(s)
    <3>1. Moves(s, "timeout") /\ UNCHANGED <<index, cwriter, reg, job, child, orig>>
      BY <1>2, <2>4, PlainEffect, Zenon
    <3>2. writers'[t].closed /\ writers'[s] = Fresh
      <4>1. /\ writers'[child[s]].closed
            /\ \A w \in Writers : w # child[s] => writers'[w] = writers[w]
        BY <1>2, <2>4, DeadlineEffect, Zenon
      <4>2. writers'[s] = Fresh  BY <1>1, <1>2, <4>1, Zenon
      <4>3. writers'[t].closed  BY <1>1, <4>1, Zenon
      <4> QED  BY <4>2, <4>3, ZenonT(30)
    <3>3. gin' = gin /\ handlers' = handlers /\ at'[s] = "timeout" /\ at'[t] = at[t]
      BY <1>2, <3>1, Zenon DEF Moves
    <3>4. Straggler(t, x, r, 2)  BY <1>1, RunnerStraggles, Zenon
    <3>5. Straggler(t, x, r, 2)'  BY <3>1, <3>3, <3>4, Zenon DEF Straggler
    <3>6. cwriter[x] = t  BY <1>1, Zenon DEF Runner
    <3>7. GivesUp(s, t, x, r)'  BY <1>1, <3>1, <3>2, <3>3, <3>5, <3>6, ZenonT(120) DEF GivesUp
    <3> QED  BY <3>3, <3>7, InnerAgain, Zenon
  <2> QED  BY <2>1, <2>2, <2>3, <2>4, Zenon
<1>8. CASE g = s /\ at[s] = "flush"
  <2>1. FlushHead(s) /\ at[t] = "finished"  BY <1>1, <1>2, <1>8, ByLabel, Zenon
  <2>2. Moves(s, "flushBody") /\ UNCHANGED <<index, cwriter, reg, job, child, orig>>
    BY <1>2, <2>1, PlainEffect, Zenon
  <2>3. /\ writers'[t] = writers[t] /\ writers'[s] = Header(writers[t].status)
    BY <1>1, <1>2, <2>1, FlushEffect, Zenon
  <2>4. Header(writers[t].status) = Fresh  
    <3>1. writers[t] = Output(r)  BY <1>6, <2>1, Zenon
    <3>2. writers[t].status = 200  BY <3>1 DEF Output
    <3> QED  BY <3>2, Zenon DEF Header, Fresh
  <2> QED  BY <1>5, <2>1, <2>2, <2>3, <2>4, Zenon
<1>9. CASE g = s /\ at[s] = "flushBody"
  <2>1. FlushBody(s) /\ at[t] = "finished"  BY <1>1, <1>2, <1>9, ByLabel, Zenon
  <2>2. /\ Moves(s, "load") /\ child'[s] = None /\ orig'[s] = None
        /\ UNCHANGED <<index, cwriter, reg, job>>
    BY <1>2, <2>1, LeaveEffect, Zenon
  <2>3. writers'[s] = Output(r)
    <3>1. Header(200) = Fresh /\ 200 \in Nat  BY DEF Header, Fresh
    <3>2. writers'[s] = [status |-> 200, body |-> writers[t].body, closed |-> FALSE]
      <4>1. PICK code \in Nat : code = 200  BY <3>1, Zenon
      <4>2. writers[orig[s]] = Header(code)  BY <1>1, <3>1, <4>1, Zenon
      <4>3. writers'[orig[s]] = [status |-> code, body |-> writers[child[s]].body, closed |-> FALSE]
        BY <1>2, <2>1, <4>2, FlushEffect, ZenonT(120)
      <4> QED  BY <1>1, <4>1, <4>3, Zenon
    <3>4. writers[t] = Output(r)  BY <1>6, <2>1, Zenon
    <3>3. writers[t].body = <<r>>  BY <3>4 DEF Output
    <3> QED  BY <3>2, <3>3, Zenon DEF Output
  <2>4. /\ gin' = gin /\ handlers' = handlers /\ at'[s] = "load" /\ at'[t] = "finished"
        /\ orig'[t] = None /\ child'[t] = None
    BY <1>1, <1>2, <2>1, <2>2, Zenon DEF Moves, Runner
  <2>5. index'[x] = 4 /\ index'[x] >= 2 /\ index'[x] >= 4
    <3>1. index'[x] = 4  BY <1>6, <2>1, <2>2, Zenon
    <3> QED  BY <3>1
  <2>6. Straggler(s, x, r, 2)' /\ Straggler(t, x, r, 2)'
    BY <2>2, <2>4, <2>5, Zenon DEF Straggler, Working
  <2>7. cwriter'[x] = t  BY <1>1, <2>2, Zenon DEF Runner
  <2>8. After(s, t, x, r)'  BY <2>3, <2>4, <2>5, <2>6, <2>7, Zenon DEF After
  <2> QED  BY <2>4, <2>8, InnerAgain, Zenon
<1> QED  BY <1>1, <1>4, <1>7, <1>8, <1>9, Zenon


\* s gives t up.
LEMMA GivesUpStep ==
  ASSUME TimeoutTypeOK, Apart, NEW s \in Spawned, NEW t \in Spawned, s # t, NEW x \in Contexts,
         NEW r \in Requests, owner[x] = r, handlers[x] = Double, On(x) = {s, t},
         GivesUp(s, t, x, r), NEW g \in {s, t}, Steps(g)
  PROVE  Inner(s, x, r)'
<1>1. /\ Straggler(t, x, r, 2) /\ orig[s] = s /\ child[s] = t /\ cwriter[x] = t
      /\ \/ at[s] = "timeout" /\ writers[s] = Fresh
         \/ at[s] = "timeoutBody" /\ writers[s] = Expired
  BY Zenon DEF GivesUp
<1>2. writers[t].closed  BY Zenon DEF GivesUp
<1>3. /\ gin[s] = x /\ gin[t] = x /\ s \in Goroutines /\ t \in Goroutines
      /\ s \in Writers /\ t \in Writers /\ handlers[x] \in {Single, Double}
  BY Zenon DEF On, Goroutines, Writers
<1>4. CASE g = t
  <2>1. /\ Keeps(t) /\ Straggler(t, x, r, 2)'
        /\ at[t] \in {"load", "store", "head", "body"}
    BY <1>1, <1>3, <1>4, StragglerStep, Zenon
  <2>2. /\ \A w \in Writers : w # cwriter[x] => writers'[w] = writers[w]
        /\ writers[cwriter[x]].closed => writers'[cwriter[x]] = writers[cwriter[x]]
    BY <1>3, <1>4, <2>1, WorkWrites, Zenon
  <2>3. writers'[t] = writers[t] /\ writers'[s] = writers[s]
    <3>1. writers[cwriter[x]].closed  BY <1>1, <1>2, ZenonT(30)
    <3> QED  BY <1>1, <1>3, <2>2, <3>1, Zenon
  <2>4. writers'[t].closed  BY <1>2, <2>3, ZenonT(30)
  <2>5. /\ orig'[s] = s /\ child'[s] = t /\ cwriter'[x] = t /\ at'[s] = at[s]
        /\ gin' = gin /\ handlers' = handlers
    BY <1>1, <1>3, <2>1, Zenon DEF Keeps
  <2>6. \/ at'[s] = "timeout" /\ writers'[s] = Fresh
        \/ at'[s] = "timeoutBody" /\ writers'[s] = Expired
    BY <1>1, <2>3, <2>5, Zenon
  <2>7. GivesUp(s, t, x, r)'  BY <2>1, <2>4, <2>5, <2>6, ZenonT(30) DEF GivesUp
  <2> QED  BY <2>5, <2>7, InnerAgain, Zenon
<1>5. CASE g = s /\ at[s] = "timeout"
  <2>1. TimeoutHead(s)  BY <1>3, <1>5, ByLabel, Zenon
  <2>2. Moves(s, "timeoutBody") /\ UNCHANGED <<index, cwriter, reg, job, child, orig>>
    BY <1>3, <2>1, PlainEffect, Zenon
  <2>3. writers'[s] = Expired /\ writers'[t] = writers[t]
    BY <1>1, <1>3, <1>5, <2>1, TimeoutEffect, Zenon
  <2>4. gin' = gin /\ handlers' = handlers /\ at'[s] = "timeoutBody" /\ at'[t] = at[t]
    BY <1>3, <2>2, Zenon DEF Moves
  <2>5. Straggler(t, x, r, 2)'  BY <1>1, <2>2, <2>4, Zenon DEF Straggler
  <2>6. writers'[t].closed  BY <1>2, <2>3, ZenonT(30)
  <2>7. GivesUp(s, t, x, r)'  BY <1>1, <2>2, <2>3, <2>4, <2>5, <2>6, ZenonT(30) DEF GivesUp
  <2> QED  BY <2>4, <2>7, InnerAgain, Zenon
<1>6. CASE g = s /\ at[s] = "timeoutBody"
  <2>1. WriteTimeoutBody(s)  BY <1>3, <1>6, ByLabel, Zenon
  <2>2. /\ Moves(s, "load") /\ child'[s] = None /\ orig'[s] = None
        /\ UNCHANGED <<index, cwriter, reg, job>>
    BY <1>3, <2>1, LeaveEffect, Zenon
  <2>3. writers'[s] = TimedOut /\ writers'[t] = writers[t]
    BY <1>1, <1>3, <1>6, <2>1, TimeoutEffect, Zenon
  <2>4. /\ gin' = gin /\ handlers' = handlers /\ at'[s] = "load" /\ at'[t] = at[t]
        /\ orig'[t] = orig[t] /\ child'[t] = child[t]
    BY <1>3, <2>2, Zenon DEF Moves
  <2>5. Straggler(t, x, r, 2)'
    <3>1. index'[x] = index[x] /\ reg'[t] = reg[t] /\ job'[t] = job[t]  BY <2>2, Zenon
    <3> QED  BY <1>1, <2>4, <3>1, Zenon DEF Straggler
  <2>6. writers'[t].closed  BY <1>2, <2>3, Zenon
  <2>7. Straggler(s, x, r, 2)'
    BY <1>1, <2>2, <2>4, Zenon DEF Straggler, Working
  <2>8. /\ cwriter'[x] = t /\ writers'[s] \in {Output(r), TimedOut}
        /\ at'[s] \notin {"head", "body", "panicked"}
    BY <1>1, <2>2, <2>3, <2>4, Zenon
  <2>9. After(s, t, x, r)'  BY <2>5, <2>6, <2>7, <2>8, ZenonT(30) DEF After
  <2> QED  BY <2>4, <2>9, InnerAgain, Zenon
<1> QED  BY <1>1, <1>4, <1>5, <1>6, Zenon

\* s is past its timeout.
LEMMA AfterStep ==
  ASSUME TimeoutTypeOK, Apart, NEW s \in Spawned, NEW t \in Spawned, s # t, NEW x \in Contexts,
         NEW r \in Requests, owner[x] = r, handlers[x] = Double, On(x) = {s, t},
         After(s, t, x, r), NEW g \in {s, t}, Steps(g)
  PROVE  Inner(s, x, r)' /\ writers'[s] = writers[s]
<1>1. /\ Straggler(s, x, r, 2) /\ Straggler(t, x, r, 2)
      /\ cwriter[x] = t /\ writers[s] \in {Output(r), TimedOut}
      /\ at[s] \in {"head", "body", "panicked"} => index[x] >= 3
  BY Zenon DEF After
<1>2. \/ writers[t].closed
      \/ /\ at[t] = "finished" /\ index[x] >= 4
         /\ at[s] \in {"load", "store", "finished"} /\ (at[s] = "store" => reg[s] >= 4)
  BY Zenon DEF After
<1>3. /\ gin[s] = x /\ gin[t] = x /\ s \in Goroutines /\ t \in Goroutines
      /\ s \in Writers /\ t \in Writers /\ handlers[x] \in {Single, Double}
      /\ gin[g] = x /\ g \in Spawned /\ g \in Goroutines
  BY Zenon DEF On, Goroutines, Writers
<1>4. /\ index[x] \in Nat /\ reg[s] \in Nat /\ reg[t] \in Nat
  BY <1>3, Zenon DEF TimeoutTypeOK
<1>5. /\ Keeps(g) /\ Straggler(g, x, r, 2)'
      /\ at[g] \in {"load", "store", "head", "body"}
      /\ \/ at[g] # "store" /\ index'[x] = index[x]
         \/ at[g] = "store" /\ index'[x] = reg[g] + 1 /\ writers' = writers
  <2>1. Straggler(g, x, r, 2)  BY <1>1, Zenon
  <2> QED  BY <1>3, <2>1, StragglerStep, Zenon
<1>6. /\ \A w \in Writers : w # cwriter[x] => writers'[w] = writers[w]
      /\ writers[cwriter[x]].closed => writers'[cwriter[x]] = writers[cwriter[x]]
  BY <1>3, <1>5, WorkWrites, Zenon
<1>7. /\ gin' = gin /\ handlers' = handlers /\ cwriter'[x] = t /\ writers'[s] = writers[s]
      /\ writers'[s] \in {Output(r), TimedOut}
  BY <1>1, <1>3, <1>5, <1>6, Zenon DEF Keeps
<1>8. index'[x] \in Nat /\ index'[x] >= 2 /\ (at[g] = "store" => index'[x] >= 3)
  <2>1. index'[x] >= 2 /\ (at[g] = "store" => reg[g] >= 2)  BY <1>1, <1>5, Zenon DEF Straggler
  <2>2. reg[g] \in Nat  BY <1>4, Zenon
  <2> QED  BY <1>4, <1>5, <2>1, <2>2
<1>9. Straggler(s, x, r, 2)' /\ Straggler(t, x, r, 2)'
  <2>1. ASSUME NEW h \in {s, t}, h # g PROVE Straggler(h, x, r, 2)'
    <3>1. Straggler(h, x, r, 2)  BY <1>1, <2>1, Zenon
    <3>2. /\ at'[h] = at[h] /\ reg'[h] = reg[h] /\ job'[h] = job[h]
          /\ orig'[h] = orig[h] /\ child'[h] = child[h]
      BY <1>3, <1>5, <2>1, Zenon DEF Keeps
    <3> QED  BY <1>8, <3>1, <3>2, Zenon DEF Straggler
  <2> QED  BY <1>5, <2>1, Zenon
<1>10. CASE writers[t].closed
  <2>1. writers[cwriter[x]].closed  BY <1>1, <1>10, Zenon
  <2>2. writers'[t] = writers[t]  BY <1>1, <1>6, <2>1, Zenon
  <2>3. writers'[t].closed  BY <1>10, <2>2, Zenon
  <2>4. ASSUME at'[s] \in {"head", "body", "panicked"} PROVE index'[x] >= 3
    <3>1. CASE g = t
      <4>1. at'[s] = at[s]  BY <1>3, <1>5, <3>1, Zenon DEF Keeps
      <4>2. index[x] >= 3  BY <1>1, <2>4, <4>1, Zenon
      <4> QED  BY <1>5, <1>8, <4>2, Zenon
    <3>2. CASE g = s
      <4>1. CASE at[s] = "store"  BY <1>8, <3>2, <4>1, Zenon
      <4>2. CASE at[s] = "load"
        <5>1. at'[s] = "store"  BY <1>3, <3>2, <4>2, WorkStep, Zenon DEF Loads
        <5> QED  BY <2>4, <5>1, Zenon
      <4>3. CASE at[s] \in {"head", "body"}  BY <1>1, <1>5, <3>2, <4>3, Zenon
      <4> QED  BY <1>5, <3>2, <4>1, <4>2, <4>3, ZenonT(120)
    <3> QED  BY <3>1, <3>2, Zenon
  <2>5. After(s, t, x, r)'  BY <1>7, <1>9, <2>3, <2>4, ZenonT(30) DEF After
  <2> QED  BY <1>7, <2>5, InnerAgain, Zenon
<1>11. CASE /\ at[t] = "finished" /\ index[x] >= 4
            /\ at[s] \in {"load", "store", "finished"} /\ (at[s] = "store" => reg[s] >= 4)
  <2>1. g = s  BY <1>5, <1>11, Zenon
  <2>2. at'[t] = "finished"  BY <1>3, <1>5, <1>11, <2>1, ZenonT(120) DEF Keeps
  <2>3. CASE at[s] = "load"
    <3>1. at'[s] = "store" /\ reg'[s] = index[x] /\ index' = index
      BY <1>3, <2>1, <2>3, WorkStep, Zenon DEF Loads
    <3>2. reg'[s] >= 4 /\ index'[x] >= 4  BY <1>11, <3>1, Zenon
    <3>3. After(s, t, x, r)'  BY <1>7, <1>9, <2>2, <3>1, <3>2, ZenonT(120) DEF After
    <3> QED  BY <1>7, <3>3, InnerAgain, Zenon
  <2>4. CASE at[s] = "store"
    <3>1. Stores(s, x)  BY <1>3, <2>1, <2>4, WorkStep, Zenon
    <3>2. reg[s] >= 4  BY <1>11, <2>4, Zenon
    <3>3. reg[s] + 1 > Len(handlers[x]) /\ reg[s] + 1 >= 4  BY <1>4, <3>2, RouteFacts
    <3>4. at'[s] = "finished" /\ index'[x] >= 4  BY <3>1, <3>3, Zenon DEF Stores
    <3>5. After(s, t, x, r)'  BY <1>7, <1>9, <2>2, <3>4, Zenon DEF After
    <3> QED  BY <1>7, <3>5, InnerAgain, Zenon
  <2> QED  BY <1>5, <1>11, <2>1, <2>3, <2>4, Zenon
<1> QED  BY <1>2, <1>10, <1>11, ZenonT(30)

\* A step of one of them leaves their part of the invariant, and a finished s alone.
LEMMA InnerStep ==
  ASSUME TimeoutTypeOK, Apart, NEW s \in Spawned, NEW x \in Contexts, NEW r \in Requests,
         owner[x] = r, handlers[x] \in {Single, Double}, Inner(s, x, r), NEW g \in On(x), Steps(g)
  PROVE  /\ Inner(s, x, r)'
         /\ at[s] = "finished" => writers'[s] = writers[s]
<1>0. g \in Spawned /\ gin[g] = x /\ g \in Goroutines  BY Zenon DEF On, Goroutines
<1>1. at[g] \notin {"finished", "panicked", "gone"}  BY <1>0, ByLabel, Zenon
<1>2. CASE handlers[x] = Single /\ On(x) = {s} /\ Runner(s, x, r)
  <2>1. g = s  BY <1>2, Zenon
  <2>2. Keeps(s) /\ Runner(s, x, r)'  BY <1>0, <1>2, <2>1, RunnerStep, Zenon
  <2>3. On(x)' = {s} /\ handlers'[x] = Single  BY <1>2, <2>2, KeepsOn, Zenon DEF Keeps
  <2> QED  BY <1>1, <2>1, <2>2, <2>3, Zenon DEF Inner
<1>3. CASE handlers[x] = Double /\ Alone(s, x)
  <2>1. g = s  BY <1>3, Zenon DEF Alone
  <2>2. Inner(s, x, r)'  BY <1>3, <2>1, AloneStep, Zenon
  <2> QED  BY <1>1, <2>1, <2>2, Zenon
<1>4. ASSUME NEW t \in Spawned \ {s}, handlers[x] = Double, On(x) = {s, t},
             Waits(s, t, x, r) \/ GivesUp(s, t, x, r) \/ After(s, t, x, r) \/ Passed(s, t, x)
      PROVE  Inner(s, x, r)' /\ (at[s] = "finished" => writers'[s] = writers[s])
  <2>1. g \in {s, t} /\ s # t /\ t \in Spawned  BY <1>4, Zenon
  <2>2. CASE Waits(s, t, x, r)
    <3>1. Inner(s, x, r)'  BY <1>4, <2>1, <2>2, WaitsStep, Zenon
    <3>2. at[s] # "finished"  BY <2>2, Zenon DEF Waits
    <3> QED  BY <3>1, <3>2, Zenon
  <2>3. CASE GivesUp(s, t, x, r)
    <3>1. Inner(s, x, r)'  BY <1>4, <2>1, <2>3, GivesUpStep, Zenon
    <3>2. at[s] # "finished"  BY <2>3, Zenon DEF GivesUp
    <3> QED  BY <3>1, <3>2, Zenon
  <2>4. CASE After(s, t, x, r)  BY <1>4, <2>1, <2>4, AfterStep, Zenon
  <2>5. CASE Passed(s, t, x)  BY <1>1, <2>1, <2>5, Zenon DEF Passed
  <2> QED  BY <1>4, <2>2, <2>3, <2>4, <2>5, Zenon
<1> QED  BY <1>2, <1>3, <1>4, Zenon DEF Inner

-----------------------------------------------------------------------------
(* A request, through its outermost timeout.                               *)

\* A goroutine does not move the request it works for.
LEMMA RequestStays ==
  ASSUME Gateway, TimeoutTypeOK, Apart, NEW r \in Requests, NEW g \in Goroutines, g # r, Steps(g)
  PROVE  /\ at'[r] = at[r] /\ reg'[r] = reg[r] /\ child'[r] = child[r] /\ orig'[r] = orig[r]
         /\ sent'[r] = sent[r] /\ metric'[r] = metric[r]
<1>1. r \in Goroutines /\ r \notin Spawned /\ r # None  BY TimeoutAssumption, Zenon DEF Goroutines
<1>2. r # child[g]  BY <1>1, Zenon DEF TimeoutTypeOK
<1>3. CASE at[g] # "start"
  <2>1. Shape(g)  BY <1>3, PlainStep, Zenon
  <2> QED  BY <1>1, <1>2, <2>1, Zenon DEF Shape
<1>4. CASE at[g] = "start"
  <2>1. StartTimeout(g)  BY <1>4, ByLabel, Zenon
  <2>2. PICK s \in Spawned : Started(g, s)  BY <2>1, StartFacts, Zenon
  <2>3. r # s  BY <1>1, Zenon
  <2>4. Starts(g, s) /\ \A h \in Goroutines \ {g, s} : at'[h] = at[h] /\ orig'[h] = orig[h] /\ child'[h] = child[h]
    BY <2>2, Zenon DEF Started
  <2>5. reg' = reg /\ sent' = sent /\ metric' = metric  BY <2>4, Zenon DEF Starts
  <2> QED  BY <1>1, <2>3, <2>4, <2>5, Zenon
<1> QED  BY <1>3, <1>4, Zenon

\* The steps of a request before its outermost timeout.
LEMMA BeforeStep ==
  ASSUME Gateway, TimeoutTypeOK, Apart, NEW x \in Contexts, NEW r \in Requests, owner[x] = r,
         handlers[x] \in {Single, Double}, NEW g \in Goroutines, gin[g] = x, Steps(g), Before(r, x)
  PROVE  Before(r, x)' \/ Inside(r, x)'
<1>1. /\ On(x) = {} /\ orig[r] = None /\ cwriter[x] = x /\ writers[x] = Fresh
      /\ \/ at[r] = "load" /\ index[x] = 0
         \/ at[r] = "store" /\ reg[r] = 0
         \/ at[r] = "start" /\ index[x] = 1
  BY Zenon DEF Before
<1>2. g = r /\ r \in Goroutines /\ x \in Writers
  BY <1>1, Workers, Zenon DEF Goroutines, Writers
<1>3. CASE at[r] = "load"
  <2>1. LoadIndex(r)  BY <1>2, <1>3, ByLabel, Zenon
  <2>2. /\ Moves(r, "store") /\ reg'[r] = index[x]
        /\ UNCHANGED <<index, cwriter, writers, job, child, orig>>
    BY <1>2, <2>1, LoadEffect, Zenon
  <2>3. On(x)' = {}  BY <1>1, <2>2, KeepsOn, Zenon DEF Moves
  <2> QED  BY <1>1, <1>3, <2>2, <2>3, Zenon DEF Before, Moves
<1>4. CASE at[r] = "store"
  <2>1. StoreIndex(r) /\ reg[r] = 0  BY <1>1, <1>2, <1>4, ByLabel, Zenon
  <2>2. /\ index'[x] = reg[r] + 1
        /\ UNCHANGED <<cwriter, writers, child, orig>>
        /\ reg[r] + 1 =< Len(handlers[x]) /\ handlers[x][reg[r] + 1] # "handler" => Moves(r, "start")
    BY <1>2, <2>1, StoreEffect, Zenon
  <2>3. reg[r] + 1 = 1 /\ 1 =< Len(handlers[x]) /\ handlers[x][1] # "handler"
    <3>1. Len(handlers[x]) \in {2, 3} /\ handlers[x][1] = "timeout"  BY RouteFacts, Zenon
    <3>2. "timeout" # "handler"  BY Zenon
    <3>3. reg[r] + 1 = 1 /\ 1 =< Len(handlers[x])  BY <2>1, <3>1
    <3> QED  BY <3>1, <3>2, <3>3, Zenon
  <2>4. index'[x] = 1 /\ Moves(r, "start")  BY <2>2, <2>3, Zenon
  <2>5. On(x)' = {}  BY <1>1, <2>4, KeepsOn, Zenon DEF Moves
  <2> QED  BY <1>1, <2>2, <2>4, <2>5, Zenon DEF Before, Moves
<1>5. CASE at[r] = "start"
  <2>1. StartTimeout(r) /\ index[x] = 1  BY <1>1, <1>2, <1>5, ByLabel, Zenon
  <2>2. PICK s \in Spawned : Started(r, s)  BY <1>2, <2>1, StartFacts, Zenon
  <2>3. /\ at'[r] = "select" /\ at'[s] = "load" /\ orig'[r] = x /\ child'[r] = s
        /\ gin'[s] = x /\ cwriter'[x] = s /\ writers'[s] = Fresh
        /\ orig'[s] = None /\ child'[s] = None
        /\ \A h \in Goroutines \ {s} : gin'[h] = gin[h]
        /\ \A w \in Writers \ {s} : writers'[w] = writers[w]
    BY <1>1, <1>2, <2>2, ZenonT(120) DEF Started
  <2>4. index' = index /\ handlers' = handlers  BY <2>2, Zenon DEF Started, Starts
  <2>5. On(x)' = {s}
    <3>1. \A h \in Spawned : gin[h] # x  BY <1>1, Zenon DEF On
    <3>2. \A h \in Spawned : gin'[h] = x <=> h = s  BY <2>3, <3>1, Zenon DEF Goroutines
    <3> QED  BY <3>2, Zenon DEF On
  <2>6. writers'[x] = Fresh
    <3>1. x # s  BY TimeoutAssumption, Zenon
    <3> QED  BY <1>1, <1>2, <2>3, <3>1, Zenon
  <2>7. Inner(s, x, r)'
    <3>1. CASE handlers[x] = Single
      <4>1. index'[x] = Len(handlers'[x]) - 1  BY <2>1, <2>4, <3>1, RouteFacts
      <4>2. Runner(s, x, r)'  BY <2>3, <4>1, Zenon DEF Runner
      <4> QED  BY <2>4, <2>5, <3>1, <4>2, ZenonT(120) DEF Inner
    <3>2. CASE handlers[x] = Double
      <4>1. Alone(s, x)'  BY <2>1, <2>3, <2>4, <2>5, Zenon DEF Alone
      <4> QED  BY <2>4, <3>2, <4>1, Zenon DEF Inner
    <3> QED  BY <3>1, <3>2, Zenon
  <2>8. Inside(r, x)'  BY <2>3, <2>6, <2>7, Zenon DEF Inside
  <2> QED  BY <2>8, Zenon
<1> QED  BY <1>1, <1>3, <1>4, <1>5, Zenon

\* Its goroutines go on while it waits.
LEMMA InsideOthers ==
  ASSUME Gateway, TimeoutTypeOK, Apart, NEW x \in Contexts, NEW r \in Requests, owner[x] = r,
         handlers[x] \in {Single, Double}, NEW g \in On(x), Steps(g), Inside(r, x)
  PROVE  Inside(r, x)'
<1>1. PICK s \in Spawned :
        /\ orig[r] = x /\ child[r] = s /\ Inner(s, x, r)
        /\ \/ at[r] \in {"select", "flush"} /\ writers[x] = Fresh
           \/ at[r] = "flushBody" /\ writers[x] = Header(writers[s].status)
        /\ at[r] # "select" => at[s] = "finished"
  BY Zenon DEF Inside
<1>2. g \in Goroutines /\ gin[g] = x /\ g \in Spawned /\ g # r
  BY TimeoutAssumption, Zenon DEF On, Goroutines
<1>3. /\ Inner(s, x, r)' /\ (at[s] = "finished" => writers'[s] = writers[s])
  BY <1>1, InnerStep, Zenon
<1>4. writers'[x] = writers[x]
  <2>1. Sealed(x, r)  BY <1>1, InnerSealed, Zenon
  <2> QED  BY <1>2, <2>1, SealedStep, Zenon
<1>5. at'[r] = at[r] /\ child'[r] = child[r] /\ orig'[r] = orig[r]
  BY <1>2, RequestStays, Zenon
<1>6. ASSUME at[s] = "finished" PROVE at'[s] = "finished"
  <2>1. g # s /\ s \in Goroutines  BY <1>2, <1>6, ByLabel, Zenon DEF Goroutines
  <2>2. CASE at[g] = "start"
    <3>1. StartTimeout(g)  BY <1>2, <2>2, ByLabel, Zenon
    <3>2. PICK t \in Spawned : Started(g, t)  BY <1>2, <3>1, StartFacts, Zenon
    <3>3. at[t] = "idle"  BY <3>2, Zenon DEF Started, Starts
    <3>4. s # t  BY <1>6, <3>3, Zenon
    <3> QED  BY <1>6, <2>1, <3>2, <3>4, Zenon DEF Started
  <2>3. CASE at[g] # "start"
    <3>1. Shape(g)  BY <1>2, <2>3, PlainStep, Zenon
    <3>2. CASE s # child[g]  BY <1>6, <2>1, <3>1, <3>2, Zenon DEF Shape
    <3>3. CASE s = child[g] /\ at[g] = "select"
      <4>1. ~PanicReceived(g)  BY <1>6, <3>3, Zenon DEF PanicReceived
      <4>2. Finished(g) \/ DeadlineExceeded(g)  BY <1>2, <3>3, <4>1, ByLabel, Zenon
      <4>3. PICK label : Moves(g, label)  BY <1>2, <4>2, PlainEffect, Zenon
      <4> QED  BY <1>6, <2>1, <4>3, Zenon DEF Moves
    <3>4. CASE at[g] # "select"
      <4>1. PICK label : Goto(g, label)
        BY <2>3, <3>4, ZenonT(120) DEF Steps, Middleware, Handler, LoadIndex, StoreIndex, StartTimeout,
           Finished, PanicReceived, DeadlineExceeded, FlushHead, FlushBody, TimeoutHead,
           WriteTimeoutBody, HandlerHead, HandlerBody, HandlerPanic, Return, Recover, Leave
      <4> QED  BY <1>2, <1>6, <2>1, <4>1, GotoFacts, ZenonT(120)
    <3> QED  BY <3>2, <3>3, <3>4, Zenon
  <2> QED  BY <2>2, <2>3, Zenon
<1>7. \/ at'[r] \in {"select", "flush"} /\ writers'[x] = Fresh
      \/ at'[r] = "flushBody" /\ writers'[x] = Header(writers'[s].status)
  <2>1. at[r] = "flushBody" => writers'[s].status = writers[s].status
    <3>1. at[r] = "flushBody" => writers'[s] = writers[s]  BY <1>1, <1>3, Zenon
    <3> QED  BY <3>1, Zenon
  <2> QED  BY <1>1, <1>4, <1>5, <2>1, Zenon
<1> QED  BY <1>1, <1>3, <1>5, <1>6, <1>7, Zenon DEF Inside, Header


\* What the request makes of it.
LEMMA InsideOwn ==
  ASSUME Gateway, TimeoutTypeOK, Apart, NEW x \in Contexts, NEW r \in Requests, owner[x] = r,
         handlers[x] \in {Single, Double}, gin[r] = x, Steps(r), Inside(r, x)
  PROVE  Inside(r, x)' \/ Expiring(r, x)' \/ Over(r, x)' \/ Panicking(r, x)'
<1>1. PICK s \in Spawned :
        /\ orig[r] = x /\ child[r] = s /\ Inner(s, x, r)
        /\ \/ at[r] \in {"select", "flush"} /\ writers[x] = Fresh
           \/ at[r] = "flushBody" /\ writers[x] = Header(writers[s].status)
        /\ at[r] # "select" => at[s] = "finished"
  BY Zenon DEF Inside
<1>2. /\ r \in Goroutines /\ r \notin Spawned /\ s \in Goroutines /\ s \in Writers /\ x \in Writers
      /\ x \notin Spawned /\ x # None /\ None \notin Goroutines
      /\ \A h \in On(x) : h \in Goroutines /\ h \in Writers /\ h # r /\ h # x
  BY TimeoutAssumption, Zenon DEF Goroutines, Writers, On
<1>3. Sealed(x, r) /\ cwriter[x] \in Spawned  BY <1>1, InnerSealed, Zenon
<1>4. ASSUME NEW label, Moves(r, label), UNCHANGED <<index, cwriter, reg, job, child, orig>>,
             \A w \in Writers : w # x => writers'[w] = writers[w]
      PROVE  Steady(x) /\ Inner(s, x, r)'
  <2>1. On(x)' = On(x)  BY <1>4, KeepsOn, Zenon DEF Moves
  <2>2. \A h \in On(x) : /\ at'[h] = at[h] /\ reg'[h] = reg[h] /\ job'[h] = job[h]
                         /\ child'[h] = child[h] /\ orig'[h] = orig[h]
                         /\ writers'[h] = writers[h]
    BY <1>2, <1>4, ZenonT(120) DEF Moves
  <2>3. Steady(x)  BY <1>4, <2>1, <2>2, Zenon DEF Steady, Moves
  <2> QED  BY <1>1, <2>3, FrameInner, Zenon
<1>5. CASE at[r] = "select"
  <2>0. writers[x] = Fresh  BY <1>1, <1>5, Zenon
  <2>1. Finished(r) \/ PanicReceived(r) \/ DeadlineExceeded(r)  BY <1>2, <1>5, ByLabel, Zenon
  <2>2. CASE Finished(r)
    <3>1. at[s] = "finished"  BY <1>1, <2>2, Zenon DEF Finished
    <3>2. Moves(r, "flush") /\ UNCHANGED <<index, cwriter, writers, reg, job, child, orig>>
      BY <1>2, <2>2, PlainEffect, Zenon
    <3>3. Inner(s, x, r)'  BY <1>4, <3>2, Zenon
    <3>4. /\ orig'[r] = x /\ child'[r] = s /\ at'[r] = "flush" /\ writers'[x] = Fresh
          /\ at'[s] = "finished"
      BY <1>1, <1>2, <2>0, <3>1, <3>2, Zenon DEF Moves
    <3>5. Inside(r, x)'  BY <3>3, <3>4, Zenon DEF Inside
    <3> QED  BY <3>5, Zenon
  <2>3. CASE DeadlineExceeded(r)
    <3>1. Moves(r, "timeout") /\ UNCHANGED <<index, cwriter, reg, job, child, orig>>
      BY <1>2, <2>3, PlainEffect, ZenonT(120)
    <3>2. \A w \in Writers : w # child[r] => writers'[w] = writers[w]
      BY <1>2, <2>3, DeadlineEffect, Zenon
    <3>3. writers'[x] = Fresh  BY <1>1, <1>2, <2>0, <3>2, Zenon
    <3>4. Sealed(x, r)'  BY <1>3, <3>1, Zenon DEF Sealed, Moves
    <3>5. orig'[r] = x /\ at'[r] = "timeout"  BY <1>1, <3>1, Zenon DEF Moves
    <3>6. Expiring(r, x)'  BY <3>3, <3>4, <3>5, Zenon DEF Expiring
    <3> QED  BY <3>6, Zenon
  <2>4. CASE PanicReceived(r)
    <3>1. /\ gin' = gin /\ handlers' = handlers
          /\ UNCHANGED <<index, writers, reg, job, child, orig>>
          /\ at[s] = "panicked" /\ at'[r] = Panic(r) /\ at'[s] = "gone"
          /\ \A h \in Goroutines \ {r, s} : at'[h] = at[h]
          /\ cwriter'[x] = orig[r]
      BY <1>1, <1>2, <2>4, PanicEffect, ZenonT(120)
    <3>2. /\ orig'[r] = x /\ at'[r] = "recover" /\ cwriter'[x] = x
          /\ writers'[x] \in {Fresh, Output(r)} /\ child'[r] = s
      BY <1>1, <2>0, <3>1, Zenon DEF Panic
    <3>3. \/ On(x) = {s}
          \/ \E t \in Spawned \ {s} : On(x) = {s, t} /\ (at[t] = "gone" \/ (Straggler(t, x, r, 2) /\ index[x] >= 3))
      <4>1. ASSUME NEW t \in Spawned \ {s}, On(x) = {s, t},
                   Waits(s, t, x, r) \/ GivesUp(s, t, x, r) \/ After(s, t, x, r) \/ Passed(s, t, x)
            PROVE  at[t] = "gone" \/ (Straggler(t, x, r, 2) /\ index[x] >= 3)
        <5>1. ~Waits(s, t, x, r) /\ ~GivesUp(s, t, x, r)  BY <3>1, Zenon DEF Waits, GivesUp
        <5>2. CASE After(s, t, x, r)  BY <3>1, <5>2, Zenon DEF After
        <5>3. CASE Passed(s, t, x)  BY <5>3, Zenon DEF Passed
        <5> QED  BY <4>1, <5>1, <5>2, <5>3, Zenon
      <4> QED  BY <1>1, <4>1, Zenon DEF Inner, Alone
    <3>4. On(x)' = On(x)  BY <3>1, KeepsOn, Zenon
    <3>5. \A t, u \in On(x)' \ {s} : t = u  
      <4>1. CASE On(x) = {s}  BY <3>4, <4>1, Zenon
      <4>2. ASSUME NEW v \in Spawned \ {s}, On(x) = {s, v} PROVE \A t, u \in On(x)' \ {s} : t = u
        <5>1. \A t \in On(x)' \ {s} : t = v  BY <3>4, <4>2, Zenon
        <5> QED  BY <5>1, Zenon
      <4> QED  BY <3>3, <4>1, <4>2, Zenon
    <3>6. ASSUME NEW t \in On(x)' \ {s} PROVE at'[t] = "gone" \/ Late(t, x, r)'
      <4>1. t \in On(x) /\ t \in Goroutines /\ t # r /\ t # s  BY <1>2, <3>4, Zenon
      <4>2. at[t] = "gone" \/ (Straggler(t, x, r, 2) /\ index[x] >= 3)
        <5>1. ASSUME NEW v \in Spawned \ {s}, On(x) = {s, v},
                     at[v] = "gone" \/ (Straggler(v, x, r, 2) /\ index[x] >= 3)
              PROVE  at[t] = "gone" \/ (Straggler(t, x, r, 2) /\ index[x] >= 3)
          <6>1. t = v  BY <4>1, <5>1, Zenon
          <6> QED  BY <5>1, <6>1, Zenon
        <5>2. On(x) # {s}  BY <4>1, Zenon
        <5> QED  BY <3>3, <5>1, <5>2, Zenon
      <4>3. at'[t] = at[t]  BY <3>1, <4>1, Zenon
      <4>4. CASE at[t] = "gone"  BY <4>3, <4>4, Zenon
      <4>5. CASE Straggler(t, x, r, 2) /\ index[x] >= 3
        <5>1. Straggler(t, x, r, 2)'  BY <3>1, <4>3, <4>5, Zenon DEF Straggler
        <5>2. index'[x] >= 3 /\ writers'[x] = Fresh  BY <2>0, <3>1, <4>5, Zenon
        <5> QED  BY <5>1, <5>2, Zenon DEF Late
      <4> QED  BY <4>2, <4>4, <4>5, Zenon
    <3>7. Panicking(r, x)'  BY <3>1, <3>2, <3>5, <3>6, ZenonT(120) DEF Panicking
    <3> QED  BY <3>7, Zenon
  <2> QED  BY <2>1, <2>2, <2>3, <2>4, Zenon
<1>6. CASE at[r] = "flush"
  <2>1. FlushHead(r) /\ at[s] = "finished" /\ writers[x] = Fresh  BY <1>1, <1>2, <1>6, ByLabel, Zenon
  <2>2. Moves(r, "flushBody") /\ UNCHANGED <<index, cwriter, reg, job, child, orig>>
    BY <1>2, <2>1, PlainEffect, Zenon
  <2>3. /\ \A w \in Writers : w # x => writers'[w] = writers[w]
        /\ writers'[x] = Header(writers[s].status)
    BY <1>1, <1>2, <2>1, FlushEffect, ZenonT(120)
  <2>4. Inner(s, x, r)'  BY <1>4, <2>2, <2>3, Zenon
  <2>5. writers'[x] = Header(writers'[s].status)
    <3>1. writers'[s] = writers[s]  BY <1>2, <2>3, Zenon
    <3> QED  BY <2>3, <3>1, Zenon
  <2>6. orig'[r] = x /\ child'[r] = s /\ at'[r] = "flushBody" /\ at'[s] = "finished"
    BY <1>1, <1>2, <2>1, <2>2, Zenon DEF Moves
  <2>7. Inside(r, x)'  BY <2>4, <2>5, <2>6, Zenon DEF Inside, Header
  <2> QED  BY <2>7, Zenon
<1>7. CASE at[r] = "flushBody"
  <2>1. FlushBody(r) /\ at[s] = "finished" /\ writers[x] = Header(writers[s].status)
    BY <1>1, <1>2, <1>7, ByLabel, Zenon
  <2>2. /\ Moves(r, "load") /\ orig'[r] = None
        /\ UNCHANGED <<index, cwriter>>
    BY <1>2, <2>1, LeaveEffect, Zenon
  <2>3. Sealed(x, None)'
    <3>1. ASSUME NEW h \in Goroutines, gin'[h] = x PROVE orig'[h] # x
      <4>1. CASE h = r  BY <1>2, <2>2, <4>1, Zenon
      <4>2. CASE h # r  BY <1>3, <2>2, <3>1, <4>2, Zenon DEF Sealed, Moves
      <4> QED  BY <4>1, <4>2, Zenon
    <3> QED  BY <1>3, <2>2, <3>1, Zenon DEF Sealed
  <2>4. writers[s] \in {Output(r), TimedOut}  BY <1>1, <2>1, InnerFinished, Zenon
  <2>5. writers'[x] = [status |-> writers[s].status, body |-> writers[s].body, closed |-> FALSE]
    <3>1. writers[s] \in Content  BY <1>2, Zenon DEF TimeoutTypeOK
    <3>2. writers[s].status \in Nat  BY <3>1, Zenon DEF Content
    <3>3. PICK code \in Nat : code = writers[s].status  BY <3>2, Zenon
    <3>4. writers[orig[r]] = Header(code)  BY <1>1, <2>1, <3>3, Zenon
    <3>5. writers'[orig[r]] = [status |-> code, body |-> writers[child[r]].body, closed |-> FALSE]
      BY <1>2, <2>1, <3>4, FlushEffect, ZenonT(120)
    <3> QED  BY <1>1, <3>3, <3>5, Zenon
  <2>6. Whole(writers[x], r)'  BY <2>4, <2>5 DEF Whole, Output, TimedOut
  <2>7. Over(r, x)'  BY <2>3, <2>6, Zenon DEF Over
  <2> QED  BY <2>7, Zenon
<1> QED  BY <1>1, <1>5, <1>6, <1>7, Zenon


\* The deadline has passed: only the request writes to the response.
LEMMA ExpiringStep ==
  ASSUME Gateway, TimeoutTypeOK, Apart, NEW x \in Contexts, NEW r \in Requests, owner[x] = r,
         NEW g \in Goroutines, gin[g] = x, Steps(g), Expiring(r, x)
  PROVE  Expiring(r, x)' \/ Over(r, x)'
<1>1. /\ orig[r] = x /\ Sealed(x, r)
      /\ \/ at[r] = "timeout" /\ writers[x] = Fresh
         \/ at[r] = "timeoutBody" /\ writers[x] = Expired
  BY Zenon DEF Expiring
<1>2. r \in Goroutines /\ x # None  BY TimeoutAssumption, Zenon DEF Goroutines
<1>3. CASE g # r
  <2>1. writers'[x] = writers[x] /\ Sealed(x, r)'  BY <1>1, <1>3, SealedStep, Zenon
  <2>2. at'[r] = at[r] /\ orig'[r] = orig[r]  BY <1>3, RequestStays, Zenon
  <2>3. Expiring(r, x)'  BY <1>1, <2>1, <2>2, ZenonT(120) DEF Expiring
  <2> QED  BY <2>3, Zenon
<1>4. CASE g = r /\ at[r] = "timeout"
  <2>1. TimeoutHead(r) /\ writers[x] = Fresh  BY <1>1, <1>2, <1>4, ByLabel, Zenon
  <2>2. Moves(r, "timeoutBody") /\ UNCHANGED <<cwriter, orig>>  BY <1>2, <2>1, PlainEffect, Zenon
  <2>3. writers'[x] = Expired  BY <1>1, <1>2, <2>1, TimeoutEffect, Zenon
  <2>4. Sealed(x, r)'  BY <1>1, <2>2, Zenon DEF Sealed, Moves
  <2>5. Expiring(r, x)'  BY <1>1, <2>2, <2>3, <2>4, Zenon DEF Expiring, Moves
  <2> QED  BY <2>5, Zenon
<1>5. CASE g = r /\ at[r] = "timeoutBody"
  <2>1. WriteTimeoutBody(r) /\ writers[x] = Expired  BY <1>1, <1>2, <1>5, ByLabel, Zenon
  <2>2. Moves(r, "load") /\ orig'[r] = None /\ UNCHANGED <<cwriter>>
    BY <1>2, <2>1, LeaveEffect, Zenon
  <2>3. writers'[x] = TimedOut  BY <1>1, <1>2, <2>1, TimeoutEffect, Zenon
  <2>4. Sealed(x, None)'
    <3>1. ASSUME NEW h \in Goroutines, gin'[h] = x PROVE orig'[h] # x
      <4>1. CASE h = r  BY <1>2, <2>2, <4>1, Zenon
      <4>2. CASE h # r  BY <1>1, <2>2, <3>1, <4>2, ZenonT(120) DEF Sealed, Moves
      <4> QED  BY <4>1, <4>2, Zenon
    <3> QED  BY <1>1, <2>2, <3>1, Zenon DEF Sealed
  <2>5. Whole(writers[x], r)'  BY <2>3 DEF Whole, TimedOut
  <2>6. Over(r, x)'  BY <2>4, <2>5, Zenon DEF Over
  <2> QED  BY <2>6, Zenon
<1> QED  BY <1>1, <1>3, <1>4, <1>5, Zenon

\* What gin writes out at the end.
LEMMA AnswerEffect ==
  ASSUME TimeoutTypeOK, NEW r \in Requests, NEW x \in Contexts, gin[r] = x
  PROVE  /\ Return(r) => /\ at'[r] = "answered" /\ sent'[r] = writers[x]
                         /\ metric'[r] = writers[cwriter[x]].status
         /\ Recover(r) => at'[r] = "answered" /\ sent'[r] = writers'[x]
<1>1. r \in Goroutines  BY Zenon DEF Goroutines
<1>2. ASSUME Return(r) PROVE /\ at'[r] = "answered" /\ sent'[r] = writers[x]
                             /\ metric'[r] = writers[cwriter[x]].status
  <2>1. at'[r] = "answered"  BY <1>1, <1>2, GotoFacts, Zenon DEF Return
  <2> QED  BY <1>2, <2>1, Zenon DEF Return, TimeoutTypeOK
<1>3. ASSUME Recover(r) PROVE at'[r] = "answered" /\ sent'[r] = writers'[x]
  <2>1. at'[r] = "answered"  BY <1>1, <1>3, GotoFacts, Zenon DEF Recover
  <2>2. sent' = [sent EXCEPT ![r] = writers'[x]]  BY <1>3, Zenon DEF Recover
  <2> QED  BY <2>1, <2>2, Zenon DEF TimeoutTypeOK
<1> QED  BY <1>2, <1>3, Zenon

\* The response is there, and nobody can write to it any more.
LEMMA OverStep ==
  ASSUME Gateway, TimeoutTypeOK, Apart, NEW x \in Contexts, NEW r \in Requests, owner[x] = r,
         NEW g \in Goroutines, gin[g] = x, Steps(g), Over(r, x)
  PROVE  /\ Over(r, x)'
         /\ at[r] # "answered" /\ at'[r] = "answered" => Answered(r)'
<1>1. Sealed(x, None) /\ Whole(writers[x], r)  BY Zenon DEF Over
<1>2. g # None  BY TimeoutAssumption, Zenon DEF Goroutines
<1>3. writers'[x] = writers[x] /\ Sealed(x, None)'  BY <1>1, <1>2, SealedStep, Zenon
<1>4. Whole(writers[x], r)'  BY <1>1, <1>3 DEF Whole
<1>5. ASSUME at[r] # "answered", at'[r] = "answered" PROVE Answered(r)'
  <2>1. g = r  BY <1>5, RequestStays, Zenon
  <2>2. Return(r) \/ Recover(r)
    <3>1. at[r] \notin {"return", "recover"} => at'[r] # "answered"
      <4>1. ASSUME NEW label, Goto(r, label), label # "answered" PROVE at'[r] # "answered"
        BY <2>1, <4>1, GotoFacts, Zenon
      <4>2. ASSUME StartTimeout(r) PROVE at'[r] # "answered"
        <5>1. PICK s \in Spawned : Started(r, s)  BY <2>1, <4>2, StartFacts, Zenon
        <5> QED  BY <5>1, Zenon DEF Started
      <4>3. ASSUME PanicReceived(r) PROVE at'[r] # "answered"
        BY <2>1, <4>3, PanicEffect, ZenonT(120) DEF Panic
      <4>4. ASSUME LoadIndex(r) \/ StoreIndex(r) \/ Finished(r) \/ DeadlineExceeded(r) PROVE at'[r] # "answered"
        BY <4>1, <4>4, ZenonT(120) DEF LoadIndex, StoreIndex, Finished, DeadlineExceeded
      <4>5. ASSUME FlushHead(r) \/ FlushBody(r) \/ TimeoutHead(r) \/ WriteTimeoutBody(r) PROVE at'[r] # "answered"
        BY <4>1, <4>5, Zenon DEF FlushHead, FlushBody, TimeoutHead, WriteTimeoutBody, Leave
      <4>6. ASSUME Handler(r) PROVE at'[r] # "answered"
        BY <4>1, <4>6, Zenon DEF Handler, HandlerHead, HandlerBody, HandlerPanic, Panic
      <4>7. at[r] \notin {"return", "recover"} => ~Return(r) /\ ~Recover(r)  BY Zenon DEF Return, Recover
      <4> QED  BY <2>1, <4>2, <4>3, <4>4, <4>5, <4>6, <4>7, ZenonT(120) DEF Steps, Middleware
    <3>2. r \in Goroutines  BY Zenon DEF Goroutines
    <3> QED  BY <1>5, <2>1, <3>1, <3>2, ByLabel, Zenon
  <2>3. sent'[r] = writers[x]  BY <1>3, <2>1, <2>2, AnswerEffect, ZenonT(120)
  <2>4. Whole(sent[r], r)'  BY <1>1, <2>3 DEF Whole
  <2> QED  BY <1>5, <2>4, Zenon DEF Answered
<1> QED  BY <1>3, <1>4, <1>5, Zenon DEF Over


\* A panic came through: gin's Recovery has the context's own writer.
LEMMA PanickingOwn ==
  ASSUME TimeoutTypeOK, Apart, NEW x \in Contexts, NEW r \in Requests, gin[r] = x,
         Steps(r), Panicking(r, x)
  PROVE  Answered(r)'
<1>1. at[r] = "recover" /\ cwriter[x] = x /\ writers[x] \in {Fresh, Output(r)}
  BY Zenon DEF Panicking
<1>2. r \in Goroutines /\ x \in Writers  BY Zenon DEF Goroutines, Writers
<1>3. Recover(r)  BY <1>1, <1>2, ByLabel, Zenon
<1>4. at'[r] = "answered" /\ sent'[r] = writers'[x]  BY <1>3, AnswerEffect, Zenon
<1>5. WriteHeader(x, 500)  BY <1>1, <1>3, ZenonT(120) DEF Recover
<1>6. /\ writers[x].body # <<>> => writers'[x] = writers[x]
      /\ ~writers[x].closed /\ writers[x].body = <<>>
           => writers'[x] = [status |-> 500, body |-> <<>>, closed |-> FALSE]
  <2>1. writers \in [Writers -> Content]  BY Zenon DEF TimeoutTypeOK
  <2>2. PICK code \in Nat : code = 500  OBVIOUS
  <2>3. WriteHeader(x, code)  BY <1>5, <2>2, ZenonT(120)
  <2>4. /\ writers[x].body # <<>> => writers'[x] = writers[x]
        /\ ~writers[x].closed /\ writers[x].body = <<>>
             => writers'[x] = [status |-> code, body |-> <<>>, closed |-> FALSE]
    BY <1>2, <2>1, <2>3, HeaderFacts, Zenon
  <2> QED  BY <2>2, <2>4, Zenon
<1>7. CASE writers[x] = Fresh
  <2>1. ~writers[x].closed /\ writers[x].body = <<>>  BY <1>7 DEF Fresh
  <2>2. sent'[r] = [status |-> 500, body |-> <<>>, closed |-> FALSE]  BY <1>4, <1>6, <2>1, ZenonT(120)
  <2>3. Whole(sent[r], r)'  BY <2>2 DEF Whole
  <2> QED  BY <1>4, <2>3, Zenon DEF Answered
<1>8. CASE writers[x] = Output(r)
  <2>1. writers[x].body # <<>>  BY <1>8 DEF Output
  <2>2. sent'[r] = Output(r)  BY <1>4, <1>6, <1>8, <2>1, Zenon
  <2>3. Whole(sent[r], r)'  BY <2>2 DEF Whole, Output
  <2> QED  BY <1>4, <2>3, Zenon DEF Answered
<1> QED  BY <1>1, <1>7, <1>8, Zenon

\* A straggler cannot spoil the response of a request that is recovering.
LEMMA PanickingOthers ==
  ASSUME Gateway, TimeoutTypeOK, Apart, NEW x \in Contexts, NEW r \in Requests, owner[x] = r,
         handlers[x] \in {Single, Double}, NEW t \in On(x), Steps(t), Panicking(r, x)
  PROVE  Panicking(r, x)'
<1>1. /\ orig[r] = x /\ at[r] = "recover" /\ cwriter[x] = x
      /\ writers[x] \in {Fresh, Output(r)}
  BY Zenon DEF Panicking
<1>2. PICK s \in Spawned :
        /\ child[r] = s /\ at[s] = "gone"
        /\ \A v, u \in On(x) \ {s} : v = u
        /\ \A v \in On(x) \ {s} : at[v] = "gone" \/ Late(v, x, r)
  BY Zenon DEF Panicking
<1>3. /\ t \in Spawned /\ t \in Goroutines /\ gin[t] = x /\ t # r /\ x \in Writers
      /\ index[x] \in Nat /\ reg[t] \in Nat
  <2>1. /\ t \in Spawned /\ t \in Goroutines /\ gin[t] = x /\ t # r /\ x \in Writers
    BY TimeoutAssumption, Zenon DEF On, Goroutines, Writers
  <2> QED  BY <2>1, Zenon DEF TimeoutTypeOK
<1>4. at[t] # "gone"  BY <1>3, ByLabel, Zenon
<1>5. t # s  BY <1>2, <1>4, Zenon
<1>6. /\ Straggler(t, x, r, 2) /\ index[x] >= 3
      /\ at[t] \in {"head", "body"} \/ (at[t] = "store" /\ reg[t] = 2) => writers[x] = Fresh
  BY <1>2, <1>4, <1>5, Zenon DEF Late
<1>7. /\ Keeps(t) /\ Straggler(t, x, r, 2)'
      /\ at[t] \in {"load", "store", "head", "body"}
  BY <1>3, <1>6, StragglerStep, Zenon
<1>8. /\ at[t] = "load" => Loads(t, x)
      /\ at[t] = "store" => Stores(t, x)
      /\ at[t] = "head" => index' = index /\ (Heads(t, x) \/ Panics(t))
      /\ at[t] = "body" => index' = index /\ (Bodies(t, x) \/ Panics(t))
  BY <1>3, <1>7, WorkStep, Zenon
<1>9. Late(t, x, r)' /\ writers'[x] \in {Fresh, Output(r)}
  <2>1. CASE at[t] = "load"
    <3>1. at'[t] = "store" /\ reg'[t] = index[x] /\ index' = index /\ writers' = writers
      BY <1>8, <2>1, Zenon DEF Loads
    <3>2. reg'[t] # 2  BY <1>3, <1>6, <3>1
    <3> QED  BY <1>1, <1>6, <1>7, <3>1, <3>2, ZenonT(120) DEF Late
  <2>2. CASE at[t] = "store"
    <3>1. Stores(t, x)  BY <1>8, <2>2, Zenon
    <3>2. index'[x] = reg[t] + 1 /\ writers' = writers  BY <3>1, Zenon DEF Stores
    <3>3. reg[t] >= 2  BY <1>6, <2>2, Zenon DEF Straggler
    <3>4. index'[x] >= 3  BY <1>3, <3>2, <3>3
    <3>5. CASE reg[t] = 2
      <4>1. writers[x] = Fresh  BY <1>6, <2>2, <3>5, Zenon
      <4> QED  BY <1>1, <1>7, <3>2, <3>4, <4>1, ZenonT(120) DEF Late
    <3>6. CASE reg[t] # 2
      <4>1. reg[t] + 1 > Len(handlers[x])
        <5>1. Len(handlers[x]) \in {2, 3}  BY RouteFacts, Zenon
        <5>2. \A n \in {2, 3}, k \in Nat : k >= 2 /\ k # 2 => k + 1 > n  OBVIOUS
        <5> QED  BY <1>3, <3>3, <3>6, <5>1, <5>2, ZenonT(120)
      <4>2. at'[t] = "finished"  BY <3>1, <4>1, Zenon DEF Stores
      <4> QED  BY <1>1, <1>7, <3>2, <3>4, <4>2, ZenonT(120) DEF Late
    <3> QED  BY <3>5, <3>6, Zenon
  <2>3. CASE at[t] \in {"head", "body"} /\ Panics(t)
    <3>1. index' = index  BY <1>8, <2>3, Zenon
    <3> QED  BY <1>1, <1>6, <1>7, <2>3, <3>1, ZenonT(120) DEF Late, Panics
  <2>4. CASE at[t] = "head" /\ Heads(t, x)
    <3>1. index' = index /\ writers[x] = Fresh  BY <1>6, <1>8, <2>4, Zenon
    <3>2. writers'[x] = Fresh  BY <1>1, <1>3, <2>4, <3>1, FreshWrites, ZenonT(120) DEF Heads
    <3> QED  BY <1>6, <1>7, <3>1, <3>2, Zenon DEF Late
  <2>5. CASE at[t] = "body" /\ Bodies(t, x)
    <3>1. index' = index /\ writers[x] = Fresh  BY <1>6, <1>8, <2>5, Zenon
    <3>2. job[t] = r  BY <1>6, <2>5, Zenon DEF Straggler
    <3>3. writers'[x] = Output(r)  BY <1>1, <1>3, <2>5, <3>1, <3>2, FreshWrites, ZenonT(120) DEF Bodies
    <3>4. at'[t] = "load"  BY <2>5, Zenon DEF Bodies
    <3> QED  BY <1>6, <1>7, <3>1, <3>3, <3>4, ZenonT(120) DEF Late
  <2> QED  BY <1>7, <1>8, <2>1, <2>2, <2>3, <2>4, <2>5, ZenonT(120)
<1>10. On(x)' = On(x)  BY <1>7, KeepsOn, Zenon DEF Keeps
<1>11. /\ orig'[r] = x /\ at'[r] = "recover" /\ cwriter'[x] = x /\ child'[r] = s /\ at'[s] = "gone"
  <2>1. r \in Goroutines /\ s \in Goroutines  BY Zenon DEF Goroutines
  <2> QED  BY <1>1, <1>2, <1>3, <1>5, <1>7, <2>1, ZenonT(120) DEF Keeps
<1>12. \A v, u \in On(x)' \ {s} : v = u  BY <1>2, <1>10, Zenon
<1>13. \A v \in On(x)' \ {s} : at'[v] = "gone" \/ Late(v, x, r)'
  <2>1. ASSUME NEW v \in On(x) \ {s} PROVE v = t  BY <1>2, <1>5, Zenon
  <2> QED  BY <1>9, <1>10, <2>1, Zenon
<1> QED  BY <1>9, <1>11, <1>12, <1>13, Zenon DEF Panicking

\* Every step on a context takes its response to a stage, and answers it whole.
LEMMA ServedStep ==
  ASSUME Gateway, TimeoutTypeOK, Apart, NEW x \in Contexts, NEW r \in Requests, owner[x] = r,
         NEW g \in Goroutines, gin[g] = x, Steps(g), Served(r, x)
  PROVE  /\ Served(r, x)'
         /\ at[r] # "answered" /\ at'[r] = "answered" => Answered(r)'
<1>1. /\ r \in Goroutines /\ x \notin pool /\ gin[r] = x /\ handlers[x] \in {Single, Double}
      /\ r # None
  BY TimeoutAssumption, ZenonT(120) DEF Apart, Goroutines
<1>2. g = r \/ g \in On(x)  BY Workers, Zenon
<1>3. CASE Before(r, x)
  <2>1. Before(r, x)' \/ Inside(r, x)'  BY <1>1, <1>3, BeforeStep, Zenon
  <2>2. at'[r] # "answered"  BY <2>1, Zenon DEF Before, Inside
  <2> QED  BY <2>1, <2>2, Zenon DEF Served
<1>4. CASE Inside(r, x) /\ g = r
  <2>1. Inside(r, x)' \/ Expiring(r, x)' \/ Over(r, x)' \/ Panicking(r, x)'
    BY <1>1, <1>4, InsideOwn, Zenon
  <2>2. at[r] \in {"select", "flush", "flushBody"}  BY <1>4, Zenon DEF Inside
  <2>3. at'[r] # "answered"
    <3>1. CASE at[r] = "select"
      <4>1. Finished(r) \/ PanicReceived(r) \/ DeadlineExceeded(r)  BY <1>1, <1>4, <3>1, ByLabel, Zenon
      <4>2. Finished(r) => at'[r] = "flush"  BY <1>1, PlainEffect, Zenon DEF Moves
      <4>3. DeadlineExceeded(r) => at'[r] = "timeout"  BY <1>1, PlainEffect, Zenon DEF Moves
      <4>4. PanicReceived(r) => at'[r] = Panic(r)  BY <1>1, PanicEffect, Zenon
      <4> QED  BY <4>1, <4>2, <4>3, <4>4, Zenon DEF Panic
    <3>2. CASE at[r] = "flush"
      <4>1. FlushHead(r)  BY <1>1, <1>4, <3>2, ByLabel, ZenonT(120)
      <4>2. at'[r] = "flushBody"  BY <1>1, <4>1, PlainEffect, ZenonT(120) DEF Moves
      <4> QED  BY <4>2, Zenon
    <3>3. CASE at[r] = "flushBody"
      <4>1. FlushBody(r)  BY <1>1, <1>4, <3>3, ByLabel, ZenonT(120)
      <4>2. at'[r] = "load"  BY <1>1, <4>1, LeaveEffect, Zenon DEF Moves
      <4> QED  BY <4>2, Zenon
    <3> QED  BY <2>2, <3>1, <3>2, <3>3, Zenon
  <2> QED  BY <2>1, <2>3, Zenon DEF Served
<1>5. CASE Inside(r, x) /\ g \in On(x)
  <2>1. Inside(r, x)'  BY <1>1, <1>5, InsideOthers, Zenon
  <2>2. at'[r] # "answered"  BY <2>1, Zenon DEF Inside
  <2> QED  BY <2>1, <2>2, Zenon DEF Served
<1>6. CASE Expiring(r, x)
  <2>1. Expiring(r, x)' \/ Over(r, x)'  BY <1>6, ExpiringStep, Zenon
  <2>2. at'[r] # "answered"
    <3>1. CASE g # r
      <4>1. at'[r] = at[r]  BY <3>1, RequestStays, Zenon
      <4> QED  BY <1>6, <4>1, Zenon DEF Expiring
    <3>2. CASE g = r /\ at[r] = "timeout"
      <4>1. TimeoutHead(r)  BY <1>1, <3>2, ByLabel, Zenon
      <4>2. at'[r] = "timeoutBody"  BY <1>1, <4>1, PlainEffect, ZenonT(120) DEF Moves
      <4> QED  BY <4>2, Zenon
    <3>3. CASE g = r /\ at[r] = "timeoutBody"
      <4>1. WriteTimeoutBody(r)  BY <1>1, <3>3, ByLabel, Zenon
      <4>2. at'[r] = "load"  BY <1>1, <4>1, LeaveEffect, Zenon DEF Moves
      <4> QED  BY <4>2, Zenon
    <3> QED  BY <1>6, <3>1, <3>2, <3>3, ZenonT(120) DEF Expiring
  <2> QED  BY <2>1, <2>2, Zenon DEF Served
<1>7. CASE Over(r, x)
  <2>1. Over(r, x)' /\ (at[r] # "answered" /\ at'[r] = "answered" => Answered(r)')
    BY <1>7, OverStep, Zenon
  <2> QED  BY <2>1, Zenon DEF Served
<1>8. CASE Panicking(r, x) /\ g = r
  <2>1. Answered(r)'  BY <1>1, <1>8, PanickingOwn, Zenon
  <2> QED  BY <2>1, Zenon DEF Served
<1>9. CASE Panicking(r, x) /\ g \in On(x)
  <2>1. Panicking(r, x)'  BY <1>1, <1>9, PanickingOthers, Zenon
  <2>2. at'[r] # "answered"  BY <2>1, Zenon DEF Panicking
  <2> QED  BY <2>1, <2>2, ZenonT(120) DEF Served
<1>10. CASE Answered(r)
  <2>1. g # r  BY <1>1, <1>10, ByLabel, Zenon DEF Answered
  <2>2. at'[r] = at[r] /\ sent'[r] = sent[r]  BY <2>1, RequestStays, ZenonT(120)
  <2>3. Answered(r)'  BY <1>10, <2>2 DEF Answered, Whole
  <2> QED  BY <2>3, Zenon DEF Served
<1> QED  BY <1>2, <1>3, <1>4, <1>5, <1>6, <1>7, <1>8, <1>9, <1>10, ZenonT(120) DEF Served


\* The invariant is inductive.
LEMMA TimeoutStep ==
  ASSUME Gateway, TimeoutInv, [TimeoutNext]_timeoutVars
  PROVE  TimeoutInv'
<1>1. TimeoutTypeOK /\ Apart  BY Zenon DEF TimeoutInv
<1>2. TimeoutTypeOK'  BY <1>1, TypeStep, Zenon
<1>3. /\ \A x \in Contexts, r \in Requests : owner[x] = r => Served(r, x)
      /\ \A r \in Requests : at[r] = "answered" => Answered(r)
  BY Zenon DEF TimeoutInv
<1>4. ASSUME NEW r \in Requests, at'[r] = at[r], sent'[r] = sent[r], at'[r] = "answered"
      PROVE  Answered(r)'
  <2>1. Answered(r)  BY <1>3, <1>4, Zenon
  <2> QED  BY <1>4, <2>1, ZenonT(120) DEF Answered, Whole
<1>5. ASSUME NEW r \in Requests, NEW x \in Contexts, ServeHTTP(r, x) PROVE TimeoutInv'
  <2>1. Apart'  BY <1>1, <1>5, ServeApart, Zenon
  <2>2. Before(r, x)' /\ owner'[x] = r /\ \A y \in Contexts \ {x} : owner'[y] = owner[y]
    BY <1>1, <1>5, ServeServes, Zenon
  <2>3. ASSUME NEW y \in Contexts, NEW q \in Requests, owner'[y] = q PROVE Served(q, y)'
    <3>1. CASE y = x
      <4>1. q = r  BY <2>2, <2>3, <3>1, Zenon
      <4> QED  BY <2>2, <3>1, <4>1, Zenon DEF Served
    <3>2. CASE y # x
      <4>1. owner[y] = q  BY <2>2, <2>3, <3>2, Zenon
      <4>2. Untouched(y)  BY <1>1, <1>5, <3>2, ServeUntouched, Zenon
      <4>3. Served(q, y)  BY <1>3, <4>1, Zenon
      <4> QED  BY <1>1, <4>1, <4>2, <4>3, FrameServed, ZenonT(120)
    <3> QED  BY <3>1, <3>2, Zenon
  <2>4. ASSUME NEW q \in Requests, at'[q] = "answered" PROVE Answered(q)'
    <3>1. at'[r] = "load" /\ sent' = sent /\ \A h \in Goroutines \ {r} : at'[h] = at[h]
      BY <1>1, <1>5, Zenon DEF ServeHTTP, TimeoutTypeOK, Goto, results, Goroutines
    <3>2. q # r /\ q \in Goroutines  BY <2>4, <3>1, Zenon DEF Goroutines
    <3> QED  BY <1>4, <2>4, <3>1, <3>2, ZenonT(120)
  <2> QED  BY <1>2, <2>1, <2>3, <2>4, Zenon DEF TimeoutInv
<1>6. ASSUME NEW g \in Goroutines, Steps(g) PROVE TimeoutInv'
  <2>0. at[g] # "idle"  BY <1>6, ByLabel, Zenon
  <2>1. /\ Apart' /\ owner' = owner
        /\ \A y \in Contexts : y # gin[g] => Untouched(y)
    <3>1. CASE at[g] = "start"
      <4>1. StartTimeout(g)  BY <1>6, <3>1, ByLabel, Zenon
      <4>2. owner' = owner  BY <4>1, Zenon DEF StartTimeout
      <4> QED  BY <1>1, <4>1, <4>2, StartApart, StartUntouched, ZenonT(120)
    <3>2. CASE at[g] # "start"
      <4>1. Plain /\ Shape(g)  BY <1>1, <1>6, <3>2, PlainStep, Zenon
      <4>2. owner' = owner  BY <4>1, Zenon DEF Plain
      <4>3. Apart'  BY <1>1, <4>1, PlainApart, Zenon
      <4> QED  BY <1>1, <2>0, <4>1, <4>2, <4>3, OrdinaryUntouched, ZenonT(120)
    <3> QED  BY <3>1, <3>2, Zenon
  <2>2. ASSUME NEW y \in Contexts, NEW q \in Requests, owner'[y] = q PROVE Served(q, y)'
    <3>1. owner[y] = q /\ Served(q, y)  BY <1>3, <2>1, <2>2, Zenon
    <3>2. CASE gin[g] = y  BY <1>1, <1>6, <3>1, <3>2, ServedStep, ZenonT(120)
    <3>3. CASE gin[g] # y
      <4>1. Untouched(y)  BY <2>1, <3>3, Zenon
      <4> QED  BY <1>1, <3>1, <4>1, FrameServed, Zenon
    <3> QED  BY <3>2, <3>3, Zenon
  <2>3. ASSUME NEW q \in Requests, at'[q] = "answered" PROVE Answered(q)'
    <3>1. CASE g # q
      <4>1. at'[q] = at[q] /\ sent'[q] = sent[q]  BY <1>1, <1>6, <3>1, RequestStays, ZenonT(120)
      <4> QED  BY <1>4, <2>3, <4>1, Zenon
    <3>2. CASE g = q
      <4>1. at[q] # "answered"  BY <1>6, <3>2, ByLabel, Zenon
      <4>2. gin[q] \in Contexts  BY <1>1, <1>6, <2>0, <3>2, AtWork, ZenonT(120)
      <4>3. owner[gin[q]] = q  BY <1>1, <2>0, <3>2, ZenonT(120) DEF Apart
      <4>4. Served(q, gin[q])  BY <1>3, <4>2, <4>3, Zenon
      <4> QED  BY <1>1, <1>6, <2>3, <3>2, <4>1, <4>2, <4>3, <4>4, ServedStep, ZenonT(120)
    <3> QED  BY <3>1, <3>2, Zenon
  <2> QED  BY <1>2, <2>1, <2>2, <2>3, Zenon DEF TimeoutInv
<1>7. ASSUME UNCHANGED <<index, handlers, cwriter, gin, at, reg, job, child, orig, writers, sent, metric>>,
             UNCHANGED <<owner, pool>>
      PROVE  TimeoutInv'
  <2>1. \A y \in Contexts : Untouched(y)  BY <1>7, StillUntouched, Zenon
  <2>2. Plain
    <3>1. \A x \in Contexts : Belongs(cwriter[x], x)  BY <1>1, Zenon DEF Apart
    <3> QED  BY <1>7, <3>1, Zenon DEF Plain
  <2>3. Apart'  BY <1>1, <2>2, PlainApart, Zenon
  <2>4. \A x \in Contexts, r \in Requests : owner'[x] = r => Served(r, x)'
    BY <1>1, <1>3, <1>7, <2>1, FrameServed, ZenonT(120)
  <2>5. \A r \in Requests : at'[r] = "answered" => Answered(r)'
    BY <1>4, <1>7, Zenon
  <2> QED  BY <1>2, <2>3, <2>4, <2>5, ZenonT(120) DEF TimeoutInv
<1>8. ASSUME NEW s \in Spawned, Expire(s) PROVE TimeoutInv'
  BY <1>7, <1>8, Zenon DEF Expire, ginVars, locals, results
<1>9. ASSUME UNCHANGED timeoutVars PROVE TimeoutInv'
  BY <1>7, <1>9, Zenon DEF timeoutVars, ginVars, locals, results
<1>10. ASSUME NEW r \in Requests, Return(r) \/ Recover(r) PROVE TimeoutInv'
  BY <1>6, <1>10, Zenon DEF Steps, Goroutines
<1>11. ASSUME NEW g \in Goroutines, Middleware(g) \/ Handler(g) PROVE TimeoutInv'
  BY <1>6, <1>11, Zenon DEF Steps
<1> QED  BY <1>5, <1>8, <1>9, <1>10, <1>11, ZenonT(120) DEF TimeoutNext

\* Whatever an abandoned handler does meanwhile, and whenever deadlines pass, a client gets
\* the handler's output, the timeout message or an empty 500, for any number of requests on
\* the gateway's routes, as long as contexts are not reused.
THEOREM ResponsesWhole == Gateway /\ TimeoutSpec => []WholeResponse
<1>1. ASSUME TimeoutInv PROVE WholeResponse
  <2>1. \A r \in Requests : at[r] = "answered" => Whole(sent[r], r)
    BY <1>1, Zenon DEF TimeoutInv, Answered
  <2> QED  BY <2>1, Zenon DEF WholeResponse, Whole
<1>2. ASSUME Gateway PROVE TimeoutSpec => []WholeResponse
  <2>1. TimeoutInit => TimeoutInv  BY TimeoutInitially, Zenon
  <2>2. TimeoutInv /\ [TimeoutNext]_timeoutVars => TimeoutInv'  BY <1>2, TimeoutStep, Zenon
  <2> QED  BY <1>1, <2>1, <2>2, PTL DEF TimeoutSpec
<1> QED  BY <1>2, Zenon

\* What one handler writes gets into no other response: where it does, it is for the reuse
\* of contexts.
THEOREM OwnOutput == Gateway /\ TimeoutSpec => []OwnOutputOnly
  BY ResponsesWhole, WholeIsOwn, PTL
-----------------------------------------------------------------------------
(* MetricsMiddleware, on the routes with one timeout.                      *)

\* s has finished and its response is written: the chain has nothing more for r to run.
Told(r, x, s) ==
  /\ at[s] = "finished" /\ writers[s].status = writers[x].status
  /\ at[r] \in {"load", "store", "return"}
  /\ index[x] >= 3 /\ (at[r] = "store" => reg[r] >= 3)

\* r has given s up: what s and the handlers that r still runs write is ignored, and the
\* status in their closed buffer is the one that r writes.
GivenUp(r, x, s) ==
  /\ at[s] \in Working /\ writers[s].closed /\ writers[s].status = GatewayTimeout
  /\ index[x] >= 1
  /\ at[r] = "store" => reg[r] >= 1
  /\ at[s] = "store" => reg[s] >= 1
  /\ \/ at[r] = "timeout" /\ orig[r] = x /\ writers[x] = Fresh
     \/ at[r] = "timeoutBody" /\ orig[r] = x /\ writers[x] = Expired
     \/ /\ at[r] \in {"load", "store", "head", "body", "return", "recover"}
        /\ writers[x].status = GatewayTimeout

\* c.Writer is the buffer of s.
Behind(r, x) ==
  \E s \in Spawned : On(x) = {s} /\ cwriter[x] = s /\ (Told(r, x, s) \/ GivenUp(r, x, s))

\* The panic of the only goroutine is on its way to Recovery.
Recovering(r, x) ==
  /\ at[r] = "recover" /\ cwriter[x] = x /\ writers[x] = Fresh
  /\ \A s \in On(x) : at[s] = "gone"

\* Before the answer c.Writer holds the status to come; after it, the metric is the sent status.
Tallied(r, x) ==
  \/ Before(r, x) \/ Inside(r, x) \/ Behind(r, x) \/ Recovering(r, x)
  \/ at[r] = "answered" /\ metric[r] = sent[r].status

\* Every request on a route with one timeout is in one of these situations.
MetricInv ==
  /\ TimeoutInv
  /\ \A x \in Contexts, r \in Requests : owner[x] = r /\ handlers[x] = Single => Tallied(r, x)

\* The status Recovery answers with.
InternalServerError == 500

\* Recovery raises the status in c.Writer to a 500 and records it; a 504 stays.
LEMMA RecoverEffect ==
  ASSUME TimeoutTypeOK, NEW r \in Requests, NEW x \in Contexts, gin[r] = x, Recover(r)
  PROVE  /\ writers[cwriter[x]].status = GatewayTimeout => metric'[r] = GatewayTimeout
         /\ writers[cwriter[x]] = Fresh => metric'[r] = InternalServerError
         /\ WriteHeader(cwriter[x], InternalServerError)
<1>1. PICK code : code = writers[cwriter[x]].status  BY Zenon
<1>2. PICK n : n = IF code < 500 THEN 500 ELSE code  OBVIOUS
<1>3. metric' = [metric EXCEPT ![r] = n]  BY <1>1, <1>2, ZenonT(120) DEF Recover
<1>4. metric'[r] = n  BY <1>3, Zenon DEF TimeoutTypeOK
<1>5. code = GatewayTimeout => n = GatewayTimeout  BY <1>2 DEF GatewayTimeout
<1>6. writers[cwriter[x]] = Fresh => n = InternalServerError
  <2>1. Fresh.status = 200  BY DEF Fresh
  <2>2. code = 200 => n = InternalServerError  BY <1>2 DEF InternalServerError
  <2> QED  BY <1>1, <2>1, <2>2, ZenonT(120)
<1>7. WriteHeader(cwriter[x], InternalServerError)  BY ZenonT(120) DEF Recover, InternalServerError
<1> QED  BY <1>1, <1>4, <1>5, <1>6, <1>7, ZenonT(120)

\* Steps on other contexts leave the status that is to be recorded.
LEMMA FrameTallied ==
  ASSUME TimeoutTypeOK, Apart, NEW y \in Contexts, NEW r \in Requests, owner[y] = r,
         Untouched(y), Served(r, y), Tallied(r, y)
  PROVE  Tallied(r, y)'
<1>1. gin[r] = y /\ r \in Goroutines
  BY TimeoutAssumption, Zenon DEF Apart, Goroutines
<1>2. /\ at'[r] = at[r] /\ reg'[r] = reg[r] /\ orig'[r] = orig[r]
      /\ sent'[r] = sent[r] /\ metric'[r] = metric[r]
      /\ index'[y] = index[y] /\ cwriter'[y] = cwriter[y] /\ writers'[y] = writers[y]
  BY <1>1, Zenon DEF Untouched, Belongs, Writers
<1>3. On(y)' = On(y)  BY Zenon DEF On, Untouched, Goroutines
<1>4. \A h \in On(y) : at'[h] = at[h] /\ reg'[h] = reg[h] /\ writers'[h] = writers[h]
  BY Zenon DEF On, Untouched, Goroutines, Belongs, Writers
<1>5. ASSUME NEW s \in Spawned, On(y) = {s}, cwriter[y] = s, Told(r, y, s) PROVE Behind(r, y)'
  <2>1. at'[s] = at[s] /\ writers'[s] = writers[s]  BY <1>4, <1>5, Zenon
  <2>2. writers'[s].status = writers'[y].status  BY <1>2, <1>5, <2>1, Zenon DEF Told
  <2>3. Told(r, y, s)'  BY <1>2, <1>5, <2>1, <2>2, ZenonT(120) DEF Told
  <2> QED  BY <1>2, <1>3, <1>5, <2>3, ZenonT(120) DEF Behind
<1>6. ASSUME NEW s \in Spawned, On(y) = {s}, cwriter[y] = s, GivenUp(r, y, s) PROVE Behind(r, y)'
  <2>1. at'[s] = at[s] /\ reg'[s] = reg[s] /\ writers'[s] = writers[s]  BY <1>4, <1>6, Zenon
  <2>2. writers'[s].closed /\ writers'[s].status = GatewayTimeout  BY <1>6, <2>1, Zenon DEF GivenUp
  <2>3. /\ at'[s] \in Working /\ index'[y] >= 1
        /\ at'[r] = "store" => reg'[r] >= 1
        /\ at'[s] = "store" => reg'[s] >= 1
    BY <1>2, <1>6, <2>1, Zenon DEF GivenUp
  <2>4. \/ at'[r] = "timeout" /\ orig'[r] = y /\ writers'[y] = Fresh
        \/ at'[r] = "timeoutBody" /\ orig'[r] = y /\ writers'[y] = Expired
        \/ /\ at'[r] \in {"load", "store", "head", "body", "return", "recover"}
           /\ writers'[y].status = GatewayTimeout
    BY <1>2, <1>6, Zenon DEF GivenUp
  <2>5. GivenUp(r, y, s)'  BY <2>2, <2>3, <2>4, Zenon DEF GivenUp
  <2> QED  BY <1>2, <1>3, <1>6, <2>5, ZenonT(120) DEF Behind
<1>7. ASSUME Recovering(r, y) PROVE Recovering(r, y)'
  BY <1>2, <1>3, <1>4, <1>7, ZenonT(120) DEF Recovering
<1>8. /\ Before(r, y) => Before(r, y)'
      /\ Inside(r, y) => Inside(r, y)'
  BY FrameServed, Zenon
<1>9. ASSUME at[r] = "answered", metric[r] = sent[r].status
      PROVE  at'[r] = "answered" /\ metric'[r] = sent'[r].status
  BY <1>2, <1>9, Zenon
<1> QED  BY <1>5, <1>6, <1>7, <1>8, <1>9, Zenon DEF Tallied, Behind

\* The runner on a route with one timeout is at the handler, before it or after it.
LEMMA SingleRunner ==
  ASSUME NEW x \in Contexts, NEW r \in Requests, NEW s \in Spawned,
         handlers[x] = Single, Inner(s, x, r)
  PROVE  /\ On(x) = {s} /\ cwriter[x] = s /\ at[s] \in Working /\ index[x] >= 1
         /\ at[s] = "store" => reg[s] >= 1
         /\ at[s] = "finished" => index[x] >= 3
<1>1. Len(handlers[x]) = 2 /\ handlers[x] # Double  BY RouteFacts, Zenon
<1>2. On(x) = {s} /\ Runner(s, x, r)  BY <1>1, Zenon DEF Inner
<1>3. /\ cwriter[x] = s
      /\ \/ at[s] = "load" /\ index[x] = 2 - 1
         \/ at[s] = "store" /\ index[x] = 2 - 1 /\ reg[s] = 2 - 1
         \/ at[s] \in {"head", "body"} /\ index[x] = 2
         \/ at[s] = "load" /\ index[x] = 2
         \/ at[s] = "store" /\ index[x] = 2 /\ reg[s] = 2
         \/ at[s] = "finished" /\ index[x] = 2 + 1
         \/ at[s] = "panicked" /\ index[x] = 2
  BY <1>1, <1>2, Zenon DEF Runner
<1>4. at[s] \in Working  BY <1>3, Zenon DEF Working
<1>5. index[x] >= 1 /\ (at[s] = "store" => reg[s] >= 1) /\ (at[s] = "finished" => index[x] >= 3)
  BY <1>3
<1> QED  BY <1>2, <1>3, <1>4, <1>5, ZenonT(120)

\* The request comes out of its only timeout: with the buffer written out, given up, or
\* gone with a panic.
LEMMA SingleOwn ==
  ASSUME Gateway, TimeoutTypeOK, Apart, NEW x \in Contexts, NEW r \in Requests, owner[x] = r,
         handlers[x] = Single, gin[r] = x, Steps(r), Inside(r, x)
  PROVE  Tallied(r, x)'
<1>1. PICK s \in Spawned :
        /\ orig[r] = x /\ child[r] = s /\ Inner(s, x, r)
        /\ \/ at[r] \in {"select", "flush"} /\ writers[x] = Fresh
           \/ at[r] = "flushBody" /\ writers[x] = Header(writers[s].status)
        /\ at[r] # "select" => at[s] = "finished"
  BY Zenon DEF Inside
<1>2. /\ r \in Goroutines /\ s \in Goroutines /\ s \in Writers /\ x \in Writers
      /\ s # r /\ s # x /\ r # None
  BY TimeoutAssumption, Zenon DEF Goroutines, Writers
<1>3. /\ On(x) = {s} /\ cwriter[x] = s /\ at[s] \in Working /\ index[x] >= 1
      /\ at[s] = "store" => reg[s] >= 1
      /\ at[s] = "finished" => index[x] >= 3
  BY <1>1, SingleRunner, ZenonT(120)
<1>4. ASSUME at'[r] \in {"flush", "flushBody"}, orig' = orig, gin' = gin PROVE Tallied(r, x)'
  <2>1. Inside(r, x)' \/ Expiring(r, x)' \/ Over(r, x)' \/ Panicking(r, x)'
    <3>1. handlers[x] \in {Single, Double}  BY Zenon
    <3> QED  BY <3>1, InsideOwn, Zenon
  <2>2. ~Expiring(r, x)' /\ ~Panicking(r, x)'  BY <1>4, Zenon DEF Expiring, Panicking
  <2>3. ~Over(r, x)'  BY <1>1, <1>2, <1>4, Zenon DEF Over, Sealed
  <2> QED  BY <2>1, <2>2, <2>3, Zenon DEF Tallied
<1>5. CASE Finished(r)
  <2>1. Moves(r, "flush") /\ orig' = orig  BY <1>2, <1>5, PlainEffect, ZenonT(120)
  <2> QED  BY <1>4, <2>1, Zenon DEF Moves
<1>6. CASE FlushHead(r)
  <2>1. Moves(r, "flushBody") /\ orig' = orig  BY <1>2, <1>6, PlainEffect, ZenonT(120)
  <2> QED  BY <1>4, <2>1, Zenon DEF Moves
<1>7. CASE DeadlineExceeded(r)
  <2>1. Moves(r, "timeout") /\ UNCHANGED <<index, cwriter, orig>>
    BY <1>2, <1>7, PlainEffect, ZenonT(120)
  <2>2. writers[x] = Fresh  BY <1>1, <1>7, Zenon DEF DeadlineExceeded
  <2>3. /\ writers'[s].closed /\ writers'[s].status = GatewayTimeout
        /\ \A w \in Writers : w # s => writers'[w] = writers[w]
    BY <1>1, <1>2, <1>7, DeadlineEffect, ZenonT(120)
  <2>4. writers'[x] = Fresh  BY <1>2, <2>2, <2>3, Zenon
  <2>5. On(x)' = {s}  BY <1>3, <2>1, KeepsOn, Zenon DEF Moves
  <2>6. at'[s] = at[s] /\ reg'[s] = reg[s] /\ at'[r] = "timeout"  BY <1>2, <2>1, Zenon DEF Moves
  <2>7. orig'[r] = x /\ index'[x] >= 1 /\ cwriter'[x] = s  BY <1>1, <1>3, <2>1, Zenon
  <2>8. GivenUp(r, x, s)'  BY <1>3, <2>3, <2>4, <2>6, <2>7, ZenonT(120) DEF GivenUp
  <2> QED  BY <2>5, <2>7, <2>8, ZenonT(120) DEF Tallied, Behind
<1>8. CASE PanicReceived(r)
  <2>1. /\ gin' = gin /\ writers' = writers
        /\ at'[r] = Panic(r) /\ at'[s] = "gone" /\ cwriter'[x] = x
    BY <1>1, <1>2, <1>8, PanicEffect, ZenonT(120)
  <2>2. writers[x] = Fresh /\ Panic(r) = "recover"  BY <1>1, <1>8, Zenon DEF PanicReceived, Panic
  <2>3. On(x)' = {s}  BY <1>3, <2>1, KeepsOn, Zenon
  <2>4. Recovering(r, x)'  BY <2>1, <2>2, <2>3, Zenon DEF Recovering
  <2> QED  BY <2>4, Zenon DEF Tallied
<1>9. CASE FlushBody(r)
  <2>1. Moves(r, "load") /\ UNCHANGED <<index, cwriter>>  BY <1>2, <1>9, LeaveEffect, Zenon
  <2>2. at[s] = "finished" /\ writers[x] = Header(writers[s].status)
    BY <1>1, <1>9, Zenon DEF FlushBody
  <2>3. PICK code \in Nat : code = writers[s].status
    <3>1. writers[s] \in Content  BY <1>2, Zenon DEF TimeoutTypeOK
    <3> QED  BY <3>1, Zenon DEF Content
  <2>4. /\ writers'[x] = [status |-> code, body |-> writers[s].body, closed |-> FALSE]
        /\ writers'[s] = writers[s]
    <3>1. writers[orig[r]] = Header(code)  BY <1>1, <2>2, <2>3, ZenonT(120)
    <3>2. /\ writers'[orig[r]] = [status |-> code, body |-> writers[child[r]].body, closed |-> FALSE]
          /\ \A w \in Writers : w # orig[r] => writers'[w] = writers[w]
      BY <1>2, <1>9, <3>1, FlushEffect, ZenonT(120)
    <3> QED  BY <1>1, <1>2, <3>2, Zenon
  <2>5. writers'[s].status = writers'[x].status
    <3>1. writers'[x].status = code  BY <2>4
    <3> QED  BY <2>3, <2>4, <3>1, ZenonT(120)
  <2>6. On(x)' = {s}  BY <1>3, <2>1, KeepsOn, ZenonT(120) DEF Moves
  <2>7. at'[s] = "finished" /\ at'[r] = "load"  BY <1>2, <2>1, <2>2, Zenon DEF Moves
  <2>8. index'[x] >= 3 /\ cwriter'[x] = s  BY <1>3, <2>1, <2>2, Zenon
  <2>9. Told(r, x, s)'  BY <2>5, <2>7, <2>8, ZenonT(120) DEF Told
  <2> QED  BY <2>6, <2>8, <2>9, Zenon DEF Tallied, Behind
<1>10. \/ Finished(r) \/ FlushHead(r) \/ DeadlineExceeded(r) \/ PanicReceived(r) \/ FlushBody(r)
  BY <1>1, <1>2, ByLabel, Zenon
<1> QED  BY <1>5, <1>6, <1>7, <1>8, <1>9, <1>10, ZenonT(120)

\* Once the response is written, the request runs to the end of the chain and returns.
LEMMA ToldStep ==
  ASSUME Gateway, TimeoutTypeOK, Apart, NEW x \in Contexts, NEW r \in Requests, owner[x] = r,
         handlers[x] = Single, gin[r] = x, NEW s \in Spawned, On(x) = {s}, cwriter[x] = s,
         NEW g \in Goroutines, gin[g] = x, Steps(g), Told(r, x, s)
  PROVE  Tallied(r, x)'
<1>1. /\ at[s] = "finished" /\ writers[s].status = writers[x].status
      /\ at[r] \in {"load", "store", "return"}
      /\ index[x] >= 3 /\ (at[r] = "store" => reg[r] >= 3)
  BY Zenon DEF Told
<1>2. g = r /\ r \in Goroutines /\ s \in Goroutines /\ s # r
  <2>1. g # s  BY <1>1, ByLabel, Zenon
  <2>2. g = r  BY <2>1, Workers, Zenon
  <2> QED  BY <2>2, TimeoutAssumption, Zenon DEF Goroutines
<1>3. ASSUME NEW label \in {"store", "return"}, Moves(r, label), cwriter' = cwriter, writers' = writers,
             index'[x] >= 3, label = "store" => reg'[r] >= 3
      PROVE  Tallied(r, x)'
  <2>1. On(x)' = {s}  BY <1>3, KeepsOn, Zenon DEF Moves
  <2>2. at'[s] = "finished" /\ at'[r] = label  BY <1>1, <1>2, <1>3, Zenon DEF Moves
  <2>3. writers'[s].status = writers'[x].status /\ cwriter'[x] = s  BY <1>1, <1>3, Zenon
  <2>4. Told(r, x, s)'  BY <1>3, <2>2, <2>3, Zenon DEF Told
  <2> QED  BY <2>1, <2>3, <2>4, Zenon DEF Tallied, Behind
<1>4. CASE at[r] = "load"
  <2>1. LoadIndex(r)  BY <1>2, <1>4, ByLabel, Zenon
  <2>2. Moves(r, "store") /\ reg'[r] = index[x] /\ UNCHANGED <<index, cwriter, writers>>
    BY <1>2, <2>1, LoadEffect, ZenonT(120)
  <2> QED  BY <1>1, <1>3, <2>2, Zenon
<1>5. CASE at[r] = "store"
  <2>1. StoreIndex(r) /\ reg[r] >= 3  BY <1>1, <1>2, <1>5, ByLabel, ZenonT(120)
  <2>2. /\ index'[x] = reg[r] + 1 /\ UNCHANGED <<cwriter, writers>>
        /\ reg[r] + 1 > Len(handlers[x]) => Moves(r, "return")
    BY <1>2, <2>1, StoreEffect, ZenonT(120)
  <2>3. Len(handlers[x]) = 2 /\ reg[r] \in Nat  BY <1>2, RouteFacts, ZenonT(120) DEF TimeoutTypeOK
  <2>4. reg[r] + 1 > 2 /\ reg[r] + 1 >= 3  BY <2>1, <2>3
  <2>5. Moves(r, "return") /\ index'[x] >= 3  BY <2>2, <2>3, <2>4, Zenon
  <2> QED  BY <1>3, <2>2, <2>5, Zenon
<1>6. CASE at[r] = "return"
  <2>1. Return(r)  BY <1>2, <1>6, ByLabel, Zenon
  <2>2. at'[r] = "answered" /\ sent'[r] = writers[x] /\ metric'[r] = writers[cwriter[x]].status
    BY <2>1, AnswerEffect, Zenon
  <2>3. metric'[r] = sent'[r].status  BY <1>1, <2>2, Zenon
  <2> QED  BY <2>2, <2>3, Zenon DEF Tallied
<1> QED  BY <1>1, <1>4, <1>5, <1>6, ZenonT(120)

\* A goroutine that is given up writes to its closed buffer.
LEMMA GivenUpOthers ==
  ASSUME Gateway, TimeoutTypeOK, Apart, NEW x \in Contexts, NEW r \in Requests, owner[x] = r,
         handlers[x] = Single, NEW s \in Spawned, On(x) = {s}, cwriter[x] = s,
         Steps(s), GivenUp(r, x, s)
  PROVE  Tallied(r, x)'
<1>1. /\ at[s] \in Working /\ index[x] >= 1
      /\ at[r] = "store" => reg[r] >= 1
      /\ at[s] = "store" => reg[s] >= 1
      /\ \/ at[r] = "timeout" /\ orig[r] = x /\ writers[x] = Fresh
         \/ at[r] = "timeoutBody" /\ orig[r] = x /\ writers[x] = Expired
         \/ /\ at[r] \in {"load", "store", "head", "body", "return", "recover"}
            /\ writers[x].status = GatewayTimeout
  BY Zenon DEF GivenUp
<1>2. writers[s].closed /\ writers[s].status = GatewayTimeout  BY Zenon DEF GivenUp
<1>3. /\ gin[s] = x /\ s \in Goroutines /\ s \in Writers /\ x \in Writers /\ s # x
      /\ r \in Goroutines /\ r # s
  BY TimeoutAssumption, Zenon DEF On, Goroutines, Writers
<1>4. at[s] \in {"load", "store", "head", "body"}
  <2>1. at[s] \notin {"finished", "panicked"}  BY <1>3, ByLabel, Zenon
  <2> QED  BY <1>1, <2>1, Zenon DEF Working
<1>5. /\ Keeps(s)
      /\ at[s] = "load" => Loads(s, x)
      /\ at[s] = "store" => Stores(s, x)
      /\ at[s] = "head" => index' = index /\ (Heads(s, x) \/ Panics(s))
      /\ at[s] = "body" => index' = index /\ (Bodies(s, x) \/ Panics(s))
  BY <1>3, <1>4, WorkStep, Zenon
<1>6. writers'[s] = writers[s] /\ writers'[x] = writers[x]
  BY <1>2, <1>3, <1>4, WorkWrites, ZenonT(120)
<1>7. /\ at'[s] \in Working /\ index'[x] >= 1
      /\ at'[s] = "store" => reg'[s] >= 1
  <2>1. CASE at[s] = "load"
    <3>1. at'[s] = "store" /\ reg'[s] = index[x] /\ index' = index  BY <1>5, <2>1, Zenon DEF Loads
    <3> QED  BY <1>1, <3>1, Zenon DEF Working
  <2>2. CASE at[s] = "store"
    <3>1. Stores(s, x) /\ reg[s] >= 1 /\ reg[s] \in Nat
      BY <1>1, <1>3, <1>5, <2>2, ZenonT(120) DEF TimeoutTypeOK
    <3>2. Len(handlers[x]) = 2 /\ handlers[x][2] = "handler"  BY RouteFacts, Zenon
    <3>3. reg[s] + 1 >= 1 /\ (reg[s] + 1 > 2 \/ reg[s] + 1 = 2) /\ 2 =< 2  BY <3>1
    <3>4. at'[s] \in {"finished", "head"} /\ index'[x] = reg[s] + 1
      BY <3>1, <3>2, <3>3, ZenonT(120) DEF Stores
    <3> QED  BY <3>3, <3>4, Zenon DEF Working
  <2>3. CASE at[s] \in {"head", "body"}
    <3>1. index' = index /\ at'[s] \in {"body", "load", "panicked"}
      BY <1>5, <2>3, Zenon DEF Heads, Bodies, Panics
    <3> QED  BY <1>1, <3>1, Zenon DEF Working
  <2> QED  BY <1>4, <2>1, <2>2, <2>3, ZenonT(120)
<1>8. On(x)' = {s} /\ cwriter'[x] = s /\ at'[r] = at[r] /\ reg'[r] = reg[r] /\ orig'[r] = orig[r]
  BY <1>3, <1>5, KeepsOn, Zenon DEF Keeps
<1>9. /\ at'[r] = "store" => reg'[r] >= 1
      /\ \/ at'[r] = "timeout" /\ orig'[r] = x /\ writers'[x] = Fresh
         \/ at'[r] = "timeoutBody" /\ orig'[r] = x /\ writers'[x] = Expired
         \/ /\ at'[r] \in {"load", "store", "head", "body", "return", "recover"}
            /\ writers'[x].status = GatewayTimeout
  BY <1>1, <1>6, <1>8, Zenon
<1>10. writers'[s].closed /\ writers'[s].status = GatewayTimeout  BY <1>2, <1>6, Zenon
<1>11. GivenUp(r, x, s)'  BY <1>7, <1>9, <1>10, Zenon DEF GivenUp
<1> QED  BY <1>8, <1>11, Zenon DEF Tallied, Behind

\* So does the request that gave it up, when it goes on with the chain.
LEMMA GivenUpOwn ==
  ASSUME Gateway, TimeoutTypeOK, Apart, NEW x \in Contexts, NEW r \in Requests, owner[x] = r,
         handlers[x] = Single, gin[r] = x, NEW s \in Spawned, On(x) = {s}, cwriter[x] = s,
         Steps(r), GivenUp(r, x, s)
  PROVE  Tallied(r, x)'
<1>1. /\ at[s] \in Working /\ index[x] >= 1
      /\ at[r] = "store" => reg[r] >= 1
      /\ at[s] = "store" => reg[s] >= 1
      /\ \/ at[r] = "timeout" /\ orig[r] = x /\ writers[x] = Fresh
         \/ at[r] = "timeoutBody" /\ orig[r] = x /\ writers[x] = Expired
         \/ /\ at[r] \in {"load", "store", "head", "body", "return", "recover"}
            /\ writers[x].status = GatewayTimeout
  BY Zenon DEF GivenUp
<1>2. writers[s].closed /\ writers[s].status = GatewayTimeout  BY Zenon DEF GivenUp
<1>3. /\ r \in Goroutines /\ s \in Goroutines /\ s \in Writers /\ x \in Writers /\ s # x /\ r # s
      /\ writers \in [Writers -> Content]
  BY TimeoutAssumption, Zenon DEF Goroutines, Writers, TimeoutTypeOK
<1>4. ASSUME NEW label, Moves(r, label), cwriter' = cwriter, writers'[s] = writers[s],
             index'[x] >= 1, label = "store" => reg'[r] >= 1,
             \/ label = "timeoutBody" /\ orig'[r] = x /\ writers'[x] = Expired
             \/ /\ label \in {"load", "store", "head", "body", "return", "recover"}
                /\ writers'[x].status = GatewayTimeout
      PROVE  Tallied(r, x)'
  <2>1. On(x)' = {s}  BY <1>4, KeepsOn, Zenon DEF Moves
  <2>2. at'[s] = at[s] /\ reg'[s] = reg[s] /\ at'[r] = label  BY <1>3, <1>4, Zenon DEF Moves
  <2>3. writers'[s].closed /\ writers'[s].status = GatewayTimeout /\ cwriter'[x] = s
    BY <1>2, <1>4, Zenon
  <2>4. GivenUp(r, x, s)'  BY <1>1, <1>4, <2>2, <2>3, ZenonT(120) DEF GivenUp
  <2> QED  BY <2>1, <2>3, <2>4, ZenonT(120) DEF Tallied, Behind
<1>5. CASE at[r] = "timeout"
  <2>1. TimeoutHead(r) /\ orig[r] = x /\ writers[x] = Fresh  BY <1>1, <1>3, <1>5, ByLabel, ZenonT(120)
  <2>2. Moves(r, "timeoutBody") /\ UNCHANGED <<index, cwriter, orig>>
    BY <1>3, <2>1, PlainEffect, Zenon
  <2>3. writers'[x] = Expired /\ writers'[s] = writers[s]  BY <1>3, <2>1, TimeoutEffect, Zenon
  <2> QED  BY <1>1, <1>4, <2>1, <2>2, <2>3, ZenonT(120)
<1>6. CASE at[r] = "timeoutBody"
  <2>1. WriteTimeoutBody(r) /\ orig[r] = x /\ writers[x] = Expired
    BY <1>1, <1>3, <1>6, ByLabel, ZenonT(120)
  <2>2. Moves(r, "load") /\ UNCHANGED <<index, cwriter>>  BY <1>3, <2>1, LeaveEffect, Zenon
  <2>3. writers'[x] = TimedOut /\ writers'[s] = writers[s]  BY <1>3, <2>1, TimeoutEffect, ZenonT(120)
  <2>4. TimedOut.status = GatewayTimeout  BY DEF TimedOut, GatewayTimeout
  <2>5. writers'[x].status = GatewayTimeout  BY <2>3, <2>4, Zenon
  <2> QED  BY <1>1, <1>4, <2>2, <2>3, <2>5, ZenonT(120)
<1>7. CASE at[r] = "load"
  <2>1. LoadIndex(r) /\ writers[x].status = GatewayTimeout  BY <1>1, <1>3, <1>7, ByLabel, ZenonT(120)
  <2>2. Moves(r, "store") /\ reg'[r] = index[x] /\ UNCHANGED <<index, cwriter, writers>>
    BY <1>3, <2>1, LoadEffect, Zenon
  <2>3. writers'[x].status = GatewayTimeout  BY <2>1, <2>2, Zenon
  <2> QED  BY <1>1, <1>4, <2>2, <2>3, Zenon
<1>8. CASE at[r] = "store"
  <2>1. StoreIndex(r) /\ writers[x].status = GatewayTimeout /\ reg[r] >= 1
    BY <1>1, <1>3, <1>8, ByLabel, ZenonT(120)
  <2>2. /\ index'[x] = reg[r] + 1 /\ UNCHANGED <<cwriter, writers>>
        /\ reg[r] + 1 > Len(handlers[x]) => Moves(r, "return")
        /\ reg[r] + 1 =< Len(handlers[x]) /\ handlers[x][reg[r] + 1] = "handler" => Moves(r, "head")
    BY <1>3, <2>1, StoreEffect, ZenonT(120)
  <2>3. Len(handlers[x]) = 2 /\ handlers[x][2] = "handler" /\ reg[r] \in Nat
    BY <1>3, RouteFacts, ZenonT(120) DEF TimeoutTypeOK
  <2>4. reg[r] + 1 >= 1 /\ (reg[r] + 1 > 2 \/ reg[r] + 1 = 2) /\ 2 =< 2  BY <2>1, <2>3
  <2>5. PICK label \in {"return", "head"} : Moves(r, label)  BY <2>2, <2>3, <2>4, Zenon
  <2>6. index'[x] >= 1 /\ writers'[x].status = GatewayTimeout /\ writers'[s] = writers[s]
    BY <2>1, <2>2, <2>4, ZenonT(120)
  <2> QED  BY <1>4, <2>2, <2>5, <2>6, ZenonT(120)
<1>9. CASE HandlerPanic(r)
  <2>1. Moves(r, "recover") /\ UNCHANGED <<index, cwriter, writers>>
    BY <1>3, <1>9, HandlerEffect, Zenon DEF Panic
  <2>2. writers[x].status = GatewayTimeout  BY <1>1, <1>9, Zenon DEF HandlerPanic
  <2>3. writers'[x].status = GatewayTimeout  BY <2>1, <2>2, Zenon
  <2> QED  BY <1>1, <1>4, <2>1, <2>3, ZenonT(120)
<1>10. CASE HandlerHead(r)
  <2>1. Moves(r, "body") /\ UNCHANGED <<index, cwriter>>  BY <1>3, <1>10, PlainEffect, ZenonT(120)
  <2>2. PICK code \in Nat : WriteHeader(s, code)
    <3>1. 200 \in Nat  OBVIOUS
    <3> QED  BY <1>10, <3>1, ZenonT(120) DEF HandlerHead
  <2>3. writers'[s] = writers[s] /\ writers'[x] = writers[x]
    BY <1>2, <1>3, <2>2, HeaderFacts, ZenonT(120)
  <2>4. writers[x].status = GatewayTimeout  BY <1>1, <1>10, ZenonT(120) DEF HandlerHead
  <2>5. writers'[x].status = GatewayTimeout  BY <2>3, <2>4, Zenon
  <2> QED  BY <1>1, <1>4, <2>1, <2>3, <2>5, ZenonT(120)
<1>11. CASE HandlerBody(r)
  <2>1. Moves(r, "load") /\ UNCHANGED <<index, cwriter>>  BY <1>3, <1>11, HandlerEffect, ZenonT(120)
  <2>2. Write(s, job[r]) /\ job[r] \in Requests \cup {TimeoutBody, None}
    BY <1>3, <1>11, ZenonT(120) DEF HandlerBody, TimeoutTypeOK
  <2>3. writers'[s] = writers[s] /\ writers'[x] = writers[x]
    BY <1>2, <1>3, <2>2, WriteFacts, ZenonT(120)
  <2>4. writers[x].status = GatewayTimeout  BY <1>1, <1>11, Zenon DEF HandlerBody
  <2>5. writers'[x].status = GatewayTimeout  BY <2>3, <2>4, Zenon
  <2> QED  BY <1>1, <1>4, <2>1, <2>3, <2>5, ZenonT(120)
<1>12. CASE at[r] = "return"
  <2>1. Return(r) /\ writers[x].status = GatewayTimeout  BY <1>1, <1>3, <1>12, ByLabel, ZenonT(120)
  <2>2. at'[r] = "answered" /\ sent'[r] = writers[x] /\ metric'[r] = writers[cwriter[x]].status
    BY <2>1, AnswerEffect, Zenon
  <2>3. metric'[r] = sent'[r].status  BY <1>2, <2>1, <2>2, ZenonT(120)
  <2> QED  BY <2>2, <2>3, Zenon DEF Tallied
<1>13. CASE at[r] = "recover"
  <2>1. Recover(r) /\ writers[x].status = GatewayTimeout  BY <1>1, <1>3, <1>13, ByLabel, ZenonT(120)
  <2>2. at'[r] = "answered" /\ sent'[r] = writers'[x]  BY <2>1, AnswerEffect, Zenon
  <2>3. metric'[r] = GatewayTimeout /\ WriteHeader(s, InternalServerError)
    BY <1>2, <2>1, RecoverEffect, ZenonT(120)
  <2>4. InternalServerError \in Nat  BY DEF InternalServerError
  <2>5. writers'[x] = writers[x]  BY <1>3, <2>3, <2>4, HeaderFacts, ZenonT(120)
  <2>6. metric'[r] = sent'[r].status  BY <2>1, <2>2, <2>3, <2>5, ZenonT(120)
  <2> QED  BY <2>2, <2>6, Zenon DEF Tallied
<1>14. at[r] \in {"head", "body"} => HandlerHead(r) \/ HandlerBody(r) \/ HandlerPanic(r)
  BY <1>3, ByLabel, Zenon
<1> QED
  BY <1>1, <1>5, <1>6, <1>7, <1>8, <1>9, <1>10, <1>11, <1>12, <1>13, <1>14, ZenonT(120)

\* After a panic Recovery writes the 500 that is recorded.
LEMMA RecoveringStep ==
  ASSUME Gateway, TimeoutTypeOK, Apart, NEW x \in Contexts, NEW r \in Requests, owner[x] = r,
         gin[r] = x, NEW g \in Goroutines, gin[g] = x, Steps(g), Recovering(r, x)
  PROVE  Tallied(r, x)'
<1>1. /\ at[r] = "recover" /\ cwriter[x] = x /\ writers[x] = Fresh
      /\ \A s \in On(x) : at[s] = "gone"
  BY Zenon DEF Recovering
<1>2. g = r /\ r \in Goroutines /\ x \in Writers
  <2>1. g \notin On(x)  BY <1>1, ByLabel, Zenon
  <2> QED  BY <2>1, Workers, Zenon DEF Writers
<1>3. Recover(r)  BY <1>1, <1>2, ByLabel, Zenon
<1>4. at'[r] = "answered" /\ sent'[r] = writers'[x]  BY <1>3, AnswerEffect, Zenon
<1>5. metric'[r] = InternalServerError /\ WriteHeader(x, InternalServerError)
  BY <1>1, <1>3, RecoverEffect, Zenon
<1>6. InternalServerError \in Nat  BY DEF InternalServerError
<1>7. writers'[x] = Header(InternalServerError)  BY <1>1, <1>2, <1>5, <1>6, FreshWrites, ZenonT(120)
<1>8. Header(InternalServerError).status = InternalServerError  BY Zenon DEF Header
<1>9. metric'[r] = sent'[r].status  BY <1>4, <1>5, <1>7, <1>8, ZenonT(120)
<1> QED  BY <1>4, <1>9, Zenon DEF Tallied

\* Every step on a context keeps the status in c.Writer the one that is sent.
LEMMA TalliedStep ==
  ASSUME Gateway, TimeoutTypeOK, Apart, NEW x \in Contexts, NEW r \in Requests, owner[x] = r,
         handlers[x] = Single, NEW g \in Goroutines, gin[g] = x, Steps(g), Tallied(r, x)
  PROVE  Tallied(r, x)'
<1>1. /\ gin[r] = x /\ r \in Goroutines /\ handlers[x] \in {Single, Double}
      /\ g = r \/ g \in On(x)
  BY TimeoutAssumption, Workers, ZenonT(120) DEF Apart, Goroutines
<1>2. CASE Before(r, x)
  <2>1. Before(r, x)' \/ Inside(r, x)'  BY <1>1, <1>2, BeforeStep, Zenon
  <2> QED  BY <2>1, Zenon DEF Tallied
<1>3. CASE Inside(r, x) /\ g = r  BY <1>1, <1>3, SingleOwn, ZenonT(120)
<1>4. CASE Inside(r, x) /\ g \in On(x)
  <2>1. Inside(r, x)'  BY <1>1, <1>4, InsideOthers, Zenon
  <2> QED  BY <2>1, Zenon DEF Tallied
<1>5. ASSUME NEW s \in Spawned, On(x) = {s}, cwriter[x] = s, Told(r, x, s) PROVE Tallied(r, x)'
  BY <1>1, <1>5, ToldStep, Zenon
<1>6. ASSUME NEW s \in Spawned, On(x) = {s}, cwriter[x] = s, GivenUp(r, x, s) PROVE Tallied(r, x)'
  <2>1. CASE g = r  BY <1>1, <1>6, <2>1, GivenUpOwn, ZenonT(120)
  <2>2. CASE g = s  BY <1>6, <2>2, GivenUpOthers, Zenon
  <2> QED  BY <1>1, <1>6, <2>1, <2>2, ZenonT(120)
<1>7. CASE Recovering(r, x)  BY <1>1, <1>7, RecoveringStep, ZenonT(120)
<1>8. CASE at[r] = "answered" /\ metric[r] = sent[r].status
  <2>1. g # r  BY <1>1, <1>8, ByLabel, Zenon
  <2>2. at'[r] = at[r] /\ sent'[r] = sent[r] /\ metric'[r] = metric[r]
    BY <2>1, RequestStays, Zenon
  <2>3. at'[r] = "answered" /\ metric'[r] = sent'[r].status  BY <1>8, <2>2, Zenon
  <2> QED  BY <2>3, Zenon DEF Tallied
<1> QED
  BY <1>1, <1>2, <1>3, <1>4, <1>5, <1>6, <1>7, <1>8, ZenonT(120) DEF Tallied, Behind

\* The invariant about the recorded status is inductive.
LEMMA MetricStep ==
  ASSUME Gateway, MetricInv, [TimeoutNext]_timeoutVars
  PROVE  MetricInv'
<1>1. TimeoutInv /\ TimeoutTypeOK /\ Apart  BY Zenon DEF MetricInv, TimeoutInv
<1>2. TimeoutInv'  BY <1>1, TimeoutStep, Zenon
<1>3. /\ \A x \in Contexts, r \in Requests : owner[x] = r => Served(r, x)
      /\ \A x \in Contexts, r \in Requests : owner[x] = r /\ handlers[x] = Single => Tallied(r, x)
  BY Zenon DEF MetricInv, TimeoutInv
<1>4. ASSUME NEW y \in Contexts, Untouched(y), NEW q \in Requests, owner[y] = q, handlers'[y] = Single
      PROVE  Tallied(q, y)'
  <2>1. handlers[y] = Single  BY <1>4, Zenon DEF Untouched
  <2>2. Served(q, y) /\ Tallied(q, y)  BY <1>3, <1>4, <2>1, Zenon
  <2> QED  BY <1>1, <1>4, <2>2, FrameTallied, ZenonT(120)
<1>5. SUFFICES ASSUME NEW y \in Contexts, NEW q \in Requests, owner'[y] = q, handlers'[y] = Single
               PROVE  Tallied(q, y)'
  BY <1>2, Zenon DEF MetricInv
<1>6. ASSUME NEW r \in Requests, NEW x \in Contexts, ServeHTTP(r, x) PROVE Tallied(q, y)'
  <2>1. Before(r, x)' /\ owner'[x] = r /\ \A z \in Contexts \ {x} : owner'[z] = owner[z]
    BY <1>1, <1>6, ServeServes, Zenon
  <2>2. CASE y = x
    <3>1. q = r  BY <1>5, <2>1, <2>2, ZenonT(120)
    <3> QED  BY <2>1, <2>2, <3>1, Zenon DEF Tallied
  <2>3. CASE y # x
    <3>1. owner[y] = q  BY <1>5, <2>1, <2>3, Zenon
    <3>2. Untouched(y)  BY <1>1, <1>6, <2>3, ServeUntouched, ZenonT(120)
    <3> QED  BY <1>4, <1>5, <3>1, <3>2, ZenonT(120)
  <2> QED  BY <2>2, <2>3, Zenon
<1>7. ASSUME NEW g \in Goroutines, Steps(g) PROVE Tallied(q, y)'
  <2>1. at[g] # "idle"  BY <1>7, ByLabel, Zenon
  <2>2. /\ owner' = owner /\ handlers' = handlers
        /\ \A z \in Contexts : z # gin[g] => Untouched(z)
    <3>1. CASE at[g] = "start"
      <4>1. StartTimeout(g)  BY <1>7, <3>1, ByLabel, ZenonT(120)
      <4>2. owner' = owner /\ handlers' = handlers  BY <4>1, Zenon DEF StartTimeout
      <4> QED  BY <1>1, <4>1, <4>2, StartUntouched, ZenonT(120)
    <3>2. CASE at[g] # "start"
      <4>1. Plain /\ Shape(g)  BY <1>1, <1>7, <3>2, PlainStep, ZenonT(120)
      <4>2. owner' = owner /\ handlers' = handlers  BY <4>1, Zenon DEF Plain
      <4> QED  BY <1>1, <2>1, <4>1, <4>2, OrdinaryUntouched, ZenonT(120)
    <3> QED  BY <3>1, <3>2, Zenon
  <2>3. owner[y] = q /\ handlers[y] = Single  BY <1>5, <2>2, Zenon
  <2>4. CASE gin[g] = y
    <3>1. Tallied(q, y)  BY <1>3, <2>3, Zenon
    <3> QED  BY <1>1, <1>7, <2>3, <2>4, <3>1, TalliedStep, ZenonT(120)
  <2>5. CASE gin[g] # y
    <3>1. Untouched(y)  BY <2>2, <2>5, Zenon
    <3> QED  BY <1>4, <1>5, <2>3, <3>1, ZenonT(120)
  <2> QED  BY <2>4, <2>5, Zenon
<1>8. ASSUME UNCHANGED <<index, handlers, cwriter, gin, at, reg, job, child, orig, writers, sent, metric>>,
             owner' = owner
      PROVE  Tallied(q, y)'
  <2>1. Untouched(y) /\ owner[y] = q  BY <1>5, <1>8, StillUntouched, Zenon
  <2> QED  BY <1>4, <1>5, <2>1, Zenon
<1>9. ASSUME NEW s \in Spawned, Expire(s) PROVE Tallied(q, y)'
  BY <1>8, <1>9, Zenon DEF Expire, ginVars, locals, results
<1>10. ASSUME UNCHANGED timeoutVars PROVE Tallied(q, y)'
  BY <1>8, <1>10, Zenon DEF timeoutVars, ginVars, locals, results
<1>11. ASSUME NEW r \in Requests, Return(r) \/ Recover(r) PROVE Tallied(q, y)'
  BY <1>7, <1>11, Zenon DEF Steps, Goroutines
<1>12. ASSUME NEW g \in Goroutines, Middleware(g) \/ Handler(g) PROVE Tallied(q, y)'
  BY <1>7, <1>12, Zenon DEF Steps
<1> QED  BY <1>6, <1>9, <1>10, <1>11, <1>12, ZenonT(120) DEF TimeoutNext

\* On the routes with one timeout MetricsMiddleware records the status that the client gets,
\* although c.Writer is still the buffer then: what was written out has its status, and a
\* buffer that was given up holds the 504.
THEOREM StatusRecorded == Gateway /\ TimeoutSpec => []MetricIsSentStatus
<1>1. TimeoutInit => MetricInv
  <2>1. SUFFICES ASSUME TimeoutInit PROVE MetricInv  BY Zenon
  <2>2. TimeoutInv  BY <2>1, TimeoutInitially, Zenon
  <2>3. \A x \in Contexts, r \in Requests : owner[x] # r
    BY <2>1, TimeoutAssumption, Zenon DEF TimeoutInit
  <2> QED  BY <2>2, <2>3, Zenon DEF MetricInv
<1>2. MetricInv => MetricIsSentStatus
  <2>1. SUFFICES ASSUME MetricInv, NEW r \in Requests, at[r] = "answered",
                        \A i, j \in Timeouts(handlers[gin[r]]) : i = j
                 PROVE  metric[r] = sent[r].status
    BY Zenon DEF MetricIsSentStatus
  <2>2. TimeoutTypeOK /\ Apart /\ r \in Goroutines  BY <2>1, Zenon DEF MetricInv, TimeoutInv, Goroutines
  <2>3. PICK x \in Contexts : x = gin[r] /\ owner[x] = r /\ handlers[x] \in {Single, Double}
    <3>1. at[r] # "idle"  BY <2>1, Zenon
    <3>2. gin[r] \in Contexts /\ handlers[gin[r]] \in {Single, Double}  BY <2>2, <3>1, AtWork, ZenonT(120)
    <3>3. owner[gin[r]] = r  BY <2>2, <3>1, ZenonT(120) DEF Apart
    <3> QED  BY <3>2, <3>3, Zenon
  <2>4. handlers[x] # Double
    <3>1. 1 \in DOMAIN Double /\ 2 \in DOMAIN Double /\ 1 # 2  BY DEF Double
    <3>2. 1 \in Timeouts(Double) /\ 2 \in Timeouts(Double)  BY <3>1, RouteFacts, Zenon DEF Timeouts
    <3> QED  BY <2>1, <2>3, <3>1, <3>2, ZenonT(120)
  <2>5. Tallied(r, x)  BY <2>1, <2>3, <2>4, Zenon DEF MetricInv
  <2>6. ~Before(r, x) /\ ~Inside(r, x) /\ ~Recovering(r, x)
    BY <2>1, Zenon DEF Before, Inside, Recovering
  <2>7. ~Behind(r, x)
    <3>1. \A s \in Spawned : ~Told(r, x, s) /\ ~GivenUp(r, x, s)  BY <2>1, Zenon DEF Told, GivenUp
    <3> QED  BY <3>1, Zenon DEF Behind
  <2> QED  BY <2>5, <2>6, <2>7, Zenon DEF Tallied
<1>3. ASSUME Gateway PROVE TimeoutSpec => []MetricIsSentStatus
  <2>1. MetricInv /\ [TimeoutNext]_timeoutVars => MetricInv'  BY <1>3, MetricStep, Zenon
  <2> QED  BY <1>1, <1>2, <2>1, PTL DEF TimeoutSpec
<1> QED  BY <1>3, Zenon
=============================================================================
