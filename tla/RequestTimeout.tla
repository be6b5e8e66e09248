--------------------------- MODULE RequestTimeout ---------------------------
(***************************************************************************)
(* RequestTimeoutMiddleware and MetricsMiddleware (gateway/middleware.go)  *)
(* on gin.  The server's goroutine of a request walks the handlers chain   *)
(* with c.Next(); a timeout middleware in it starts a goroutine that walks *)
(* the rest, with c.Writer replaced by a buffered writer, and waits for it *)
(* to finish, to panic or for the deadline.  The AI routes have two of     *)
(* these middlewares, one inside the other.                                *)
(*                                                                         *)
(* c.index is shared by these goroutines without a lock, so c.index++ is a *)
(* load and a store.  gin keeps its contexts, with the real response       *)
(* writer inside them, in a pool; gin and net/http are external.           *)
(***************************************************************************)
EXTENDS Integers, Sequences

CONSTANTS
  Requests,     \* requests, and the server's goroutines that serve them
  Spawned,      \* goroutines that the middlewares may start: a bound of the model
  Contexts,     \* gin contexts, and the response writers inside them
  Chains,       \* the handlers of each route: "timeout" or "handler"
  TimeoutBody,  \* the body of the 504
  None,
  MayPanic,     \* do handlers panic?
  Recycle       \* does the pool hand a context out again?

ASSUME TimeoutAssumption ==
  /\ Requests \cap Spawned = {} /\ Contexts \cap Spawned = {}
  /\ None \notin Requests \cup Spawned \cup Contexts
  /\ TimeoutBody \notin Requests

VARIABLES
  index, handlers, cwriter,    \* of a gin context: c.index, c.handlers, c.Writer,
  ctx, owner,                  \* and c.Request
  pool,                        \* gin's free contexts
  writers,                     \* status and body so far, and closed
  done,                        \* request contexts whose deadline has passed
  outer,                       \* the contexts each one is derived from
  at, gin, reg,                \* of a goroutine: where it is, its c, and what it has
  job, child, orig,            \* loaded; its handler's request; its timeout's locals
  sent, metric                 \* the response to a request, the recorded status

ginVars == <<index, handlers, cwriter, ctx, owner, pool>>
ctxVars == <<done, outer>>
locals == <<gin, reg, job, child, orig>>
results == <<sent, metric>>
timeoutVars == <<ginVars, writers, ctxVars, at, locals, results>>

Goroutines == Requests \cup Spawned
Writers == Contexts \cup Spawned

\* newBufferedWriter; gin's writer starts the same way.
Fresh == [status |-> 200, body |-> <<>>, closed |-> FALSE]

TimeoutInit ==
  /\ index = [x \in Contexts |-> 0]
  /\ handlers = [x \in Contexts |-> <<>>]
  /\ cwriter = [x \in Contexts |-> x]
  /\ ctx = [x \in Contexts |-> None]
  /\ owner = [x \in Contexts |-> None]
  /\ pool = Contexts
  /\ writers = [w \in Writers |-> Fresh]
  /\ done = {}
  /\ outer = [s \in Spawned |-> {}]
  /\ at = [g \in Goroutines |-> "idle"]
  /\ gin = [g \in Goroutines |-> None]
  /\ reg = [g \in Goroutines |-> 0]
  /\ job = [g \in Goroutines |-> None]
  /\ child = [g \in Goroutines |-> None]
  /\ orig = [g \in Goroutines |-> None]
  /\ sent = [r \in Requests |-> Fresh]
  /\ metric = [r \in Requests |-> 0]

Goto(g, label) == at' = [at EXCEPT ![g] = label]

\* A closed buffer ignores the status; so does gin's writer once it has written.
WriteHeader(w, code) ==
  writers' = [writers EXCEPT ![w].status =
    IF writers[w].closed \/ (w \in Contexts /\ writers[w].body # <<>>) THEN @ ELSE code]

Write(w, data) ==
  writers' = [writers EXCEPT ![w].body = IF writers[w].closed THEN @ ELSE Append(@, data)]

\* gin takes a context from its pool and resets it for the request and its route.
ServeHTTP(r, x) ==
  /\ at[r] = "idle" /\ x \in pool
  /\ pool' = pool \ {x}
  /\ index' = [index EXCEPT ![x] = 0]
  /\ \E chain \in Chains : handlers' = [handlers EXCEPT ![x] = chain]
  /\ cwriter' = [cwriter EXCEPT ![x] = x]
  /\ ctx' = [ctx EXCEPT ![x] = None]
  /\ owner' = [owner EXCEPT ![x] = r]
  /\ writers' = [writers EXCEPT ![x] = Fresh]
  /\ gin' = [gin EXCEPT ![r] = x]
  /\ Goto(r, "load")
  /\ UNCHANGED <<ctxVars, reg, job, child, orig, results>>

\* c.Next: c.index++, and run that handler; after the last one a goroutine of
\* the middleware closes its channel finished.
LoadIndex(g) ==
  /\ at[g] = "load"
  /\ reg' = [reg EXCEPT ![g] = index[gin[g]]]
  /\ Goto(g, "store")
  /\ UNCHANGED <<ginVars, writers, ctxVars, gin, job, child, orig, results>>

\* Mutant: finished is sent to, not closed, and somebody has to receive.
StoreIndexSending(g) ==
  LET i == reg[g] + 1
      chain == handlers[gin[g]]
  IN /\ at[g] = "store"
     /\ index' = [index EXCEPT ![gin[g]] = i]
     /\ reg' = [reg EXCEPT ![g] = 0]
     /\ IF i > Len(chain)
          THEN /\ g \in Spawned => \E p \in Goroutines : at[p] = "select" /\ child[p] = g
               /\ Goto(g, IF g \in Requests THEN "return" ELSE "finished") /\ UNCHANGED job
          ELSE IF chain[i] = "handler"
          THEN Goto(g, "head") /\ job' = [job EXCEPT ![g] = owner[gin[g]]]
          ELSE Goto(g, "start") /\ UNCHANGED job
     /\ UNCHANGED <<handlers, cwriter, ctx, owner, pool, writers, ctxVars, gin, child, orig,
                    results>>

StoreIndex(g) ==
  LET i == reg[g] + 1
      chain == handlers[gin[g]]
  IN /\ at[g] = "store"
     /\ index' = [index EXCEPT ![gin[g]] = i]
     /\ reg' = [reg EXCEPT ![g] = 0]
     /\ IF i > Len(chain)
          THEN Goto(g, IF g \in Requests THEN "return" ELSE "finished") /\ UNCHANGED job
          ELSE IF chain[i] = "handler"
          THEN Goto(g, "head") /\ job' = [job EXCEPT ![g] = owner[gin[g]]]
          ELSE Goto(g, "start") /\ UNCHANGED job
     /\ UNCHANGED <<handlers, cwriter, ctx, owner, pool, writers, ctxVars, gin, child, orig,
                    results>>

\* RequestTimeoutMiddleware up to the select.  The new context is over when one
\* it is derived from is; a later deadline than theirs makes no difference.
StartTimeout(g) ==
  LET x == gin[g]
      above == IF ctx[x] = None THEN {} ELSE outer[ctx[x]] \cup {ctx[x]}
  IN \E s \in Spawned :
     /\ at[g] = "start" /\ at[s] = "idle"
     /\ \A t \in Spawned : t < s => at[t] # "idle"
     /\ outer' = [outer EXCEPT ![s] = above]
     /\ done' = IF above \cap done # {} THEN done \cup {s} ELSE done
     /\ ctx' = [ctx EXCEPT ![x] = s]
     /\ orig' = [orig EXCEPT ![g] = cwriter[x]]
     /\ writers' = [writers EXCEPT ![s] = Fresh]
     /\ cwriter' = [cwriter EXCEPT ![x] = s]
     /\ child' = [child EXCEPT ![g] = s]
     /\ gin' = [gin EXCEPT ![s] = x]
     /\ at' = [at EXCEPT ![g] = "select", ![s] = "load"]
     /\ UNCHANGED <<index, handlers, owner, pool, reg, job, results>>

\* A deadline passes, or the client goes away.
Expire(s) ==
  /\ at[s] # "idle" /\ s \notin done
  /\ done' = done \cup {s} \cup {t \in Spawned : s \in outer[t]}
  /\ UNCHANGED <<ginVars, writers, outer, at, locals, results>>

Finished(g) ==
  /\ at[g] = "select" /\ at[child[g]] = "finished"
  /\ Goto(g, "flush")
  /\ UNCHANGED <<ginVars, writers, ctxVars, locals, results>>

\* The middleware of g returns, with its locals.
Leave(g) ==
  /\ Goto(g, "load")
  /\ child' = [child EXCEPT ![g] = None]
  /\ orig' = [orig EXCEPT ![g] = None]
  /\ UNCHANGED <<gin, reg, job>>

\* flushTo: the status, then the body, of the buffer go to the saved writer.
FlushHead(g) ==
  /\ at[g] = "flush"
  /\ WriteHeader(orig[g], writers[child[g]].status)
  /\ Goto(g, "flushBody")
  /\ UNCHANGED <<ginVars, ctxVars, locals, results>>

FlushBody(g) ==
  LET w == orig[g]
  IN /\ at[g] = "flushBody"
     /\ writers' = [writers EXCEPT ![w].body =
          IF writers[w].closed THEN @ ELSE @ \o writers[child[g]].body]
     /\ Leave(g)
     /\ UNCHANGED <<ginVars, ctxVars, results>>

\* A panic leaves a goroutine of the middleware waiting to send it, and takes
\* the server's goroutine to gin's Recovery.
Panic(g) == IF g \in Requests THEN "recover" ELSE "panicked"

PanicReceived(g) ==
  /\ at[g] = "select" /\ at[child[g]] = "panicked"
  /\ cwriter' = [cwriter EXCEPT ![gin[g]] = orig[g]]
  /\ at' = [at EXCEPT ![g] = Panic(g), ![child[g]] = "gone"]
  /\ UNCHANGED <<index, handlers, ctx, owner, pool, writers, ctxVars, locals, results>>

\* Mutants: the buffer stays open; the handler is waited for; the original
\* writer is restored.
DeadlineLeftOpen(g) ==
  /\ at[g] = "select" /\ child[g] \in done
  /\ writers' = [writers EXCEPT ![child[g]].status = 504]
  /\ Goto(g, "timeout")
  /\ UNCHANGED <<ginVars, ctxVars, locals, results>>

DeadlineWaiting(g) ==
  /\ at[g] = "select" /\ child[g] \in done /\ at[child[g]] \in {"finished", "panicked"}
  /\ writers' = [writers EXCEPT ![child[g]] = [status |-> 504, body |-> @.body, closed |-> TRUE]]
  /\ Goto(g, "timeout")
  /\ UNCHANGED <<ginVars, ctxVars, locals, results>>

DeadlineRestoring(g) ==
  /\ at[g] = "select" /\ child[g] \in done
  /\ writers' = [writers EXCEPT ![child[g]] = [status |-> 504, body |-> @.body, closed |-> TRUE]]
  /\ cwriter' = [cwriter EXCEPT ![gin[g]] = orig[g]]
  /\ Goto(g, "timeout")
  /\ UNCHANGED <<index, handlers, ctx, owner, pool, ctxVars, locals, results>>

\* ctx.Done(): the buffer is closed, whether or not the handler is ready too.
DeadlineExceeded(g) ==
  /\ at[g] = "select" /\ child[g] \in done
  /\ writers' = [writers EXCEPT ![child[g]] = [status |-> 504, body |-> @.body, closed |-> TRUE]]
  /\ Goto(g, "timeout")
  /\ UNCHANGED <<ginVars, ctxVars, locals, results>>

TimeoutHead(g) ==
  /\ at[g] = "timeout"
  /\ WriteHeader(orig[g], 504)
  /\ Goto(g, "timeoutBody")
  /\ UNCHANGED <<ginVars, ctxVars, locals, results>>

\* The middleware returns and does not abort the chain.
WriteTimeoutBody(g) ==
  /\ at[g] = "timeoutBody"
  /\ Write(orig[g], TimeoutBody)
  /\ Leave(g)
  /\ UNCHANGED <<ginVars, ctxVars, results>>

\* A handler answers with c.JSON: a status and a body for whatever c.Writer is.
HandlerHead(g) ==
  /\ at[g] = "head"
  /\ WriteHeader(cwriter[gin[g]], 200)
  /\ Goto(g, "body")
  /\ UNCHANGED <<ginVars, ctxVars, locals, results>>

HandlerBody(g) ==
  /\ at[g] = "body"
  /\ Write(cwriter[gin[g]], job[g])
  /\ Goto(g, "load")
  /\ job' = [job EXCEPT ![g] = None]
  /\ UNCHANGED <<ginVars, ctxVars, gin, reg, child, orig, results>>

HandlerPanic(g) ==
  /\ MayPanic
  /\ at[g] \in {"head", "body"}
  /\ Goto(g, Panic(g))
  /\ job' = [job EXCEPT ![g] = None]
  /\ UNCHANGED <<ginVars, writers, ctxVars, gin, reg, child, orig, results>>

\* MetricsMiddleware's defer and the end of ServeHTTP.
Return(r) ==
  LET x == gin[r]
  IN /\ at[r] = "return"
     /\ metric' = [metric EXCEPT ![r] = writers[cwriter[x]].status]
     /\ sent' = [sent EXCEPT ![r] = writers[x]]
     /\ pool' = IF Recycle THEN pool \cup {x} ELSE pool
     /\ Goto(r, "answered")
     /\ UNCHANGED <<index, handlers, cwriter, ctx, owner, writers, ctxVars, locals>>

\* The same after a panic: Recovery answers 500 through c.Writer.
Recover(r) ==
  LET x == gin[r]
      code == writers[cwriter[x]].status
  IN /\ at[r] = "recover"
     /\ metric' = [metric EXCEPT ![r] = IF code < 500 THEN 500 ELSE code]
     /\ WriteHeader(cwriter[x], 500)
     /\ sent' = [sent EXCEPT ![r] = writers'[x]]
     /\ pool' = IF Recycle THEN pool \cup {x} ELSE pool
     /\ Goto(r, "answered")
     /\ UNCHANGED <<index, handlers, cwriter, ctx, owner, ctxVars, locals>>

Middleware(g) ==
  \/ LoadIndex(g) \/ StoreIndex(g) \/ StartTimeout(g)
  \/ Finished(g) \/ PanicReceived(g) \/ DeadlineExceeded(g)
  \/ FlushHead(g) \/ FlushBody(g) \/ TimeoutHead(g) \/ WriteTimeoutBody(g)

Handler(g) == HandlerHead(g) \/ HandlerBody(g) \/ HandlerPanic(g)

TimeoutNext ==
  \/ \E r \in Requests : \/ \E x \in Contexts : ServeHTTP(r, x)
                         \/ Return(r) \/ Recover(r)
  \/ \E g \in Goroutines : Middleware(g) \/ Handler(g)
  \/ \E s \in Spawned : Expire(s)

TimeoutSpec == TimeoutInit /\ [][TimeoutNext]_timeoutVars

\* Goroutines are scheduled and deadlines pass.  Handlers may hang, but one on the
\* server's own goroutine started after the deadline, and its calls fail at once.
TimeoutFairness ==
  /\ \A r \in Requests : WF_timeoutVars(Middleware(r) \/ Handler(r) \/ Return(r) \/ Recover(r))
  /\ \A s \in Spawned : WF_timeoutVars(Middleware(s)) /\ WF_timeoutVars(Expire(s))
TimeoutFairSpec == TimeoutSpec /\ TimeoutFairness

\* Every call that a handler makes ends with the request's context.
HandlersReturn == \A s \in Spawned : WF_timeoutVars(Handler(s))
-----------------------------------------------------------------------------
\* A client gets the handler's output, the timeout message or a 500 without a
\* body: whole, with the status that goes with it, and never a mixture, whatever
\* the abandoned handler does meanwhile.
WholeResponse ==
  \A r \in Requests : at[r] = "answered"
    => <<sent[r].status, sent[r].body>> \in
         {<<200, <<r>> >>, <<504, <<TimeoutBody>> >>, <<500, <<>> >>}

\* RequestTimeoutMiddleware "avoids concurrent response writes": nothing that
\* the handler of one request writes appears in the response to another.
OwnOutputOnly ==
  \A r, q \in Requests : \A i \in DOMAIN sent[r].body :
    at[r] = "answered" /\ sent[r].body[i] = q => q = r

Timeouts(chain) == {i \in DOMAIN chain : chain[i] = "timeout"}

\* The status MetricsMiddleware records is the one the client gets, on the routes
\* with one timeout.
MetricIsSentStatus ==
  \A r \in Requests :
    at[r] = "answered" /\ (\A i, j \in Timeouts(handlers[gin[r]]) : i = j)
      => metric[r] = sent[r].status

\* Every request is answered, even if its handler never returns.
EveryRequestAnswered ==
  \A r \in Requests : (at[r] # "idle") ~> (at[r] = "answered")

\* If handlers return, the goroutines that the middleware started come to their end,
\* even if nobody waits for them any more: time and again none is running.  The end of
\* one whose handler panics is the send on panicChan: after the deadline nobody
\* receives, and it stays there.
GoroutinesEnd ==
  HandlersReturn
    => []<>(\A s \in Spawned : at[s] \in {"idle", "finished", "gone", "panicked"})
=============================================================================
