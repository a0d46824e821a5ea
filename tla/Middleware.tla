----------------------------- MODULE Middleware -----------------------------
(***************************************************************************)
(* One HTTP request through a stack of internal/middleware, the way Gin    *)
(* runs it.  A stack built by MiddlewareBuilder can be installed in two    *)
(* ways: each middleware becomes a Gin handler of its own (ToGinHandler),  *)
(* or BuildChain makes one handler of all of them.  Gin keeps one index    *)
(* into its list of handlers per request; Next and the return of a handler *)
(* both advance it, so a handler that returns without Next does not stop   *)
(* the request, only Abort does.  The application is the last handler.     *)
(*                                                                         *)
(* What is written to the client is abstracted to who wrote a body; an id  *)
(* to where it comes from.  The verdict of the rate limiter is arbitrary   *)
(* here: module RateLimiter models how it is reached.                      *)
(***************************************************************************)
EXTENDS Integers, Sequences, SequencesExt

CONSTANT Stacks    \* the stacks a builder may have been asked for

Kinds == {"requestID", "recovery", "errors", "logging", "rateLimit", "custom"}

ASSUME StacksAssumption ==
  \A s \in Stacks : /\ s \in Seq(Kinds)
                    /\ s # <<>>
                    /\ IsInjective(s)    \* each Add... was called at most once

(* builder.go: the order all three prepared stacks have. *)
DefaultStack == <<"requestID", "recovery", "errors", "logging", "rateLimit">>

(* Gin's index is an int8; Abort sets it to this, far behind any handler. *)
AbortIndex == 63

VARIABLES
  install,   \* "handlers" or "chain"
  stack,     \* the middleware in front of the application
  skip,      \* is the request's path one of SkipPaths?
  hasID,     \* did the client send an X-Request-ID?
  auditor,   \* LoggingMiddleware's audit logger: "nil", "database", or one that
             \* stores nothing ("noop": the no-op logger, a nil database)
  index,     \* Gin's index: the handler its loop runs next
  link,      \* chainHTTPContext.index: the next middleware of the chain
  waiting,   \* positions in stack whose Handle waits in Next, outermost first
  at,        \* position whose Handle runs
  pc,        \* where the goroutine of the request is
  err,       \* the error the last Handle returned
  bodies,    \* who wrote a body to the client, in order
  sent,      \* the status the client received, 0 before the first body
  header,    \* did the response carry X-Request-ID?
  ctxID,     \* the key "requestID" of the context
  logID,     \* requestID as LoggingMiddleware read it before Next
  entry,     \* the record logged after Next, from which the audit entry is made
  audit,     \* the goroutine that stores it
  panics     \* positions that panicked (the application is behind the stack)

request == <<install, stack, skip, hasID, auditor>>
reply == <<bodies, sent>>
control == <<index, link, waiting, at, pc, err>>
logs == <<logID, entry, audit>>
vars == <<request, control, reply, header, ctxID, logs, panics>>

IDs == {"none", "client", "generated"}
Auditors == {"nil", "noop", "database"}
NoEntry == [id |-> "none", status |-> 0, answered |-> FALSE]
Writers == Kinds \cup {"app", "adapter"}

N == IF install = "chain" THEN 2 ELSE Len(stack) + 1
AppPosition == Len(stack) + 1

TypeOK ==
  /\ install \in {"handlers", "chain"} /\ stack \in Stacks
  /\ skip \in BOOLEAN /\ hasID \in BOOLEAN /\ auditor \in Auditors
  /\ index \in 1 .. AbortIndex + AppPosition
  /\ link \in 2 .. AppPosition
  /\ waiting \in Seq(1 .. Len(stack)) /\ at \in 1 .. Len(stack)
  \* the Handles in Next are nested in the order of the stack
  /\ \A i, j \in 1 .. Len(waiting) : i < j => waiting[i] < waiting[j]
  /\ pc \in {"loop", "handle", "resume", "adapter", "unwind", "done", "crashed"}
  /\ err \in {"none", "incompatible"}
  /\ bodies \in Seq(Writers)
  /\ sent \in {0, 200, 403, 500} /\ (sent = 0 <=> bodies = <<>>)
  /\ header \in BOOLEAN /\ ctxID \in IDs /\ logID \in IDs
  /\ entry \in [id : IDs, status : {0, 200, 500}, answered : BOOLEAN]
  /\ audit \in {"none", "pending", "stored", "skipped", "lost"}
  /\ panics \in Seq(1 .. AppPosition)

Init ==
  /\ install \in {"handlers", "chain"} /\ stack \in Stacks
  /\ skip \in BOOLEAN /\ hasID \in BOOLEAN /\ auditor \in Auditors
  /\ index = 1 /\ link = 2 /\ waiting = <<>> /\ at = 1
  /\ pc = "loop" /\ err = "none"
  /\ bodies = <<>> /\ sent = 0 /\ header = FALSE
  /\ ctxID = "none" /\ logID = "none" /\ entry = NoEntry /\ audit = "none"
  /\ panics = <<>>

-----------------------------------------------------------------------------
(* What every Handle does with its context. *)

(* The first body fixes the status; later ones are appended to it. *)
Write(who, status) ==
  /\ bodies' = Append(bodies, who)
  /\ sent' = IF bodies = <<>> THEN status ELSE sent

(* GinHTTPResponse.JSON renders with StatusOK whatever SetStatus asked for. *)
WriteJSON(who) == Write(who, 200)

(* Mutant: the chain does not advance its index. *)
CallNextStuck ==
  /\ waiting' = Append(waiting, at)
  /\ \/ /\ install = "chain" /\ link <= Len(stack)
        /\ pc' = "handle" /\ at' = link
        /\ UNCHANGED <<link, index>>
     \/ /\ ~(install = "chain" /\ link <= Len(stack))
        /\ pc' = "loop" /\ index' = index + 1
        /\ UNCHANGED <<at, link>>
  /\ UNCHANGED err

(* chainHTTPContext.Next enters the next middleware of the chain and, behind
   the last one, is GinHTTPContext.Next; that one runs Gin's loop. *)
CallNext ==
  /\ waiting' = Append(waiting, at)
  /\ \/ /\ install = "chain" /\ link <= Len(stack)
        /\ pc' = "handle" /\ at' = link /\ link' = link + 1
        /\ UNCHANGED index
     \/ /\ ~(install = "chain" /\ link <= Len(stack))
        /\ pc' = "loop" /\ index' = index + 1
        /\ UNCHANGED <<at, link>>
  /\ UNCHANGED err

(* Handle returns e to the chain's middleware that called it (w holds the
   Handles around it) or, as a Gin handler, to ToGinHandler. *)
Return(w, e) ==
  /\ err' = e
  /\ \/ /\ install = "chain" /\ w # <<>>
        /\ pc' = "resume" /\ at' = Last(w) /\ waiting' = Front(w)
     \/ /\ ~(install = "chain" /\ w # <<>>)
        /\ pc' = "adapter" /\ waiting' = w
        /\ UNCHANGED at
  /\ UNCHANGED <<index, link>>

Panic(position) ==
  /\ panics' = Append(panics, position)
  /\ pc' = "unwind"
  /\ UNCHANGED <<index, link, waiting, at, err>>

-----------------------------------------------------------------------------
(* Gin's loop over the handlers, and the application at its end. *)

RunHandler ==
  /\ pc = "loop" /\ index < N
  /\ pc' = "handle" /\ at' = IF install = "chain" THEN 1 ELSE index
  /\ UNCHANGED <<request, index, link, waiting, err, reply, header, ctxID, logs, panics>>

AppAnswers ==
  /\ pc = "loop" /\ index = N
  /\ Write("app", 200)
  /\ index' = index + 1
  /\ UNCHANGED <<request, link, waiting, at, pc, err, header, ctxID, logs, panics>>

AppPanics ==
  /\ pc = "loop" /\ index = N
  /\ Write("app", 200) \/ UNCHANGED reply
  /\ Panic(AppPosition)
  /\ UNCHANGED <<request, header, ctxID, logs>>

(* The loop is over: the Handle that called Next goes on, with no error. *)
LoopEnds ==
  /\ pc = "loop" /\ index > N
  /\ \/ /\ waiting = <<>>
        /\ pc' = "done"
        /\ UNCHANGED <<waiting, at, err>>
     \/ /\ waiting # <<>>
        /\ pc' = "resume" /\ at' = Last(waiting) /\ waiting' = Front(waiting)
        /\ err' = "none"
  /\ UNCHANGED <<request, index, link, reply, header, ctxID, logs, panics>>

ToGinHandler ==
  /\ pc = "adapter"
  /\ pc' = "loop" /\ err' = "none"
  /\ \/ /\ err = "none"
        /\ index' = index + 1
        /\ UNCHANGED reply
     \/ /\ err # "none"
        /\ index' = AbortIndex + 1
        /\ Write("adapter", 500)
  /\ UNCHANGED <<request, link, waiting, at, header, ctxID, logs, panics>>

-----------------------------------------------------------------------------
(* The middleware up to its call of Next. *)

Handles(kind) == pc = "handle" /\ stack[at] = kind

(* Mutant: a generated id is kept in the context only. *)
RequestIDUntold ==
  /\ Handles("requestID")
  /\ ctxID' = IF hasID THEN "client" ELSE "generated"
  /\ CallNext
  /\ UNCHANGED <<request, reply, header, logs, panics>>

(* A header set after the first body is not sent. *)
RequestID ==
  /\ Handles("requestID")
  /\ ctxID' = IF hasID THEN "client" ELSE "generated"
  /\ header' = (header \/ (~hasID /\ bodies = <<>>))
  /\ CallNext
  /\ UNCHANGED <<request, reply, logs, panics>>

Recovery ==
  /\ Handles("recovery")
  /\ CallNext
  /\ UNCHANGED <<request, reply, header, ctxID, logs, panics>>

Errors ==
  /\ Handles("errors")
  /\ CallNext
  /\ UNCHANGED <<request, reply, header, ctxID, logs, panics>>

(* Mutant: the audit entry is made before Next. *)
LoggingEarly ==
  /\ Handles("logging")
  /\ entry' = IF skip THEN entry
              ELSE [id |-> ctxID, status |-> 200, answered |-> bodies # <<>>]
  /\ audit' = IF skip \/ auditor = "nil" THEN audit ELSE "pending"
  /\ CallNext
  /\ UNCHANGED <<request, reply, header, ctxID, logID, panics>>

Logging ==
  /\ Handles("logging")
  /\ logID' = IF skip THEN logID ELSE ctxID
  /\ CallNext
  /\ UNCHANGED <<request, reply, header, ctxID, entry, audit, panics>>

(* Skipped, allowed, or the limiter failed: the request goes on. *)
RateLimitPasses ==
  /\ Handles("rateLimit")
  /\ CallNext
  /\ UNCHANGED <<request, reply, header, ctxID, logs, panics>>

RateLimitRefuses ==
  /\ Handles("rateLimit") /\ ~skip
  /\ WriteJSON("rateLimit")
  /\ Return(waiting, "none")
  /\ UNCHANGED <<request, header, ctxID, logs, panics>>

(* GinMiddlewareAdapter knows only GinHTTPContext: in a chain it fails. *)
CustomInChain ==
  /\ Handles("custom") /\ install = "chain"
  /\ Return(waiting, "incompatible")
  /\ UNCHANGED <<request, reply, header, ctxID, logs, panics>>

(* Otherwise the wrapped Gin handler returns, calls Next itself, aborts with
   an answer of its own, or panics. *)
CustomRuns ==
  /\ Handles("custom") /\ install = "handlers"
  /\ \/ Return(waiting, "none") /\ UNCHANGED <<reply, panics>>
     \/ CallNext /\ UNCHANGED <<reply, panics>>
     \/ Panic(at) /\ UNCHANGED reply
  /\ UNCHANGED <<request, header, ctxID, logs>>

CustomAborts ==
  /\ Handles("custom") /\ install = "handlers"
  /\ index' = AbortIndex
  /\ Write("custom", 403)
  /\ pc' = "adapter" /\ err' = "none"
  /\ UNCHANGED <<request, link, waiting, at, header, ctxID, logs, panics>>

-----------------------------------------------------------------------------
(* The middleware after Next returned. *)

Resumes(kind) == pc = "resume" /\ stack[at] = kind

ReturnsErr ==
  /\ pc = "resume" /\ stack[at] \in {"requestID", "recovery", "rateLimit", "custom"}
  /\ Return(waiting, err)
  /\ UNCHANGED <<request, reply, header, ctxID, logs, panics>>

(* Mutant: the error handler answers without an error. *)
ErrorsReturnsAlways ==
  /\ Resumes("errors")
  /\ WriteJSON("errors")
  /\ Return(waiting, "none")
  /\ UNCHANGED <<request, header, ctxID, logs, panics>>

ErrorsReturns ==
  /\ Resumes("errors")
  /\ \/ err = "none" /\ UNCHANGED reply
     \/ err # "none" /\ WriteJSON("errors")
  /\ Return(waiting, "none")
  /\ UNCHANGED <<request, header, ctxID, logs, panics>>

(* Mutant: the error is logged and not passed on. *)
LoggingReturnsNil ==
  /\ Resumes("logging")
  /\ \/ skip /\ UNCHANGED <<entry, audit>>
     \/ /\ ~skip
        /\ entry' = [id |-> logID, status |-> IF err = "none" THEN 200 ELSE 500,
                     answered |-> bodies # <<>>]
        /\ audit' = IF auditor = "nil" THEN audit ELSE "pending"
  /\ Return(waiting, "none")
  /\ UNCHANGED <<request, reply, header, ctxID, logID, panics>>

LoggingReturns ==
  /\ Resumes("logging")
  /\ \/ skip /\ UNCHANGED <<entry, audit>>
     \/ /\ ~skip
        /\ entry' = [id |-> logID, status |-> IF err = "none" THEN 200 ELSE 500,
                     answered |-> bodies # <<>>]
        /\ audit' = IF auditor = "nil" THEN audit ELSE "pending"
  /\ Return(waiting, err)
  /\ UNCHANGED <<request, reply, header, ctxID, logID, panics>>

(* The goroutine of the entry.  The row it stores has the entry's status and
   time, but no column for its id; an error of the database is only logged
   (with the id), and without a database nothing is stored and no error told. *)
LogRequest ==
  /\ audit = "pending"
  /\ audit' \in IF auditor = "database" THEN {"stored", "lost"} ELSE {"skipped"}
  /\ UNCHANGED <<request, control, reply, header, ctxID, logID, entry, panics>>

-----------------------------------------------------------------------------
(* A panic unwinds the Handles in Next up to the innermost recovery, whose
   deferred function answers; its Handle then returns nil.  Gin's index stays
   where the panic left it. *)

(* Mutant: recover() outside of a deferred function recovers nothing. *)
RecoversNothing(i) == FALSE

Recovers(i) == stack[waiting[i]] = "recovery"

Recover ==
  /\ pc = "unwind"
  /\ \E i \in 1 .. Len(waiting) :
       /\ Recovers(i)
       /\ \A j \in i + 1 .. Len(waiting) : ~Recovers(j)
       /\ WriteJSON("recovery")
       /\ Return(SubSeq(waiting, 1, i - 1), "none")
  /\ UNCHANGED <<request, header, ctxID, logs, panics>>

(* Nobody recovers: net/http drops the connection. *)
Crash ==
  /\ pc = "unwind"
  /\ \A i \in 1 .. Len(waiting) : ~Recovers(i)
  /\ pc' = "crashed"
  /\ UNCHANGED <<request, index, link, waiting, at, err, reply, header, ctxID, logs, panics>>

Gin == RunHandler \/ AppAnswers \/ AppPanics \/ LoopEnds \/ ToGinHandler
Handle == \/ RequestID \/ Recovery \/ Errors \/ Logging
          \/ RateLimitPasses \/ RateLimitRefuses
          \/ CustomInChain \/ CustomRuns \/ CustomAborts
Resume == ReturnsErr \/ ErrorsReturns \/ LoggingReturns

Next == Gin \/ Handle \/ Resume \/ LogRequest \/ Recover \/ Crash

Spec == Init /\ [][Next]_vars

-----------------------------------------------------------------------------
(* Properties. *)

Over == pc \in {"done", "crashed"}
Wrote(who) == Contains(bodies, who)
Before(kind, other) ==
  \E i, j \in 1 .. Len(stack) : i < j /\ stack[i] = kind /\ stack[j] = other

(* A middleware returns without Next: the limiter refused, or a wrapped Gin
   handler sits in a chain. *)
Stopped ==
  Wrote("rateLimit") \/ (install = "chain" /\ Contains(stack, "custom"))

(* However Gin's loop and the chain hand the request back and forth, a request
   that nothing stops is answered by exactly one body, the application's or
   that of the custom handler that aborted it, and no request runs the
   application twice (builder.go:200, gin_adapter.go:109). *)
AnsweredOnce ==
  /\ pc = "done" /\ panics = <<>> /\ ~Stopped => bodies \in {<<"app">>, <<"custom">>}
  /\ \A i, j \in 1 .. Len(bodies) : bodies[i] = "app" /\ bodies[j] = "app" => i = j

(* The first panic of a request that no middleware stopped drops the client's
   connection only if no recovery stands in front of the handler that panicked
   (error_handler.go:262). *)
PanicsAreRecovered ==
  pc = "crashed" /\ Len(panics) = 1 /\ ~Stopped =>
    \A j \in 1 .. panics[1] - 1 : stack[j] # "recovery"

(* Did a middleware in front of the logging one end the request there?  As
   Gin handlers only Abort does; in a chain every Handle that does not call
   Next. *)
EndedBeforeLogging ==
  \/ Before("custom", "logging") /\ Wrote("custom")
  \/ install = "chain" /\ Before("custom", "logging")
  \/ install = "chain" /\ Before("rateLimit", "logging") /\ Wrote("rateLimit")

(* Every request that reaches the logging middleware and ends without a panic
   leaves one record in the log, made only when the answer has been written or
   an error has come back, and hands it to the audit logger if there is one;
   the row may still be lost (logging.go:114-173). *)
AuditedAfterAnswer ==
  /\ entry # NoEntry => entry.answered \/ entry.status = 500
  /\ /\ pc = "done" /\ ~skip /\ panics = <<>>
     /\ Contains(stack, "logging") /\ ~EndedBeforeLogging
     => entry # NoEntry /\ (auditor # "nil" => audit # "none")

(* The record that ends a request in the log ("Request completed" or "Request
   failed") names, behind requestID, an id the client can quote: its own or the
   one in the response's header; only a request that was stopped, or whose
   handler panicked, may have an answer without it (request_id.go:57-66,
   logging.go:155).  It is the log that links an id to a request: the audit row
   has none. *)
IdIsKnown ==
  /\ entry # NoEntry /\ Before("requestID", "logging") => entry.id # "none"
  /\ entry.id = "client" => hasID
  /\ entry.id = "generated" => header \/ Stopped \/ panics # <<>>

(* When the record says 500, the client was told of the error, by the
   error middleware or by ToGinHandler (logging.go:141, error_handler.go:363,
   gin_adapter.go:118). *)
FailureIsTold ==
  Over /\ entry.status = 500 => Wrote("errors") \/ Wrote("adapter")

(* middleware_test.go:357 "blocks request when over limit": what the limiter
   refused does not reach the application.  The code does not keep it. *)
RefusedIsNotServed == Wrote("rateLimit") => ~Wrote("app")

=============================================================================
