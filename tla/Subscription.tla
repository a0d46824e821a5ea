---------------------------- MODULE Subscription ----------------------------
(***************************************************************************)
(* One GraphQL subscription (watchPods, watchAllPods or streamPodLogs) of  *)
(* graph/schema.resolvers.go, with the service call that feeds it          *)
(* (internal/services/pod_service_impl.go).                                *)
(*                                                                         *)
(*   cluster --> producer --> serviceChan --> converter --> eventsChan     *)
(*           (phand)                        (chand)            --> client  *)
(*                                                                         *)
(* The resolver starts two goroutines.  The PRODUCER runs the service call *)
(* (Watch or StreamLogs), which sends to serviceChan; its deferred function*)
(* closes eventsChan and logs the end of the subscription.  The CONVERTER  *)
(* ranges over serviceChan, converts, sends to eventsChan, and closes      *)
(* serviceChan when it returns.  Both give up when the context is done.    *)
(* Both channels are buffered; the code's capacity, 100, is Cap.           *)
(*                                                                         *)
(* The client side (gqlgen's field stream and websocket transport) and the *)
(* cluster's stream of events or log lines are external.                   *)
(***************************************************************************)
EXTENDS Naturals, Sequences

CONSTANTS
    Cap,        \* capacity of eventsChan and serviceChan (100 in the code)
    MaxSeen     \* bound: objects the cluster's stream produces

ASSUME CapAssumption == Cap \in Nat \ {0}
ASSUME MaxSeenAssumption == MaxSeen \in Nat

VARIABLES
    op,             \* which of the three subscription fields is resolved
    phase,          \* the resolver call: "requested", "rejected", "running"
    ctxDone,        \* ctx.Done() is closed
    srcOpen,        \* the cluster's stream has not ended
    seen,           \* objects taken from the cluster's stream so far
    received,       \* history: the items the service made of them
    ppc, phand,     \* producer: where it is, the item it is sending
    serviceBuf, serviceClosed,
    cpc, chand,     \* converter: where it is, the item it is sending
    eventsBuf, eventsClosed,
    client,         \* "reading" or "stopped"
    delivered,      \* history: the items the client read
    audit,          \* LogSubscription rows of this subscription that were stored
    panicked        \* the process died of a panic in a goroutine

producerVars  == <<ppc, phand>>
converterVars == <<cpc, chand>>
serviceChan   == <<serviceBuf, serviceClosed>>
eventsChan    == <<eventsBuf, eventsClosed>>
clientVars    == <<client, delivered>>
sourceVars    == <<srcOpen, seen, received>>
requestVars   == <<op, phase>>
vars == <<requestVars, ctxDone, sourceVars, producerVars, serviceChan,
          converterVars, eventsChan, clientVars, audit, panicked>>

Ops == {"watchPods", "watchAllPods", "streamPodLogs"}
Watches == {"watchPods", "watchAllPods"}

(* Where the producer is: in the calls that open the stream, waiting for   *)
(* the stream, between Scan and its check of the context (logs only), in   *)
(* the select that sends, in the deferred close, in the deferred audit.    *)
ProducerPCs == {"idle", "setup", "recv", "check", "send", "close", "audit", "done"}
ConverterPCs == {"idle", "recv", "send", "close", "done"}

Items == Nat

Init ==
    /\ op \in Ops
    /\ phase = "requested"
    /\ ctxDone = FALSE
    /\ srcOpen = TRUE /\ seen = 0 /\ received = <<>>
    /\ ppc = "idle" /\ phand = <<>>
    /\ serviceBuf = <<>> /\ serviceClosed = FALSE
    /\ cpc = "idle" /\ chand = <<>>
    /\ eventsBuf = <<>> /\ eventsClosed = FALSE
    /\ client = "reading" /\ delivered = <<>>
    /\ audit = <<>>
    /\ panicked = FALSE

-----------------------------------------------------------------------------
(* LogSubscription: the row is stored, or lost (the insert failed, there is*)
(* no database, the audit log is switched off) and nobody is told.         *)
LogSubscription(row) == audit' \in {Append(audit, row), audit}

(* The resolver call.                                                      *)

(* ValidateNamespace or ValidatePodName refuses the arguments.  The        *)
(* resolver records the refusal as a subscription that stopped.            *)
(* watchAllPods takes no argument.                                         *)
Reject ==
    /\ phase = "requested" /\ ~panicked
    /\ op # "watchAllPods"
    /\ phase' = "rejected"
    /\ LogSubscription("stopped")
    /\ client' = "stopped"
    /\ UNCHANGED <<op, ctxDone, sourceVars, producerVars, serviceChan,
                   converterVars, eventsChan, delivered, panicked>>

(* The resolver logs the start, makes the channels, starts both goroutines *)
(* and returns eventsChan.                                                 *)
Subscribe ==
    /\ phase = "requested" /\ ~panicked
    /\ phase' = "running"
    /\ LogSubscription("started")
    /\ ppc' = "setup"
    /\ cpc' = "recv"
    /\ UNCHANGED <<op, ctxDone, sourceVars, phand, serviceChan, chand,
                   eventsChan, clientVars, panicked>>

-----------------------------------------------------------------------------
(* The producer: the service call and the deferred function around it.     *)

ProducerOnly == UNCHANGED <<requestVars, ctxDone, converterVars, clientVars>>

(* Mutant: the events channel is closed as soon as the stream is open.     *)
OpenStreamClosesEvents ==
    /\ ppc = "setup" /\ ~panicked
    /\ ppc' = "recv"
    /\ eventsClosed' = TRUE
    /\ ProducerOnly
    /\ UNCHANGED <<sourceVars, phand, serviceChan, eventsBuf, audit, panicked>>

(* The calls that open the stream (Watch; or Get of the pod, the choice of *)
(* a container, GetLogs) succeed.                                          *)
OpenStream ==
    /\ ppc = "setup" /\ ~panicked
    /\ ppc' = "recv"
    /\ ProducerOnly
    /\ UNCHANGED <<sourceVars, phand, serviceChan, eventsChan, audit, panicked>>

(* One of them fails: the service call returns an error.                   *)
OpenFails ==
    /\ ppc = "setup" /\ ~panicked
    /\ ppc' = "close"
    /\ ProducerOnly
    /\ UNCHANGED <<sourceVars, phand, serviceChan, eventsChan, audit, panicked>>

(* The stream hands over a pod event (processWatchEvents) or a log line    *)
(* (streamLogsFromReader, which looks at the context before it goes on).   *)
TakeItem ==
    /\ ppc = "recv" /\ ~panicked
    /\ srcOpen /\ seen < MaxSeen
    /\ seen' = seen + 1
    /\ received' = Append(received, seen + 1)
    /\ phand' = <<seen + 1>>
    /\ ppc' = IF op \in Watches THEN "send" ELSE "check"
    /\ ProducerOnly
    /\ UNCHANGED <<srcOpen, serviceChan, eventsChan, audit, panicked>>

(* The watch hands over an object that is not a pod (a Status, a bookmark):*)
(* it is skipped.                                                          *)
SkipObject ==
    /\ ppc = "recv" /\ ~panicked
    /\ op \in Watches
    /\ srcOpen /\ seen < MaxSeen
    /\ seen' = seen + 1
    /\ ProducerOnly
    /\ UNCHANGED <<srcOpen, received, producerVars, serviceChan, eventsChan,
                   audit, panicked>>

(* Mutant: the service also returns when the log has ended meanwhile, and  *)
(* the line just read is lost.                                             *)
CheckContextAtEnd ==
    /\ ppc = "check" /\ ~panicked
    /\ ppc' = IF ctxDone \/ ~srcOpen THEN "close" ELSE "send"
    /\ ProducerOnly
    /\ UNCHANGED <<sourceVars, phand, serviceChan, eventsChan, audit, panicked>>

(* select { case <-ctx.Done(): return; default: } after a line was read.   *)
CheckContext ==
    /\ ppc = "check" /\ ~panicked
    /\ ppc' = IF ctxDone THEN "close" ELSE "send"
    /\ ProducerOnly
    /\ UNCHANGED <<sourceVars, phand, serviceChan, eventsChan, audit, panicked>>

(* Mutant: the return path skips close(eventsChan).                        *)
StreamReturnsUnclosed ==
    /\ ppc = "recv" /\ ~panicked
    /\ ctxDone \/ ~srcOpen
    /\ ppc' = "audit"
    /\ ProducerOnly
    /\ UNCHANGED <<sourceVars, phand, serviceChan, eventsChan, audit, panicked>>

(* Mutant: the loop waits for the stream without the ctx.Done() case.      *)
StreamReturnsAtEndOnly ==
    /\ ppc = "recv" /\ ~panicked
    /\ ~srcOpen
    /\ ppc' = "close"
    /\ ProducerOnly
    /\ UNCHANGED <<sourceVars, phand, serviceChan, eventsChan, audit, panicked>>

(* The stream ended, or the context is done: the service call returns.  A  *)
(* cancelled context also aborts the read under scanner.Scan.              *)
StreamReturns ==
    /\ ppc = "recv" /\ ~panicked
    /\ ctxDone \/ ~srcOpen
    /\ ppc' = "close"
    /\ ProducerOnly
    /\ UNCHANGED <<sourceVars, phand, serviceChan, eventsChan, audit, panicked>>

(* Mutant: the buffer takes one item too many.                             *)
ProducerSendOverfills ==
    /\ ppc = "send" /\ ~panicked
    /\ ~serviceClosed /\ Len(serviceBuf) <= Cap
    /\ serviceBuf' = serviceBuf \o phand
    /\ phand' = <<>>
    /\ ppc' = "recv"
    /\ ProducerOnly
    /\ UNCHANGED <<sourceVars, serviceClosed, eventsChan, audit, panicked>>

(* case eventsChan <- watchEvent (logsChan <- logLine) in the service: the *)
(* channel is the resolver's serviceChan.                                  *)
ProducerSend ==
    /\ ppc = "send" /\ ~panicked
    /\ ~serviceClosed /\ Len(serviceBuf) < Cap
    /\ serviceBuf' = serviceBuf \o phand
    /\ phand' = <<>>
    /\ ppc' = "recv"
    /\ ProducerOnly
    /\ UNCHANGED <<sourceVars, serviceClosed, eventsChan, audit, panicked>>

(* The same select, its send case chosen when the channel is closed.       *)
ProducerSendPanics ==
    /\ ppc = "send" /\ ~panicked
    /\ serviceClosed
    /\ panicked' = TRUE
    /\ ProducerOnly
    /\ UNCHANGED <<sourceVars, producerVars, serviceChan, eventsChan, audit>>

(* case <-ctx.Done() of that select: the item in hand is dropped.          *)
ProducerGivesUp ==
    /\ ppc = "send" /\ ~panicked
    /\ ctxDone
    /\ ppc' = "close"
    /\ ProducerOnly
    /\ UNCHANGED <<sourceVars, phand, serviceChan, eventsChan, audit, panicked>>

(* Mutant: the deferred function forgets close(eventsChan).                *)
ProducerForgetsClose ==
    /\ ppc = "close" /\ ~panicked
    /\ ppc' = "audit"
    /\ ProducerOnly
    /\ UNCHANGED <<sourceVars, phand, serviceChan, eventsChan, audit, panicked>>

(* The deferred function: close(eventsChan), ...                           *)
ProducerClose ==
    /\ ppc = "close" /\ ~panicked
    /\ eventsClosed' = TRUE
    /\ ppc' = "audit"
    /\ ProducerOnly
    /\ UNCHANGED <<sourceVars, phand, serviceChan, eventsBuf, audit, panicked>>

(* ... then LogSubscription(started = false).                              *)
ProducerLogsStop ==
    /\ ppc = "audit" /\ ~panicked
    /\ LogSubscription("stopped")
    /\ ppc' = "done"
    /\ ProducerOnly
    /\ UNCHANGED <<sourceVars, phand, serviceChan, eventsChan, panicked>>

-----------------------------------------------------------------------------
(* The converter.  Nobody but the converter closes serviceChan, so its     *)
(* range loop never ends by itself: its only way out is the select.        *)

ConverterOnly == UNCHANGED <<requestVars, ctxDone, sourceVars, producerVars,
                             clientVars, audit>>

(* for event := range serviceChan                                          *)
ConverterTakes ==
    /\ cpc = "recv" /\ ~panicked
    /\ serviceBuf # <<>>
    /\ chand' = <<Head(serviceBuf)>>
    /\ serviceBuf' = Tail(serviceBuf)
    /\ cpc' = "send"
    /\ ConverterOnly
    /\ UNCHANGED <<serviceClosed, eventsChan, panicked>>

(* case eventsChan <- graphqlEvent                                         *)
ConverterSend ==
    /\ cpc = "send" /\ ~panicked
    /\ ~eventsClosed /\ Len(eventsBuf) < Cap
    /\ eventsBuf' = eventsBuf \o chand
    /\ chand' = <<>>
    /\ cpc' = "recv"
    /\ ConverterOnly
    /\ UNCHANGED <<serviceChan, eventsClosed, panicked>>

(* The same case on a closed channel.                                      *)
ConverterSendPanics ==
    /\ cpc = "send" /\ ~panicked
    /\ eventsClosed
    /\ panicked' = TRUE
    /\ ConverterOnly
    /\ UNCHANGED <<serviceChan, converterVars, eventsChan>>

(* Mutant: the item is dropped and the loop goes on.                       *)
ConverterDrops ==
    /\ cpc = "send" /\ ~panicked
    /\ ctxDone
    /\ chand' = <<>>
    /\ cpc' = "recv"
    /\ ConverterOnly
    /\ UNCHANGED <<serviceChan, eventsChan, panicked>>

(* Mutant: a default case drops the item when the channel is full.         *)
ConverterDropsWhenFull ==
    /\ cpc = "send" /\ ~panicked
    /\ Len(eventsBuf) = Cap
    /\ chand' = <<>>
    /\ cpc' = "recv"
    /\ ConverterOnly
    /\ UNCHANGED <<serviceChan, eventsChan, panicked>>

(* case <-ctx.Done(): return                                               *)
ConverterGivesUp ==
    /\ cpc = "send" /\ ~panicked
    /\ ctxDone
    /\ cpc' = "close"
    /\ ConverterOnly
    /\ UNCHANGED <<serviceChan, chand, eventsChan, panicked>>

(* defer close(serviceChan)                                                *)
ConverterClose ==
    /\ cpc = "close" /\ ~panicked
    /\ serviceClosed' = TRUE
    /\ cpc' = "done"
    /\ ConverterOnly
    /\ UNCHANGED <<serviceBuf, chand, eventsChan, panicked>>

-----------------------------------------------------------------------------
(* External: the client and the cluster.                                   *)

(* gqlgen reads the next event and writes it to the websocket.             *)
ClientReads ==
    /\ client = "reading" /\ phase = "running" /\ ~panicked
    /\ eventsBuf # <<>>
    /\ delivered' = Append(delivered, Head(eventsBuf))
    /\ eventsBuf' = Tail(eventsBuf)
    /\ UNCHANGED <<requestVars, ctxDone, sourceVars, producerVars, serviceChan,
                   converterVars, eventsClosed, client, audit, panicked>>

(* gqlgen finds eventsChan closed and drained, or the context done: it     *)
(* completes the operation and cancels its context.                        *)
ClientStops ==
    /\ client = "reading" /\ phase = "running" /\ ~panicked
    /\ ctxDone \/ (eventsClosed /\ eventsBuf = <<>>)
    /\ client' = "stopped"
    /\ ctxDone' = TRUE
    /\ UNCHANGED <<requestVars, sourceVars, producerVars, serviceChan,
                   converterVars, eventsChan, delivered, audit, panicked>>

(* The user completes the subscription or the connection is lost.          *)
Cancel ==
    /\ phase # "rejected" /\ ~ctxDone /\ ~panicked
    /\ ctxDone' = TRUE
    /\ UNCHANGED <<requestVars, sourceVars, producerVars, serviceChan,
                   converterVars, eventsChan, clientVars, audit, panicked>>

(* The API server ends the watch, or the container's log ends.             *)
SourceEnds ==
    /\ phase = "running" /\ srcOpen /\ ~panicked
    /\ srcOpen' = FALSE
    /\ UNCHANGED <<requestVars, ctxDone, seen, received, producerVars,
                   serviceChan, converterVars, eventsChan, clientVars, audit,
                   panicked>>

-----------------------------------------------------------------------------
(* Steps of the producer goroutine that do not wait for the cluster.       *)
ProducerStep ==
    \/ CheckContext
    \/ StreamReturns
    \/ ProducerSend
    \/ ProducerSendPanics
    \/ ProducerGivesUp
    \/ ProducerClose
    \/ ProducerLogsStop

ConverterStep ==
    \/ ConverterTakes
    \/ ConverterSend
    \/ ConverterSendPanics
    \/ ConverterGivesUp
    \/ ConverterClose

Next ==
    \/ Reject
    \/ Subscribe
    \/ OpenStream
    \/ OpenFails
    \/ TakeItem
    \/ SkipObject
    \/ ProducerStep
    \/ ConverterStep
    \/ ClientReads
    \/ ClientStops
    \/ Cancel
    \/ SourceEnds

Spec == Init /\ [][Next]_vars

(* The Go scheduler runs every goroutine that can run.  The cluster owes   *)
(* nothing, except that an API call whose context is cancelled returns.    *)
Fairness ==
    /\ WF_vars(ProducerStep)
    /\ WF_vars(ConverterStep)
    /\ WF_vars(ctxDone /\ OpenFails)

(* A client that keeps reading.                                            *)
FairClient == WF_vars(ClientReads) /\ WF_vars(ClientStops)

FairSpec == Spec /\ Fairness

-----------------------------------------------------------------------------
(* Properties.                                                             *)

(* The type invariant: every variable has its type, and no channel holds   *)
(* more than its capacity.                                                 *)
TypeOK ==
    /\ op \in Ops
    /\ phase \in {"requested", "rejected", "running"}
    /\ ctxDone \in BOOLEAN
    /\ srcOpen \in BOOLEAN
    /\ seen \in Nat
    /\ received \in Seq(Items)
    /\ ppc \in ProducerPCs
    /\ phand \in Seq(Items) /\ Len(phand) <= 1
    /\ serviceBuf \in Seq(Items) /\ Len(serviceBuf) <= Cap
    /\ serviceClosed \in BOOLEAN
    /\ cpc \in ConverterPCs
    /\ chand \in Seq(Items) /\ Len(chand) <= 1
    /\ eventsBuf \in Seq(Items) /\ Len(eventsBuf) <= Cap
    /\ eventsClosed \in BOOLEAN
    /\ client \in {"reading", "stopped"}
    /\ delivered \in Seq(Items)
    /\ audit \in Seq({"started", "stopped"})
    /\ panicked \in BOOLEAN

(* Everything between the cluster and the client, oldest first.            *)
InFlight == eventsBuf \o (chand \o (serviceBuf \o phand))

(* Nothing is lost, duplicated or reordered on the way through the two     *)
(* channels and the two goroutines: what the client has read, followed by  *)
(* what is in flight (or was left there when a goroutine gave up), is what *)
(* the service received.                                                   *)
ConservedInOrder == delivered \o InFlight = received

(* A slow client holds back at most two full channels and the item each    *)
(* goroutine has in hand.                                                  *)
BoundedBacklog == Len(received) <= Len(delivered) + 2 * Cap + 2

(* While the subscription is live, neither goroutine sends on a closed     *)
(* channel: a panic needs a cancelled context or a service call that has   *)
(* returned.                                                               *)
NoPanicWhileLive == panicked => ctxDone \/ ppc \in {"audit", "done"}

(* A converter that waits for the next event has an open channel to wait   *)
(* on, so its range loop never ends and the only way out of the goroutine  *)
(* is a cancelled context seen while sending.                              *)
ConverterWaitsOnOpenChannel ==
    /\ cpc = "recv" => ~serviceClosed
    /\ cpc \in {"close", "done"} => ctxDone

(* The audit rows of a subscription that ran are its start and its end, in *)
(* that order and each at most once, whichever of the two inserts fail.    *)
(* The row of the end is there only when eventsChan is closed: no event is *)
(* queued for the client after it, but those already buffered (Cap at most)*)
(* may still be read.                                                      *)
StopLoggedAfterClose ==
    phase = "running" =>
        \/ ppc # "done" /\ audit \in {<<>>, <<"started">>}
        \/ /\ ppc = "done" /\ eventsClosed
           /\ audit \in {<<>>, <<"started">>, <<"stopped">>, <<"started", "stopped">>}

(* A cancelled subscription releases its producer, which closes eventsChan *)
(* and returns, even when both channels are full and nobody reads.         *)
CancelEndsProducer ==
    phase = "running" /\ ctxDone ~> (eventsClosed /\ ppc = "done") \/ panicked

(* Every item the service received reaches a client that keeps reading,    *)
(* unless the subscription is cancelled or the service call returns.       *)
LiveDelivery ==
    FairClient =>
        \A i \in 1..MaxSeen :
            Len(received) >= i ~> \/ Len(delivered) >= i
                                  \/ ctxDone
                                  \/ ppc \in {"close", "audit", "done"}

(* When the service call returns, a client that keeps reading is told that *)
(* the subscription is complete.                                           *)
ReturnCompletesClient ==
    FairClient => (ppc = "close" ~> client = "stopped" \/ panicked)

(* The goroutines and channels implement the one queue of AbstractStream.  *)
Abstract == INSTANCE AbstractStream WITH
    Item <- 1..MaxSeen,
    phase <- IF phase = "running" /\ client = "stopped" THEN "ended" ELSE phase,
    cancelled <- ctxDone,
    closed <- eventsClosed,
    taken <- received,
    dead <- panicked

(* A subscription keeps what module AbstractStream promises: the client    *)
(* is sent the next item or nothing, nothing once it was told of the end,  *)
(* and the end of a stream nobody cancelled drops at most Cap + 1 items.   *)
StreamIsOneQueue == Abstract!Spec

(* "proper channel management": no goroutine sends on a closed channel.    *)
NoPanic == ~panicked

(* "proper channel management": after a cancellation the converter         *)
(* goroutine ends too (or the process does).                               *)
ConverterReleased ==
    phase = "running" /\ ctxDone ~> cpc = "done" \/ panicked
=============================================================================
