------------------------- MODULE SubscriptionProofs -------------------------
(***************************************************************************)
(* Proofs about module Subscription, for every channel capacity and every  *)
(* number of events.                                                       *)
(*                                                                         *)
(* The inductive invariant is TypeOK together with what the program        *)
(* counters say of the rest of the state (Control) and the conservation of *)
(* items (ConservedInOrder).  Under it a subscription implements module    *)
(* AbstractStream.                                                         *)
(***************************************************************************)
EXTENDS Subscription, SequenceTheorems, TLAPS

(* A goroutine waiting for its next item has empty hands, and the producer *)
(* returns with an item in hand only when the context is done.             *)
EmptyHands ==
    /\ ppc \in {"idle", "setup", "recv"} => phand = <<>>
    /\ ppc \in {"close", "audit", "done"} => phand = <<>> \/ ctxDone
    /\ cpc \in {"idle", "recv"} => chand = <<>>

(* The goroutines run only in a subscription that was accepted.            *)
PhaseControl ==
    /\ phase = "running" => ppc # "idle" /\ cpc # "idle"
    /\ phase # "running" => ppc = "idle" /\ cpc = "idle"
    /\ phase = "requested" => audit = <<>> /\ client = "reading"

(* Who closed what: eventsChan is closed by the producer's deferred        *)
(* function, serviceChan by the converter's, after the context was done.   *)
CloseControl ==
    /\ eventsClosed <=> ppc \in {"audit", "done"}
    /\ serviceClosed => cpc = "done"
    /\ cpc \in {"close", "done"} => ctxDone

Control ==
    /\ EmptyHands
    /\ PhaseControl
    /\ CloseControl
    /\ StopLoggedAfterClose
    /\ NoPanicWhileLive

-----------------------------------------------------------------------------
(* Facts about sequences.                                                  *)

(* Appending at most one item to a buffer that is not full.                *)
LEMMA ConcatHand ==
    ASSUME NEW s \in Seq(Items), NEW h \in Seq(Items), Len(h) <= 1,
           NEW n \in Nat, Len(s) < n
    PROVE  s \o h \in Seq(Items) /\ Len(s \o h) <= n
  BY ConcatProperties

(* A non-empty buffer is its head followed by its tail.                    *)
LEMMA HeadThenTail ==
    ASSUME NEW s \in Seq(Items), s # <<>>
    PROVE  /\ Head(s) \in Items
           /\ <<Head(s)>> \in Seq(Items)
           /\ Tail(s) \in Seq(Items)
           /\ Len(Tail(s)) = Len(s) - 1
           /\ s = <<Head(s)>> \o Tail(s)
  <1>1. Head(s) \in Items /\ Tail(s) \in Seq(Items) /\ Len(Tail(s)) = Len(s) - 1
    BY HeadTailProperties
  <1>2. \A i \in 1..Len(Tail(s)) : Tail(s)[i] = s[i+1]
    BY HeadTailProperties
  <1>3. <<Head(s)>> \in Seq(Items) /\ Len(<<Head(s)>>) = 1 /\ <<Head(s)>>[1] = s[1]
    BY <1>1
  <1>. DEFINE t == <<Head(s)>> \o Tail(s)
  <1>4. t \in Seq(Items) /\ Len(t) = Len(s)
    BY <1>1, <1>3, ConcatProperties, LenProperties
  <1>5. \A i \in 1..Len(s) : t[i] = s[i]
    BY <1>1, <1>2, <1>3, LenProperties, ConcatProperties
  <1>6. s = t
    BY <1>4, <1>5, SeqEqual
  <1>. QED BY <1>1, <1>3, <1>6

(* Associativity of concatenation, for sequences of items.                 *)
LEMMA Assoc == \A a, b, r \in Seq(Items) : (a \o b) \o r = a \o (b \o r)
  BY ConcatAssociative

(* An item moved from the front of one buffer to the end of the one before *)
(* it leaves the concatenation as it was.                                  *)
LEMMA MoveFront ==
    \A a, s, r \in Seq(Items) :
        s # <<>> => Append(a, Head(s)) \o (Tail(s) \o r) = a \o (s \o r)
  <1>. SUFFICES ASSUME NEW a \in Seq(Items), NEW s \in Seq(Items),
                       NEW r \in Seq(Items), s # <<>>
                PROVE  Append(a, Head(s)) \o (Tail(s) \o r) = a \o (s \o r)
    OBVIOUS
  <1>. DEFINE h == <<Head(s)>>
  <1>1. Head(s) \in Items /\ h \in Seq(Items) /\ Tail(s) \in Seq(Items) /\ s = h \o Tail(s)
    BY HeadThenTail
  <1>2. Append(a, Head(s)) = a \o h
    BY <1>1, AppendIsConcat
  <1>. HIDE DEF h
  <1>3. Tail(s) \o r \in Seq(Items)
    BY <1>1, ConcatProperties
  <1>4. (a \o h) \o (Tail(s) \o r) = a \o (h \o (Tail(s) \o r))
    BY <1>1, <1>3, Assoc
  <1>5. h \o (Tail(s) \o r) = (h \o Tail(s)) \o r
    BY <1>1, Assoc
  <1>6. (h \o Tail(s)) \o r = s \o r
    BY <1>1
  <1>. QED BY <1>2, <1>4, <1>5, <1>6

(* An item appended at the far end is appended to the whole.               *)
LEMMA AppendFar ==
    ASSUME NEW a \in Seq(Items), NEW b \in Seq(Items), NEW x \in Items
    PROVE  a \o Append(b, x) = Append(a \o b, x)
  <1>1. Append(b, x) = b \o <<x>> /\ <<x>> \in Seq(Items)
    BY AppendIsConcat
  <1>2. a \o b \in Seq(Items)
    BY ConcatProperties
  <1>3. Append(a \o b, x) = (a \o b) \o <<x>>
    BY <1>2, AppendIsConcat
  <1>4. a \o (b \o <<x>>) = (a \o b) \o <<x>>
    BY <1>1, Assoc
  <1>. QED BY <1>1, <1>3, <1>4

(* A row appended to a log that is empty.                                  *)
LEMMA AppendToNone == \A x : Append(<<>>, x) = <<x>>
  OBVIOUS

(* A row appended to a log of one.                                         *)
LEMMA AppendToOne ==
    ASSUME NEW S, NEW x \in S, NEW y \in S, NEW s \in Seq(S), s = <<x>>,
           NEW t \in Seq(S), t = <<x, y>>
    PROVE  Append(s, y) = t
  <1>1. Len(s) = 1 /\ s[1] = x /\ Len(t) = 2 /\ t[1] = x /\ t[2] = y
    OBVIOUS
  <1>2. Append(s, y) \in Seq(S) /\ Len(Append(s, y)) = Len(s) + 1
    BY AppendProperties
  <1>3. Append(s, y)[Len(s) + 1] = y
    BY AppendProperties
  <1>4. \A i \in 1..Len(s) : Append(s, y)[i] = s[i]
    BY AppendProperties
  <1>. DEFINE u == Append(s, y)
  <1>5. u \in Seq(S) /\ Len(u) = Len(t) /\ \A i \in 1..Len(u) : u[i] = t[i]
    BY <1>1, <1>2, <1>3, <1>4
  <1>. HIDE DEF u
  <1>6. u = t
    BY <1>5, SeqEqual
  <1>. QED BY <1>6 DEF u

(* The audit records of a subscription that has ended.                     *)
LEMMA StartedStopped == Append(<<"started">>, "stopped") = <<"started", "stopped">>
  <1>1. /\ <<"started">> \in Seq({"started", "stopped"})
        /\ <<"started", "stopped">> \in Seq({"started", "stopped"})
    OBVIOUS
  <1>2. "started" \in {"started", "stopped"} /\ "stopped" \in {"started", "stopped"}
    OBVIOUS
  <1>. QED BY <1>1, <1>2, AppendToOne, Zenon

-----------------------------------------------------------------------------
(* The inductive invariant, without conservation.                          *)

(* The invariant holds initially.                                          *)
LEMMA InitControl == Init => TypeOK /\ Control
  <1>. SUFFICES ASSUME Init PROVE TypeOK /\ Control
    OBVIOUS
  <1>1. TypeOK
    <2>1. /\ <<>> \in Seq(Items) /\ <<>> \in Seq({"started", "stopped"})
          /\ Len(<<>>) <= 1 /\ Len(<<>>) <= Cap /\ 0 \in Nat
      BY EmptySeq, CapAssumption
    <2>. QED BY <2>1, Zenon DEF Init, TypeOK, Ops, ProducerPCs, ConverterPCs
  <1>2. Control
    BY DEF Init, Control, EmptyHands, PhaseControl, CloseControl,
       StopLoggedAfterClose, NoPanicWhileLive
  <1>. QED BY <1>1, <1>2

(* The type invariant is preserved by every step.                          *)
LEMMA TypeStep == TypeOK /\ [Next]_vars => TypeOK'
  <1>. SUFFICES ASSUME TypeOK, [Next]_vars PROVE TypeOK'
    OBVIOUS
  <1>. USE CapAssumption DEF TypeOK, ProducerPCs, ConverterPCs, producerVars,
           converterVars, serviceChan, eventsChan, clientVars, sourceVars,
           requestVars, ProducerOnly, ConverterOnly
  <1>0. ASSUME NEW row \in {"started", "stopped"}, LogSubscription(row)
        PROVE  audit' \in Seq({"started", "stopped"})
    <2>1. Append(audit, row) \in Seq({"started", "stopped"})
      BY AppendProperties
    <2>. QED BY <1>0, <2>1 DEF LogSubscription
  <1>1. CASE Reject BY <1>0, <1>1 DEF Reject
  <1>2. CASE Subscribe BY <1>0, <1>2 DEF Subscribe
  <1>3. CASE OpenStream BY <1>3 DEF OpenStream
  <1>4. CASE OpenFails BY <1>4 DEF OpenFails
  <1>5. CASE TakeItem BY <1>5 DEF TakeItem, Items
  <1>6. CASE SkipObject BY <1>6 DEF SkipObject
  <1>7. CASE CheckContext BY <1>7 DEF CheckContext
  <1>8. CASE StreamReturns BY <1>8 DEF StreamReturns
  <1>9. CASE ProducerSend
    <2>1. serviceBuf' \in Seq(Items) /\ Len(serviceBuf') <= Cap
      BY <1>9, ConcatHand DEF ProducerSend
    <2>. QED BY <1>9, <2>1 DEF ProducerSend
  <1>10. CASE ProducerSendPanics BY <1>10 DEF ProducerSendPanics
  <1>11. CASE ProducerGivesUp BY <1>11 DEF ProducerGivesUp
  <1>12. CASE ProducerClose BY <1>12 DEF ProducerClose
  <1>13. CASE ProducerLogsStop BY <1>0, <1>13 DEF ProducerLogsStop
  <1>14. CASE ConverterTakes
    <2>1. /\ chand' \in Seq(Items) /\ Len(chand') <= 1
          /\ serviceBuf' \in Seq(Items) /\ Len(serviceBuf') <= Cap
      BY <1>14, HeadThenTail DEF ConverterTakes
    <2>. QED BY <1>14, <2>1 DEF ConverterTakes
  <1>15. CASE ConverterSend
    <2>1. eventsBuf' \in Seq(Items) /\ Len(eventsBuf') <= Cap
      BY <1>15, ConcatHand DEF ConverterSend
    <2>. QED BY <1>15, <2>1 DEF ConverterSend
  <1>16. CASE ConverterSendPanics BY <1>16 DEF ConverterSendPanics
  <1>17. CASE ConverterGivesUp BY <1>17 DEF ConverterGivesUp
  <1>18. CASE ConverterClose BY <1>18 DEF ConverterClose
  <1>19. CASE ClientReads
    <2>1. /\ delivered' \in Seq(Items)
          /\ eventsBuf' \in Seq(Items) /\ Len(eventsBuf') <= Cap
      BY <1>19, HeadThenTail DEF ClientReads
    <2>. QED BY <1>19, <2>1 DEF ClientReads
  <1>20. CASE ClientStops BY <1>20 DEF ClientStops
  <1>21. CASE Cancel BY <1>21 DEF Cancel
  <1>22. CASE SourceEnds BY <1>22 DEF SourceEnds
  <1>23. CASE UNCHANGED vars BY <1>23 DEF vars
  <1>. QED
    BY <1>1, <1>2, <1>3, <1>4, <1>5, <1>6, <1>7, <1>8, <1>9, <1>10, <1>11,
       <1>12, <1>13, <1>14, <1>15, <1>16, <1>17, <1>18, <1>19, <1>20, <1>21,
       <1>22, <1>23 DEF Next, ProducerStep, ConverterStep

(* What the program counters say is preserved by every step.               *)
LEMMA ControlStep == TypeOK /\ Control /\ [Next]_vars => Control'
  <1>. SUFFICES ASSUME TypeOK, Control, [Next]_vars PROVE Control'
    OBVIOUS
  <1>. USE DEF Control, EmptyHands, PhaseControl, CloseControl,
           StopLoggedAfterClose, NoPanicWhileLive, producerVars,
           converterVars, serviceChan, eventsChan, clientVars, sourceVars,
           requestVars, ProducerOnly, ConverterOnly
  <1>1. CASE Reject BY <1>1 DEF Reject
  <1>2. CASE Subscribe
    <2>1. audit' \in {<<>>, <<"started">>}
      BY <1>2, AppendToNone DEF Subscribe, LogSubscription
    <2>. QED BY <1>2, <2>1 DEF Subscribe
  <1>3. CASE OpenStream BY <1>3 DEF OpenStream
  <1>4. CASE OpenFails BY <1>4 DEF OpenFails
  <1>5. CASE TakeItem BY <1>5 DEF TakeItem
  <1>6. CASE SkipObject BY <1>6 DEF SkipObject
  <1>7. CASE CheckContext BY <1>7 DEF CheckContext
  <1>8. CASE StreamReturns BY <1>8 DEF StreamReturns
  <1>9. CASE ProducerSend BY <1>9 DEF ProducerSend
  <1>10. CASE ProducerSendPanics BY <1>10 DEF ProducerSendPanics
  <1>11. CASE ProducerGivesUp BY <1>11 DEF ProducerGivesUp
  <1>12. CASE ProducerClose BY <1>12 DEF ProducerClose
  <1>13. CASE ProducerLogsStop
    <2>1. phase = "running" /\ audit \in {<<>>, <<"started">>}
      BY <1>13 DEF ProducerLogsStop, TypeOK
    <2>2. audit' \in {<<>>, <<"started">>, <<"stopped">>, <<"started", "stopped">>}
      BY <1>13, <2>1, StartedStopped, AppendToNone
         DEF ProducerLogsStop, LogSubscription
    <2>. QED BY <1>13, <2>1, <2>2 DEF ProducerLogsStop
  <1>14. CASE ConverterTakes BY <1>14 DEF ConverterTakes
  <1>15. CASE ConverterSend BY <1>15 DEF ConverterSend
  <1>16. CASE ConverterSendPanics BY <1>16 DEF ConverterSendPanics
  <1>17. CASE ConverterGivesUp BY <1>17 DEF ConverterGivesUp
  <1>18. CASE ConverterClose BY <1>18 DEF ConverterClose
  <1>19. CASE ClientReads BY <1>19 DEF ClientReads
  <1>20. CASE ClientStops BY <1>20 DEF ClientStops
  <1>21. CASE Cancel BY <1>21 DEF Cancel
  <1>22. CASE SourceEnds BY <1>22 DEF SourceEnds
  <1>23. CASE UNCHANGED vars BY <1>23 DEF vars
  <1>. QED
    BY <1>1, <1>2, <1>3, <1>4, <1>5, <1>6, <1>7, <1>8, <1>9, <1>10, <1>11,
       <1>12, <1>13, <1>14, <1>15, <1>16, <1>17, <1>18, <1>19, <1>20, <1>21,
       <1>22, <1>23 DEF Next, ProducerStep, ConverterStep

-----------------------------------------------------------------------------
(* Conservation of items.  Five actions move an item; each moves one over  *)
(* one boundary of the concatenation.                                      *)
LEMMA ConservedStep ==
    TypeOK /\ EmptyHands /\ ConservedInOrder /\ [Next]_vars => ConservedInOrder'
  <1>. SUFFICES ASSUME TypeOK, EmptyHands, ConservedInOrder, [Next]_vars
                PROVE  ConservedInOrder'
    OBVIOUS
  <1>. DEFINE Moved == <<delivered, eventsBuf, chand, serviceBuf, phand, received>>
  <1>1. /\ delivered \in Seq(Items) /\ eventsBuf \in Seq(Items)
        /\ chand \in Seq(Items) /\ serviceBuf \in Seq(Items)
        /\ phand \in Seq(Items) /\ received \in Seq(Items)
    BY DEF TypeOK
  <1>2. serviceBuf \o phand \in Seq(Items)
    BY <1>1, ConcatProperties
  <1>3. chand \o (serviceBuf \o phand) \in Seq(Items)
    BY <1>1, <1>2, ConcatProperties
  <1>4. ASSUME UNCHANGED Moved PROVE ConservedInOrder'
    BY <1>4 DEF ConservedInOrder, InFlight
  <1>5. CASE TakeItem
    <2>. DEFINE x == seen + 1
    <2>1. x \in Items /\ phand = <<>> /\ phand' = <<x>> /\ received' = Append(received, x)
      BY <1>5 DEF TakeItem, TypeOK, EmptyHands, Items
    <2>2. UNCHANGED <<delivered, eventsBuf, chand, serviceBuf>>
      BY <1>5 DEF TakeItem, ProducerOnly, converterVars, serviceChan, eventsChan, clientVars
    <2>. HIDE DEF x
    <2>3. serviceBuf \o phand = serviceBuf /\ serviceBuf \o phand' = Append(serviceBuf, x)
      BY <1>1, <2>1, ConcatEmptySeq, AppendIsConcat
    <2>4. chand \o Append(serviceBuf, x) = Append(chand \o serviceBuf, x)
      BY <1>1, <2>1, AppendFar
    <2>5. chand \o serviceBuf \in Seq(Items)
      BY <1>1, ConcatProperties
    <2>6. eventsBuf \o Append(chand \o serviceBuf, x) = Append(eventsBuf \o (chand \o serviceBuf), x)
      BY <1>1, <2>1, <2>5, AppendFar
    <2>7. eventsBuf \o (chand \o serviceBuf) \in Seq(Items)
      BY <1>1, <2>5, ConcatProperties
    <2>8. delivered \o Append(eventsBuf \o (chand \o serviceBuf), x)
            = Append(delivered \o (eventsBuf \o (chand \o serviceBuf)), x)
      BY <1>1, <2>1, <2>7, AppendFar
    <2>9. delivered \o (eventsBuf \o (chand \o serviceBuf)) = received
      BY <2>3 DEF ConservedInOrder, InFlight
    <2>10. delivered \o (eventsBuf \o (chand \o (serviceBuf \o phand'))) = received'
      BY <2>1, <2>3, <2>4, <2>6, <2>8, <2>9
    <2>. QED BY <2>2, <2>10 DEF ConservedInOrder, InFlight
  <1>6. CASE ProducerSend
    <2>1. serviceBuf' \o phand' = serviceBuf \o phand
      BY <1>2, <1>6, ConcatEmptySeq DEF ProducerSend
    <2>2. UNCHANGED <<delivered, eventsBuf, chand, received>>
      BY <1>6 DEF ProducerSend, ProducerOnly, converterVars, eventsChan, clientVars, sourceVars
    <2>. QED BY <2>1, <2>2 DEF ConservedInOrder, InFlight
  <1>7. CASE ConverterTakes
    <2>1. UNCHANGED <<delivered, eventsBuf, phand, received>>
      BY <1>7 DEF ConverterTakes, ConverterOnly, producerVars, eventsChan, clientVars, sourceVars
    <2>2. chand = <<>> /\ serviceBuf # <<>> /\ chand' = <<Head(serviceBuf)>>
            /\ serviceBuf' = Tail(serviceBuf)
      BY <1>7 DEF ConverterTakes, EmptyHands
    <2>3. Head(serviceBuf) \in Items
      BY <1>1, <2>2, HeadThenTail
    <2>4. chand' = Append(chand, Head(serviceBuf))
      BY <1>1, <2>2, <2>3, AppendIsConcat, ConcatEmptySeq
    <2>5. chand' \o (serviceBuf' \o phand) = chand \o (serviceBuf \o phand)
      BY <1>1, <2>2, <2>4, MoveFront
    <2>. QED BY <2>1, <2>5 DEF ConservedInOrder, InFlight
  <1>8. CASE ConverterSend
    <2>1. UNCHANGED <<delivered, serviceBuf, phand, received>>
      BY <1>8 DEF ConverterSend, ConverterOnly, producerVars, serviceChan, clientVars, sourceVars
    <2>2. eventsBuf' = eventsBuf \o chand /\ chand' = <<>>
      BY <1>8 DEF ConverterSend
    <2>3. chand' \o (serviceBuf \o phand) = serviceBuf \o phand
      BY <1>2, <2>2, ConcatEmptySeq
    <2>4. eventsBuf' \o (serviceBuf \o phand) = eventsBuf \o (chand \o (serviceBuf \o phand))
      <3>1. eventsBuf \in Seq(Items) /\ chand \in Seq(Items)
        BY <1>1
      <3>2. (eventsBuf \o chand) \o (serviceBuf \o phand)
              = eventsBuf \o (chand \o (serviceBuf \o phand))
        BY <1>2, <3>1, Assoc, Zenon
      <3>. QED BY <2>2, <3>2, Zenon
    <2>. QED BY <2>1, <2>3, <2>4 DEF ConservedInOrder, InFlight
  <1>9. CASE ClientReads
    <2>1. UNCHANGED <<chand, serviceBuf, phand, received>>
      BY <1>9 DEF ClientReads, converterVars, producerVars, serviceChan, sourceVars
    <2>2. eventsBuf # <<>> /\ delivered' = Append(delivered, Head(eventsBuf))
            /\ eventsBuf' = Tail(eventsBuf)
      BY <1>9 DEF ClientReads
    <2>3. delivered' \o (eventsBuf' \o (chand \o (serviceBuf \o phand)))
            = delivered \o (eventsBuf \o (chand \o (serviceBuf \o phand)))
      <3>1. delivered \in Seq(Items) /\ eventsBuf \in Seq(Items) /\ eventsBuf # <<>>
        BY <1>1, <2>2
      <3>2. Append(delivered, Head(eventsBuf))
                \o (Tail(eventsBuf) \o (chand \o (serviceBuf \o phand)))
              = delivered \o (eventsBuf \o (chand \o (serviceBuf \o phand)))
        BY <1>3, <3>1, MoveFront, Zenon
      <3>. QED BY <2>2, <3>2, Zenon
    <2>. QED BY <2>1, <2>3 DEF ConservedInOrder, InFlight
  <1>10. CASE \/ Reject \/ Subscribe \/ OpenStream \/ OpenFails \/ SkipObject
              \/ CheckContext \/ StreamReturns \/ ProducerSendPanics
              \/ ProducerGivesUp \/ ProducerClose \/ ProducerLogsStop
              \/ ConverterSendPanics \/ ConverterGivesUp \/ ConverterClose
              \/ ClientStops \/ Cancel \/ SourceEnds
    <2>1. UNCHANGED Moved
      BY <1>10 DEF Reject, Subscribe, OpenStream, OpenFails, SkipObject,
         CheckContext, StreamReturns, ProducerSendPanics, ProducerGivesUp,
         ProducerClose, ProducerLogsStop, ConverterSendPanics,
         ConverterGivesUp, ConverterClose, ClientStops, Cancel, SourceEnds,
         ProducerOnly, ConverterOnly, producerVars, converterVars,
         serviceChan, eventsChan, clientVars, sourceVars
    <2>. QED BY <1>4, <2>1
  <1>11. CASE UNCHANGED vars
    <2>1. UNCHANGED Moved
      BY <1>11 DEF vars, producerVars, converterVars, serviceChan, eventsChan,
         clientVars, sourceVars
    <2>. QED BY <1>4, <2>1
  <1>. QED
    BY <1>5, <1>6, <1>7, <1>8, <1>9, <1>10, <1>11 DEF Next, ProducerStep, ConverterStep

(* Nothing is received, in flight or delivered initially.                  *)
LEMMA InitConserved == Init => ConservedInOrder
  <1>1. <<>> \o <<>> = <<>>
    BY ConcatEmptySeq, EmptySeq
  <1>. QED BY <1>1 DEF Init, ConservedInOrder, InFlight

-----------------------------------------------------------------------------
(* Theorems.                                                               *)

(* The inductive invariant holds in every reachable state of a             *)
(* subscription, whatever the capacity of its channels.                    *)
THEOREM InductiveInvariant == Spec => [](TypeOK /\ Control /\ ConservedInOrder)
  <1>1. Init => TypeOK /\ Control /\ ConservedInOrder
    BY InitControl, InitConserved
  <1>2. TypeOK /\ Control /\ ConservedInOrder /\ [Next]_vars
          => (TypeOK /\ Control /\ ConservedInOrder)'
    BY TypeStep, ControlStep, ConservedStep DEF Control
  <1>. QED BY <1>1, <1>2, PTL DEF Spec

(* The channels never hold more than their capacity and every variable of  *)
(* the subscription keeps its type.                                        *)
THEOREM TypeCorrect == Spec => []TypeOK
  BY InductiveInvariant, PTL

(* The two goroutines and the two channels lose, duplicate and reorder     *)
(* nothing between the service and the client.                             *)
THEOREM Conservation == Spec => []ConservedInOrder
  BY InductiveInvariant, PTL

(* How many items are behind the client.                                   *)
LEMMA LagIsInFlight ==
    ASSUME TypeOK, ConservedInOrder
    PROVE  Len(received) = Len(delivered) + Len(eventsBuf) + Len(chand)
                             + Len(serviceBuf) + Len(phand)
  <1>1. /\ delivered \in Seq(Items) /\ eventsBuf \in Seq(Items)
        /\ chand \in Seq(Items) /\ serviceBuf \in Seq(Items)
        /\ phand \in Seq(Items)
    BY DEF TypeOK
  <1>. DEFINE sp == serviceBuf \o phand
              csp == chand \o sp
              ecsp == eventsBuf \o csp
  <1>2. sp \in Seq(Items) /\ Len(sp) = Len(serviceBuf) + Len(phand)
    BY <1>1, ConcatProperties
  <1>3. csp \in Seq(Items) /\ Len(csp) = Len(chand) + Len(sp)
    <2>. HIDE DEF sp
    <2>. QED BY <1>1, <1>2, ConcatProperties
  <1>4. ecsp \in Seq(Items) /\ Len(ecsp) = Len(eventsBuf) + Len(csp)
    <2>. HIDE DEF csp
    <2>. QED BY <1>1, <1>3, ConcatProperties
  <1>5. Len(delivered \o ecsp) = Len(delivered) + Len(ecsp)
    <2>. HIDE DEF ecsp
    <2>. QED BY <1>1, <1>4, ConcatProperties
  <1>6. Len(received) = Len(delivered) + Len(ecsp)
    BY <1>5 DEF ConservedInOrder, InFlight
  <1>. HIDE DEF sp, csp, ecsp
  <1>7. /\ Len(delivered) \in Nat /\ Len(eventsBuf) \in Nat /\ Len(chand) \in Nat
        /\ Len(serviceBuf) \in Nat /\ Len(phand) \in Nat
    BY <1>1, LenProperties
  <1>. QED BY <1>2, <1>3, <1>4, <1>6, <1>7

(* So the backlog is bounded by what the buffers and hands can hold.       *)
LEMMA BacklogBound == TypeOK /\ ConservedInOrder => BoundedBacklog
  <1>. SUFFICES ASSUME TypeOK, ConservedInOrder PROVE BoundedBacklog
    OBVIOUS
  <1>1. /\ Len(delivered) \in Nat /\ Len(eventsBuf) \in Nat /\ Len(chand) \in Nat
        /\ Len(serviceBuf) \in Nat /\ Len(phand) \in Nat
    BY DEF TypeOK
  <1>. QED BY <1>1, LagIsInFlight, CapAssumption DEF TypeOK, BoundedBacklog

(* A client that reads slowly, or not at all, makes the server hold at     *)
(* most two full channels and one item per goroutine.                      *)
THEOREM Backlog == Spec => []BoundedBacklog
  BY InductiveInvariant, BacklogBound, PTL

(* No goroutine panics while the context is live and the service call has  *)
(* not returned.                                                           *)
THEOREM LiveSubscriptionDoesNotPanic == Spec => []NoPanicWhileLive
  <1>1. Control => NoPanicWhileLive
    BY DEF Control
  <1>. QED BY <1>1, InductiveInvariant, PTL

(* The converter's range loop can only be left through a cancelled context.*)
THEOREM ConverterExit == Spec => []ConverterWaitsOnOpenChannel
  <1>1. Control => ConverterWaitsOnOpenChannel
    BY DEF Control, CloseControl, ConverterWaitsOnOpenChannel
  <1>. QED BY <1>1, InductiveInvariant, PTL

(* Whichever rows are lost, those stored are the start, then the end of the*)
(* subscription, and that of the end only when eventsChan is closed, after *)
(* which no event is queued for the client any more.                       *)
THEOREM AuditOrder == Spec => []StopLoggedAfterClose
  <1>1. Control => StopLoggedAfterClose
    BY DEF Control
  <1>. QED BY <1>1, InductiveInvariant, PTL

-----------------------------------------------------------------------------
(* Refinement: the goroutines and channels implement AbstractStream.       *)

(* The item at the head of eventsBuf is the oldest the client has not read.*)
LEMMA HeadIsNext ==
    ASSUME TypeOK, ConservedInOrder, eventsBuf # <<>>
    PROVE  /\ Len(delivered) < Len(received)
           /\ received[Len(delivered) + 1] = Head(eventsBuf)
  <1>1. /\ delivered \in Seq(Items) /\ eventsBuf \in Seq(Items)
        /\ chand \in Seq(Items) /\ serviceBuf \in Seq(Items)
        /\ phand \in Seq(Items)
    BY DEF TypeOK
  <1>2. PICK rest \in Seq(Items) : rest = chand \o (serviceBuf \o phand)
    BY <1>1, ConcatProperties
  <1>3. PICK late \in Seq(Items) : late = eventsBuf \o rest
    BY <1>1, <1>2, ConcatProperties
  <1>4. received = delivered \o late
    BY <1>2, <1>3 DEF ConservedInOrder, InFlight
  <1>5. Len(eventsBuf) \in Nat /\ Len(eventsBuf) > 0 /\ Head(eventsBuf) = eventsBuf[1]
    BY <1>1
  <1>6. late[1] = eventsBuf[1] /\ Len(late) > 0
    BY <1>1, <1>2, <1>3, <1>5, ConcatProperties, LenProperties
  <1>7. Len(delivered) \in Nat /\ Len(late) \in Nat
    BY <1>1, <1>3, LenProperties
  <1>8. /\ Len(received) = Len(delivered) + Len(late)
        /\ received[Len(delivered) + 1] = late[1]
    BY <1>1, <1>3, <1>4, <1>6, <1>7, ConcatProperties
  <1>. QED BY <1>5, <1>6, <1>7, <1>8

(* Every step of the goroutines, the client and the cluster is a step of   *)
(* the one queue, or moves an item within it.                              *)
LEMMA StreamStep ==
    TypeOK /\ Control /\ ConservedInOrder /\ ConservedInOrder' /\ TypeOK' /\ [Next]_vars
        => [Abstract!Next]_(Abstract!vars)
  <1>. SUFFICES ASSUME TypeOK, Control, ConservedInOrder, ConservedInOrder', TypeOK',
                       [Next]_vars
                PROVE  Abstract!Next \/ UNCHANGED Abstract!vars
    OBVIOUS
  <1>. USE DEF Control, EmptyHands, PhaseControl, CloseControl, NoPanicWhileLive,
           producerVars, converterVars, serviceChan, eventsChan, clientVars,
           sourceVars, requestVars, ProducerOnly, ConverterOnly
  <1>. DEFINE Seen == <<phase, client, ctxDone, eventsClosed, received, delivered, panicked>>
  <1>1. ASSUME UNCHANGED Seen PROVE UNCHANGED Abstract!vars
    BY <1>1 DEF Abstract!vars
  <1>2. CASE Reject
    <2>1. Abstract!Answer("rejected")
      BY <1>2 DEF Reject, Abstract!Answer
    <2>. QED BY <1>2, <2>1 DEF Reject, Abstract!Next
  <1>3. CASE Subscribe
    <2>1. Abstract!Answer("running")
      BY <1>3 DEF Subscribe, Abstract!Answer
    <2>. QED BY <1>3, <2>1 DEF Subscribe, Abstract!Next
  <1>4. CASE TakeItem
    <2>1. /\ phase = "running" /\ ~eventsClosed /\ ~panicked
          /\ received' = Append(received, seen + 1)
          /\ UNCHANGED <<phase, client, ctxDone, eventsClosed, delivered, panicked>>
      BY <1>4 DEF TakeItem, TypeOK
    <2>2. seen + 1 \in 1..MaxSeen
      BY <1>4, MaxSeenAssumption DEF TakeItem, TypeOK
    <2>3. Len(received) < Len(delivered) + 2 * Cap + 2
      <3>1. Len(phand) = 0
        BY <1>4 DEF TakeItem
      <3>2. /\ Len(delivered) \in Nat /\ Len(eventsBuf) \in Nat /\ Len(chand) \in Nat
            /\ Len(serviceBuf) \in Nat
        BY DEF TypeOK
      <3>. QED BY <3>1, <3>2, LagIsInFlight, CapAssumption DEF TypeOK
    <2>4. Abstract!Take(seen + 1)
      BY <2>1, <2>3 DEF Abstract!Take
    <2>. QED BY <2>1, <2>2, <2>4 DEF Abstract!Next
  <1>5. CASE ClientReads
    <2>1. /\ phase = "running" /\ client = "reading" /\ ~panicked
          /\ delivered' = Append(delivered, Head(eventsBuf))
          /\ UNCHANGED <<phase, client, ctxDone, eventsClosed, received, panicked>>
      BY <1>5 DEF ClientReads
    <2>2. /\ Len(delivered) < Len(received)
          /\ received[Len(delivered) + 1] = Head(eventsBuf)
      BY <1>5, HeadIsNext DEF ClientReads
    <2>3. Abstract!Deliver
      BY <2>1, <2>2 DEF Abstract!Deliver
    <2>. QED BY <2>1, <2>3 DEF Abstract!Next
  <1>6. CASE Cancel
    <2>1. Abstract!Cancel
      BY <1>6 DEF Cancel, Abstract!Cancel
    <2>. QED BY <1>6, <2>1 DEF Cancel, Abstract!Next
  <1>7. CASE ProducerClose
    <2>1. Abstract!Close
      BY <1>7 DEF ProducerClose, Abstract!Close, TypeOK
    <2>. QED BY <1>7, <2>1 DEF ProducerClose, Abstract!Next
  <1>8. CASE ClientStops
    <2>1. /\ phase = "running" /\ client = "reading" /\ client' = "stopped"
          /\ ctxDone' = TRUE /\ ~panicked
          /\ UNCHANGED <<phase, eventsClosed, received, delivered, panicked>>
      BY <1>8 DEF ClientStops
    <2>2. ctxDone \/ (eventsClosed /\ Len(received) <= Len(delivered) + Cap + 1)
      <3>1. SUFFICES ASSUME ~ctxDone
                     PROVE  eventsClosed /\ Len(received) <= Len(delivered) + Cap + 1
        OBVIOUS
      <3>2. eventsClosed /\ Len(eventsBuf) = 0 /\ Len(phand) = 0
        BY <1>8, <3>1 DEF ClientStops
      <3>3. Len(delivered) \in Nat /\ Len(chand) \in Nat /\ Len(serviceBuf) \in Nat
        BY DEF TypeOK
      <3>. QED BY <3>2, <3>3, LagIsInFlight, CapAssumption DEF TypeOK
    <2>3. Abstract!End
      BY <2>1, <2>2 DEF Abstract!End
    <2>. QED BY <2>1, <2>3 DEF Abstract!Next
  <1>9. CASE ProducerSendPanics \/ ConverterSendPanics
    <2>1. /\ ~panicked /\ panicked' = TRUE
          /\ UNCHANGED <<phase, client, ctxDone, eventsClosed, received, delivered>>
          /\ ctxDone \/ eventsClosed
      BY <1>9 DEF ProducerSendPanics, ConverterSendPanics
    <2>2. Abstract!Die
      BY <2>1 DEF Abstract!Die
    <2>. QED BY <2>1, <2>2 DEF Abstract!Next
  <1>10. CASE \/ OpenStream \/ OpenFails \/ SkipObject \/ CheckContext
              \/ StreamReturns \/ ProducerSend \/ ProducerGivesUp
              \/ ProducerLogsStop \/ ConverterTakes \/ ConverterSend
              \/ ConverterGivesUp \/ ConverterClose \/ SourceEnds
    <2>1. UNCHANGED Seen
      BY <1>10 DEF OpenStream, OpenFails, SkipObject, CheckContext,
         StreamReturns, ProducerSend, ProducerGivesUp, ProducerLogsStop,
         ConverterTakes, ConverterSend, ConverterGivesUp, ConverterClose,
         SourceEnds
    <2>. QED BY <1>1, <2>1
  <1>11. CASE UNCHANGED vars
    <2>1. UNCHANGED Seen
      BY <1>11 DEF vars
    <2>. QED BY <1>1, <2>1
  <1>. QED
    BY <1>2, <1>3, <1>4, <1>5, <1>6, <1>7, <1>8, <1>9, <1>10, <1>11
       DEF Next, ProducerStep, ConverterStep

(* A subscription begins as an empty queue nobody answered.                *)
LEMMA StreamInit == Init => Abstract!Init
  BY DEF Init, Abstract!Init

(* A subscription implements AbstractStream, whatever the capacity of its  *)
(* channels and the length of the stream: the client is sent the next item *)
(* or nothing, nothing after the end, and an end that nobody asked for     *)
(* drops at most one channel and one item.                                 *)
THEOREM Refinement == Spec => StreamIsOneQueue
  <1>1. TypeOK /\ Control /\ ConservedInOrder /\ [Next]_vars
          => TypeOK' /\ ConservedInOrder'
    BY TypeStep, ConservedStep DEF Control
  <1>2. TypeOK /\ Control /\ ConservedInOrder /\ [Next]_vars
          => [Abstract!Next]_(Abstract!vars)
    BY <1>1, StreamStep
  <1>. QED
    BY <1>2, StreamInit, InductiveInvariant, PTL
       DEF Spec, StreamIsOneQueue, Abstract!Spec
=============================================================================
