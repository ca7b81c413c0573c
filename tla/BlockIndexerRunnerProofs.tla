----------------------- MODULE BlockIndexerRunnerProofs -----------------------
(***************************************************************************)
(* The safety of BlockIndexerRunner for any number of callbacks, Resets    *)
(* and items, and any size of the queue: types, the exclusion between      *)
(* Reset and the loop, and the order of the items.                         *)
(***************************************************************************)
EXTENDS BlockIndexerRunner, SequenceTheorems, TLAPS

\* A Reset under way may still make new channels.
ResetsLeft == resetPc \in {"waiting", "handler"} => gen < MaxGen

\* The handler is reset only when the loop has signalled its end.
HandlerAfterLoop == resetPc = "handler" => gen \in finished

\* loopFinishedCh is closed by the loop that ends, and by no other.
FinishedDead == \A g \in finished : ~Alive(g)

\* Nothing happened yet with the channels that no Reset has made.
Future ==
  \A g \in Gen : g > gen => loopPc[g] = "none" /\ channels[g] = None /\ g \notin finished

\* A running loop has its channels.
LoopChannels ==
  \A l \in Gen : loopPc[l] \notin {"none", "starting"} => channels[l] = l

\* A loop holds an item exactly while it works on it.
LoopItem ==
  \A l \in Gen :
    /\ loopPc[l] \in {"execute", "retry", "report"} => current[l] # None
    /\ loopPc[l] \notin {"execute", "retry", "report"} => current[l] = None

\* A callback that sends has an item and a queue.
SendsItem ==
  \A p \in Producer : producerPc[p] = "sending" => captured[p] \in Gen /\ sending[p] # None

\* ResetExclusive rests on the end of the loop being signalled by the loop
\* itself, for its own generation.
Exclusion ==
  /\ ResetExclusive
  /\ ResetsLeft
  /\ HandlerAfterLoop
  /\ FinishedDead
  /\ Future
  /\ LoopChannels

Items == LoopItem /\ SendsItem

Inv == TypeOK /\ Exclusion /\ Items
-----------------------------------------------------------------------------

\* A new runner satisfies Inv.
LEMMA InvInit == NewBlockIndexerRunner => Inv
<1> SUFFICES ASSUME NewBlockIndexerRunner
             PROVE  Inv
  OBVIOUS
<1> USE RunnerAssumption DEF NewBlockIndexerRunner, Gen, Alive
<1>1. TypeOK
  <2>1. ControlTypes
    <3>1. gen \in Gen /\ stopped \subseteq Gen /\ finished \subseteq Gen
      OBVIOUS
    <3>2. closed \in BOOLEAN /\ errorCh \in {0, 1} /\ resetPc = "idle"
      OBVIOUS
    <3>3. loopPc = [g \in Gen |-> "none"] /\ channels = [g \in Gen |-> None]
      OBVIOUS
    <3>4. producerPc = [p \in Producer |-> "idle"] /\ captured = [p \in Producer |-> None]
      OBVIOUS
    <3> HIDE DEF NewBlockIndexerRunner
    <3> QED
      BY <3>1, <3>2, <3>3, <3>4 DEF ControlTypes
  <2>2. ItemTypes
    BY DEF ItemTypes
  <2>3. QueueTypes
    BY DEF QueueTypes
  <2> QED
    BY <2>1, <2>2, <2>3 DEF TypeOK
<1>2. Exclusion
  BY DEF Exclusion, ResetExclusive, ResetsLeft, HandlerAfterLoop, FinishedDead, Future, LoopChannels
<1>3. Items
  BY DEF Items, LoopItem, SendsItem
<1> QED
  BY <1>1, <1>2, <1>3 DEF Inv

\* What a loop receives is an item, and what it leaves fits the queue.
LEMMA LoopTakes ==
  ASSUME ControlTypes, QueueTypes, LoopChannels, NEW l \in Gen, LoopReceives(l)
  PROVE  /\ channels[l] = l
         /\ Head(queueCh[l]) \in 1..MaxItems
         /\ Tail(queueCh[l]) \in Seq(1..MaxItems)
         /\ Len(Tail(queueCh[l])) <= QueueChannelSize
<1>1. channels[l] = l /\ queueCh[l] # << >>
  BY DEF LoopReceives, LoopChannels
<1>2. queueCh[l] \in Seq(1..MaxItems) /\ Len(queueCh[l]) <= QueueChannelSize
  BY DEF QueueTypes
<1>3. Head(queueCh[l]) \in 1..MaxItems /\ Tail(queueCh[l]) \in Seq(1..MaxItems)
  BY <1>1, <1>2, HeadTailProperties
<1>4. Len(Tail(queueCh[l])) = Len(queueCh[l]) - 1
  BY <1>1, <1>2, HeadTailProperties
<1> QED
  BY <1>1, <1>2, <1>3, <1>4, LenProperties, RunnerAssumption

\* No step changes a type of the control state.
LEMMA ControlStep ==
  ASSUME ControlTypes, ResetsLeft, LoopChannels, Next
  PROVE  ControlTypes'
<1> USE RunnerAssumption DEF ControlTypes, ResetsLeft, LoopChannels, Gen, resetVars, loopVars, producerVars
<1>1. CASE ResetCall
  BY <1>1 DEF ResetCall
<1>2. CASE ResetLoopFinished
  BY <1>2 DEF ResetLoopFinished
<1>3. CASE ResetAborted
  BY <1>3 DEF ResetAborted
<1>4. CASE HandlerResetFails
  BY <1>4 DEF HandlerResetFails
<1>5. CASE HandlerReset
  BY <1>5 DEF HandlerReset
<1>6. ASSUME NEW l \in Gen, LoopStarts(l)
      PROVE  ControlTypes'
  BY <1>6 DEF LoopStarts
<1>7. ASSUME NEW l \in Gen, LoopStops(l)
      PROVE  ControlTypes'
  <2>1. channels[l] \in Gen
    BY <1>7 DEF LoopStops
  <2> QED
    BY <1>7, <2>1 DEF LoopStops, LoopReturns
<1>8. ASSUME NEW l \in Gen, LoopReceives(l)
      PROVE  ControlTypes'
  BY <1>8 DEF LoopReceives
<1>9. ASSUME NEW l \in Gen, ItemDone(l)
      PROVE  ControlTypes'
  BY <1>9 DEF ItemDone
<1>10. ASSUME NEW l \in Gen, ItemFails(l)
      PROVE  ControlTypes'
  BY <1>10 DEF ItemFails
<1>11. ASSUME NEW l \in Gen, RetryDelayOver(l)
      PROVE  ControlTypes'
  BY <1>11 DEF RetryDelayOver
<1>12. ASSUME NEW l \in Gen, ItemFatal(l)
      PROVE  ControlTypes'
  BY <1>12 DEF ItemFatal
<1>13. ASSUME NEW l \in Gen, ReportFatal(l)
      PROVE  ControlTypes'
  <2>1. channels[l] \in Gen
    BY <1>13 DEF ReportFatal
  <2> QED
    BY <1>13, <2>1 DEF ReportFatal, LoopReturns
<1>14. ASSUME NEW p \in Producer, Capture(p)
      PROVE  ControlTypes'
  BY <1>14 DEF Capture
<1>15. ASSUME NEW p \in Producer, Send(p)
      PROVE  ControlTypes'
  BY <1>15 DEF Send, ProducerReturns
<1>16. ASSUME NEW p \in Producer, GiveUp(p)
      PROVE  ControlTypes'
  BY <1>16 DEF GiveUp, ProducerReturns
<1>17. CASE Close
  BY <1>17 DEF Close
<1>18. CASE ReadErrorCh
  BY <1>18 DEF ReadErrorCh
<1> QED
  BY <1>1, <1>2, <1>3, <1>4, <1>5, <1>6, <1>7, <1>8, <1>9, <1>10, <1>11, <1>12, <1>13, <1>14, <1>15, <1>16, <1>17, <1>18
  DEF Next, ResetNext, LoopNext, ProducerNext

\* No step lets a loop and the reset of the handler overlap.
LEMMA ExclusionStep ==
  ASSUME ControlTypes, Exclusion, Next
  PROVE  Exclusion'
<1> USE RunnerAssumption DEF ControlTypes, Exclusion, ResetExclusive, ResetsLeft,
       HandlerAfterLoop, FinishedDead, Future, LoopChannels, Alive, Gen, resetVars, loopVars, producerVars
<1>1. CASE ResetCall
  BY <1>1 DEF ResetCall
<1>2. CASE ResetLoopFinished
  BY <1>2 DEF ResetLoopFinished
<1>3. CASE ResetAborted
  BY <1>3 DEF ResetAborted
<1>4. CASE HandlerResetFails
  BY <1>4 DEF HandlerResetFails
<1>5. CASE HandlerReset
  BY <1>5 DEF HandlerReset
<1>6. ASSUME NEW l \in Gen, LoopStarts(l)
      PROVE  Exclusion'
  BY <1>6 DEF LoopStarts
<1>7. ASSUME NEW l \in Gen, LoopStops(l)
      PROVE  Exclusion'
  BY <1>7 DEF LoopStops, LoopReturns
<1>8. ASSUME NEW l \in Gen, LoopReceives(l)
      PROVE  Exclusion'
  BY <1>8 DEF LoopReceives
<1>9. ASSUME NEW l \in Gen, ItemDone(l)
      PROVE  Exclusion'
  BY <1>9 DEF ItemDone
<1>10. ASSUME NEW l \in Gen, ItemFails(l)
      PROVE  Exclusion'
  BY <1>10 DEF ItemFails
<1>11. ASSUME NEW l \in Gen, RetryDelayOver(l)
      PROVE  Exclusion'
  BY <1>11 DEF RetryDelayOver
<1>12. ASSUME NEW l \in Gen, ItemFatal(l)
      PROVE  Exclusion'
  BY <1>12 DEF ItemFatal
<1>13. ASSUME NEW l \in Gen, ReportFatal(l)
      PROVE  Exclusion'
  BY <1>13 DEF ReportFatal, LoopReturns
<1>14. ASSUME NEW p \in Producer, Capture(p)
      PROVE  Exclusion'
  BY <1>14 DEF Capture
<1>15. ASSUME NEW p \in Producer, Send(p)
      PROVE  Exclusion'
  BY <1>15 DEF Send, ProducerReturns
<1>16. ASSUME NEW p \in Producer, GiveUp(p)
      PROVE  Exclusion'
  BY <1>16 DEF GiveUp, ProducerReturns
<1>17. CASE Close
  BY <1>17 DEF Close
<1>18. CASE ReadErrorCh
  BY <1>18 DEF ReadErrorCh
<1> QED
  BY <1>1, <1>2, <1>3, <1>4, <1>5, <1>6, <1>7, <1>8, <1>9, <1>10, <1>11, <1>12, <1>13, <1>14, <1>15, <1>16, <1>17, <1>18
  DEF Next, ResetNext, LoopNext, ProducerNext

\* No step makes an item that a callback did not make.
LEMMA ItemTypesStep ==
  ASSUME ControlTypes, ItemTypes, QueueTypes, LoopChannels, Next
  PROVE  ItemTypes'
<1> USE RunnerAssumption DEF ControlTypes, ItemTypes, QueueTypes, LoopChannels, Gen, resetVars, loopVars, producerVars
<1>1. CASE ResetCall
  BY <1>1 DEF ResetCall
<1>2. CASE ResetLoopFinished
  BY <1>2 DEF ResetLoopFinished
<1>3. CASE ResetAborted
  BY <1>3 DEF ResetAborted
<1>4. CASE HandlerResetFails
  BY <1>4 DEF HandlerResetFails
<1>5. CASE HandlerReset
  BY <1>5 DEF HandlerReset
<1>6. ASSUME NEW l \in Gen, LoopStarts(l)
      PROVE  ItemTypes'
  BY <1>6 DEF LoopStarts
<1>7. ASSUME NEW l \in Gen, LoopStops(l)
      PROVE  ItemTypes'
  BY <1>7 DEF LoopStops, LoopReturns
<1>8. ASSUME NEW l \in Gen, LoopReceives(l)
      PROVE  ItemTypes'
  <2>1. channels[l] = l /\ Head(queueCh[l]) \in 1..MaxItems
    BY <1>8, LoopTakes
  <2> QED
    BY <1>8, <2>1 DEF LoopReceives
<1>9. ASSUME NEW l \in Gen, ItemDone(l)
      PROVE  ItemTypes'
  BY <1>9 DEF ItemDone
<1>10. ASSUME NEW l \in Gen, ItemFails(l)
      PROVE  ItemTypes'
  BY <1>10 DEF ItemFails
<1>11. ASSUME NEW l \in Gen, RetryDelayOver(l)
      PROVE  ItemTypes'
  BY <1>11 DEF RetryDelayOver
<1>12. ASSUME NEW l \in Gen, ItemFatal(l)
      PROVE  ItemTypes'
  BY <1>12 DEF ItemFatal
<1>13. ASSUME NEW l \in Gen, ReportFatal(l)
      PROVE  ItemTypes'
  BY <1>13 DEF ReportFatal, LoopReturns
<1>14. ASSUME NEW p \in Producer, Capture(p)
      PROVE  ItemTypes'
  BY <1>14 DEF Capture
<1>15. ASSUME NEW p \in Producer, Send(p)
      PROVE  ItemTypes'
  BY <1>15 DEF Send, ProducerReturns
<1>16. ASSUME NEW p \in Producer, GiveUp(p)
      PROVE  ItemTypes'
  BY <1>16 DEF GiveUp, ProducerReturns
<1>17. CASE Close
  BY <1>17 DEF Close
<1>18. CASE ReadErrorCh
  BY <1>18 DEF ReadErrorCh
<1> QED
  BY <1>1, <1>2, <1>3, <1>4, <1>5, <1>6, <1>7, <1>8, <1>9, <1>10, <1>11, <1>12, <1>13, <1>14, <1>15, <1>16, <1>17, <1>18
  DEF Next, ResetNext, LoopNext, ProducerNext

\* No step gives a loop or a callback an item it does not work on.
LEMMA ItemsStep ==
  ASSUME ControlTypes, ItemTypes, QueueTypes, LoopChannels, ResetsLeft, Future, Items, Next
  PROVE  Items'
<1> USE RunnerAssumption DEF ControlTypes, ItemTypes, QueueTypes, LoopChannels, ResetsLeft, Future, Items, LoopItem, SendsItem, Gen, resetVars, loopVars, producerVars
<1>1. CASE ResetCall
  BY <1>1 DEF ResetCall
<1>2. CASE ResetLoopFinished
  BY <1>2 DEF ResetLoopFinished
<1>3. CASE ResetAborted
  BY <1>3 DEF ResetAborted
<1>4. CASE HandlerResetFails
  BY <1>4 DEF HandlerResetFails
<1>5. CASE HandlerReset
  BY <1>5, SMTT(30) DEF HandlerReset
<1>6. ASSUME NEW l \in Gen, LoopStarts(l)
      PROVE  Items'
  BY <1>6, ZenonT(60) DEF LoopStarts
<1>7. ASSUME NEW l \in Gen, LoopStops(l)
      PROVE  Items'
  BY <1>7, SMTT(30) DEF LoopStops, LoopReturns
<1>8. ASSUME NEW l \in Gen, LoopReceives(l)
      PROVE  Items'
  <2>1. channels[l] = l /\ Head(queueCh[l]) \in 1..MaxItems
    BY <1>8, LoopTakes
  <2> QED
    BY <1>8, <2>1, SMTT(30) DEF LoopReceives
<1>9. ASSUME NEW l \in Gen, ItemDone(l)
      PROVE  Items'
  BY <1>9, SMTT(30) DEF ItemDone
<1>10. ASSUME NEW l \in Gen, ItemFails(l)
      PROVE  Items'
  BY <1>10 DEF ItemFails
<1>11. ASSUME NEW l \in Gen, RetryDelayOver(l)
      PROVE  Items'
  BY <1>11 DEF RetryDelayOver
<1>12. ASSUME NEW l \in Gen, ItemFatal(l)
      PROVE  Items'
  BY <1>12 DEF ItemFatal
<1>13. ASSUME NEW l \in Gen, ReportFatal(l)
      PROVE  Items'
  BY <1>13, SMTT(30) DEF ReportFatal, LoopReturns
<1>14. ASSUME NEW p \in Producer, Capture(p)
      PROVE  Items'
  <2>1. items + 1 # None
    OBVIOUS
  <2> QED
    BY <1>14, <2>1 DEF Capture
<1>15. ASSUME NEW p \in Producer, Send(p)
      PROVE  Items'
  BY <1>15 DEF Send, ProducerReturns
<1>16. ASSUME NEW p \in Producer, GiveUp(p)
      PROVE  Items'
  BY <1>16 DEF GiveUp, ProducerReturns
<1>17. CASE Close
  BY <1>17 DEF Close
<1>18. CASE ReadErrorCh
  BY <1>18 DEF ReadErrorCh
<1> QED
  BY <1>1, <1>2, <1>3, <1>4, <1>5, <1>6, <1>7, <1>8, <1>9, <1>10, <1>11, <1>12, <1>13, <1>14, <1>15, <1>16, <1>17, <1>18
  DEF Next, ResetNext, LoopNext, ProducerNext

\* No step overfills a queue or puts on it what is not an item.
LEMMA QueueStep ==
  ASSUME ControlTypes, ItemTypes, QueueTypes, LoopChannels, Items, Next
  PROVE  QueueTypes'
<1> USE RunnerAssumption DEF ControlTypes, ItemTypes, QueueTypes, LoopChannels, Items, LoopItem, SendsItem, Gen, resetVars, loopVars, producerVars
<1>1. CASE ResetCall
  BY <1>1 DEF ResetCall
<1>2. CASE ResetLoopFinished
  BY <1>2 DEF ResetLoopFinished
<1>3. CASE ResetAborted
  BY <1>3 DEF ResetAborted
<1>4. CASE HandlerResetFails
  BY <1>4 DEF HandlerResetFails
<1>5. CASE HandlerReset
  BY <1>5 DEF HandlerReset
<1>6. ASSUME NEW l \in Gen, LoopStarts(l)
      PROVE  QueueTypes'
  BY <1>6 DEF LoopStarts
<1>7. ASSUME NEW l \in Gen, LoopStops(l)
      PROVE  QueueTypes'
  BY <1>7 DEF LoopStops, LoopReturns
<1>8. ASSUME NEW l \in Gen, LoopReceives(l)
      PROVE  QueueTypes'
  <2>1. queueCh' = [queueCh EXCEPT ![channels[l]] = Tail(@)] /\ UNCHANGED <<accepted, executed>>
    BY <1>8 DEF LoopReceives
  <2>2. /\ channels[l] = l
        /\ Tail(queueCh[l]) \in Seq(1..MaxItems)
        /\ Len(Tail(queueCh[l])) <= QueueChannelSize
    BY <1>8, LoopTakes
  <2>3. queueCh' \in [Gen -> Seq(1..MaxItems)]
    BY <2>1, <2>2
  <2>4. \A g \in Gen : Len(queueCh'[g]) <= QueueChannelSize
    BY <2>1, <2>2
  <2> QED
    BY <2>1, <2>3, <2>4
<1>9. ASSUME NEW l \in Gen, ItemDone(l)
      PROVE  QueueTypes'
  <2>1. loopPc[l] = "execute" /\ current[l] # None /\ channels[l] = l
    BY <1>9 DEF ItemDone
  <2>2. current[l] \in 1..MaxItems
    BY <2>1
  <2>3. executed' = [executed EXCEPT ![l] = Append(@, current[l])]
    BY <1>9, <2>1 DEF ItemDone
  <2>4. executed' \in [Gen -> Seq(1..MaxItems)]
    BY <2>2, <2>3
  <2> QED
    BY <1>9, <2>4 DEF ItemDone
<1>10. ASSUME NEW l \in Gen, ItemFails(l)
      PROVE  QueueTypes'
  BY <1>10 DEF ItemFails
<1>11. ASSUME NEW l \in Gen, RetryDelayOver(l)
      PROVE  QueueTypes'
  BY <1>11 DEF RetryDelayOver
<1>12. ASSUME NEW l \in Gen, ItemFatal(l)
      PROVE  QueueTypes'
  BY <1>12 DEF ItemFatal
<1>13. ASSUME NEW l \in Gen, ReportFatal(l)
      PROVE  QueueTypes'
  BY <1>13 DEF ReportFatal, LoopReturns
<1>14. ASSUME NEW p \in Producer, Capture(p)
      PROVE  QueueTypes'
  BY <1>14 DEF Capture
<1>15. ASSUME NEW p \in Producer, Send(p)
      PROVE  QueueTypes'
  BY <1>15, SMTT(30) DEF Send, ProducerReturns
<1>16. ASSUME NEW p \in Producer, GiveUp(p)
      PROVE  QueueTypes'
  BY <1>16 DEF GiveUp, ProducerReturns
<1>17. CASE Close
  BY <1>17 DEF Close
<1>18. CASE ReadErrorCh
  BY <1>18 DEF ReadErrorCh
<1> QED
  BY <1>1, <1>2, <1>3, <1>4, <1>5, <1>6, <1>7, <1>8, <1>9, <1>10, <1>11, <1>12, <1>13, <1>14, <1>15, <1>16, <1>17, <1>18
  DEF Next, ResetNext, LoopNext, ProducerNext

\* Inv is inductive.
LEMMA InvNext == Inv /\ [Next]_vars => Inv'
<1>1. ASSUME Inv, Next
      PROVE  Inv'
  BY <1>1, ControlStep, ExclusionStep, ItemTypesStep, ItemsStep, QueueStep DEF Inv, TypeOK, Exclusion
<1>2. ASSUME Inv, UNCHANGED vars
      PROVE  Inv'
  BY <1>2 DEF Inv, TypeOK, ControlTypes, ItemTypes, QueueTypes, Exclusion, ResetExclusive,
              ResetsLeft, HandlerAfterLoop, FinishedDead, Future, LoopChannels, Alive,
              Items, LoopItem, SendsItem, vars, resetVars, loopVars, producerVars
<1> QED
  BY <1>1, <1>2

\* Inv holds in every state that the runner reaches.
THEOREM InvCorrect == Spec => []Inv
<1>1. NewBlockIndexerRunner => Inv
  BY InvInit
<1>2. Inv /\ [Next]_vars => Inv'
  BY InvNext
<1> QED
  BY <1>1, <1>2, PTL DEF Spec

\* Channels and program counters keep their types, and no queue holds more than
\* QueueChannelSize items.
THEOREM TypeCorrect == Spec => []TypeOK
<1>1. Inv => TypeOK
  BY DEF Inv, Exclusion
<1> QED
  BY <1>1, InvCorrect, PTL

\* The indexer is never reset under a running loop, and there is one loop at most.
THEOREM ResetExclusiveCorrect == Spec => []ResetExclusive
<1>1. Inv => ResetExclusive
  BY DEF Inv, Exclusion
<1> QED
  BY <1>1, InvCorrect, PTL

\* No item of an earlier generation is executed: the loop that executes is the
\* loop of the runner's channels.
THEOREM NoStaleItemCorrect == Spec => NoStaleItem
<1>1. ASSUME Inv, [Next]_vars, NEW g \in Gen, executed'[g] # executed[g]
      PROVE  g = gen
  <2>1. PICK l \in Gen : ItemDone(l)
    BY <1>1 DEF Next, ResetNext, LoopNext, ProducerNext, vars, resetVars, loopVars, producerVars,
         ResetCall, ResetLoopFinished, ResetAborted, HandlerResetFails, HandlerReset, LoopStarts,
         LoopStops, LoopReceives, ItemFails, RetryDelayOver, ItemFatal, ReportFatal, Capture, Send,
         GiveUp, ProducerReturns, Close, ReadErrorCh
  <2>2. l = gen /\ channels[l] = l
    BY <1>1, <2>1 DEF Inv, Exclusion, ResetExclusive, LoopChannels, Alive, ItemDone
  <2>3. executed' = [executed EXCEPT ![l] = Append(@, current[l])]
    BY <2>1, <2>2 DEF ItemDone
  <2> QED
    BY <1>1, <2>2, <2>3 DEF Inv, TypeOK, QueueTypes
<1>2. Inv /\ [Next]_vars => [\A g \in Gen : executed'[g] # executed[g] => g = gen]_vars
  BY <1>1
<1> QED
  BY <1>2, InvCorrect, PTL DEF Spec, NoStaleItem
-----------------------------------------------------------------------------

\* Receiving moves the head of the queue into the hand.
LEMMA ReceiveKeepsOrder ==
  ASSUME NEW S, NEW e \in Seq(S), NEW q \in Seq(S), q # << >>
  PROVE  e \o << >> \o q = e \o <<Head(q)>> \o Tail(q)
<1>1. Head(q) \in S /\ Tail(q) \in Seq(S)
  BY HeadTailProperties
<1>2. q = <<Head(q)>> \o Tail(q)
  <2> DEFINE r == <<Head(q)>> \o Tail(q)
  <2>1. <<Head(q)>> \in Seq(S) /\ Len(<<Head(q)>>) = 1 /\ <<Head(q)>>[1] = q[1]
    BY <1>1
  <2>2. Len(q) \in Nat \ {0} /\ Len(Tail(q)) = Len(q) - 1
    BY HeadTailProperties, LenProperties, EmptySeq
  <2>3. r \in Seq(S) /\ Len(r) = Len(q)
    BY <1>1, <2>1, <2>2, ConcatProperties
  <2>4. \A i \in 1..Len(q) : r[i] = IF i <= 1 THEN <<Head(q)>>[i] ELSE Tail(q)[i - 1]
    BY <1>1, <2>1, <2>2, ConcatProperties
  <2>5. \A i \in 1..Len(q) : r[i] = q[i]
    BY <2>1, <2>2, <2>4, HeadTailProperties
  <2> QED
    BY <2>3, <2>5, SeqEqual
<1>3. e \o << >> = e
  BY ConcatEmptySeq
<1> QED
  BY <1>1, <1>2, <1>3, ConcatAssociative

\* Executing moves the item in hand to the executed ones.
LEMMA ExecuteKeepsOrder ==
  ASSUME NEW S, NEW e \in Seq(S), NEW q \in Seq(S), NEW x \in S
  PROVE  e \o <<x>> \o q = Append(e, x) \o << >> \o q
<1>1. Append(e, x) = e \o <<x>> /\ Append(e, x) \in Seq(S)
  BY AppendIsConcat, AppendProperties
<1> QED
  BY <1>1, ConcatEmptySeq

\* No step disturbs the order of the items.
LEMMA InOrderStep ==
  ASSUME Inv, InOrder, Next
  PROVE  InOrder'
<1> DEFINE Item == 1..MaxItems
           Ordered == {"none", "starting", "select", "execute", "retry"}
<1> SUFFICES ASSUME NEW g \in Gen, loopPc'[g] \in Ordered
             PROVE  accepted'[g] = executed'[g] \o InHand(g)' \o queueCh'[g]
  BY DEF InOrder
<1>1. /\ accepted \in [Gen -> Seq(Item)] /\ executed \in [Gen -> Seq(Item)]
      /\ queueCh \in [Gen -> Seq(Item)] /\ current \in [Gen -> Item \cup {None}]
      /\ DOMAIN loopPc = Gen
  BY DEF Inv, TypeOK, QueueTypes, ItemTypes, ControlTypes
<1>2. InHand(g) \in Seq(Item)
  <2>1. CASE current[g] = None
    BY <2>1 DEF InHand
  <2>2. CASE current[g] # None
    <3>1. current[g] \in Item
      BY <1>1, <2>2
    <3> HIDE DEF Item
    <3>2. <<current[g]>> \in Seq(Item)
      BY <3>1
    <3> QED
      BY <2>2, <3>2 DEF InHand
  <2> QED
    BY <2>1, <2>2
<1>3. loopPc[g] \in Ordered => accepted[g] = executed[g] \o InHand(g) \o queueCh[g]
  BY DEF InOrder
<1>4. \A l \in Gen : loopPc[l] \notin {"none", "starting"} => channels[l] = l
  BY DEF Inv, Exclusion, LoopChannels
<1>5. ASSUME loopPc[g] \in Ordered, UNCHANGED <<accepted, executed, queueCh>>, current'[g] = current[g]
      PROVE  accepted'[g] = executed'[g] \o InHand(g)' \o queueCh'[g]
  BY <1>3, <1>5 DEF InHand
<1> USE DEF resetVars, loopVars, producerVars
<1>6. CASE ResetNext
  <2>1. loopPc'[g] = loopPc[g] \/ loopPc[g] = "none"
    <3>1. CASE HandlerReset
      <4>1. gen \in Nat /\ loopPc' = [loopPc EXCEPT ![gen + 1] = "starting"]
        BY <3>1 DEF HandlerReset, Inv, TypeOK, ControlTypes, Gen
      <4>2. g = gen + 1 => loopPc[g] = "none"
        BY <4>1 DEF Inv, Exclusion, Future
      <4> QED
        BY <1>1, <4>1, <4>2
    <3>2. CASE ~HandlerReset
      BY <1>6, <3>2 DEF ResetNext, ResetCall, ResetLoopFinished, ResetAborted, HandlerResetFails
    <3> QED
      BY <3>1, <3>2
  <2> QED
    BY <1>5, <1>6, <2>1 DEF ResetNext, ResetCall, ResetLoopFinished, ResetAborted,
         HandlerResetFails, HandlerReset
<1>7. CASE Close \/ ReadErrorCh
  BY <1>5, <1>7 DEF Close, ReadErrorCh
<1>8. ASSUME NEW p \in Producer, Capture(p) \/ GiveUp(p)
      PROVE  accepted'[g] = executed'[g] \o InHand(g)' \o queueCh'[g]
  BY <1>5, <1>8 DEF Capture, GiveUp, ProducerReturns
<1>9. ASSUME NEW p \in Producer, Send(p)
      PROVE  accepted'[g] = executed'[g] \o InHand(g)' \o queueCh'[g]
  <2>1. sending[p] \in Item
    BY <1>9 DEF Send, Inv, TypeOK, ItemTypes, Items, SendsItem
  <2>2. UNCHANGED <<loopPc, executed, current>>
    BY <1>9 DEF Send, ProducerReturns
  <2>3. CASE captured[p] = g
    <3>1. /\ accepted'[g] = Append(accepted[g], sending[p])
          /\ queueCh'[g] = Append(queueCh[g], sending[p])
      BY <1>1, <1>9, <2>3 DEF Send
    <3>2. accepted[g] = executed[g] \o InHand(g) \o queueCh[g]
      BY <1>3, <2>2
    <3>3. accepted[g] \in Seq(Item) /\ executed[g] \in Seq(Item) /\ queueCh[g] \in Seq(Item)
      BY <1>1
    <3> HIDE DEF Item
    <3>4. PICK sent \in Seq(Item) : /\ accepted'[g] = accepted[g] \o sent
                                 /\ queueCh'[g] = queueCh[g] \o sent
      <4>1. <<sending[p]>> \in Seq(Item)
        BY <2>1
      <4>2. /\ accepted'[g] = accepted[g] \o <<sending[p]>>
            /\ queueCh'[g] = queueCh[g] \o <<sending[p]>>
        BY ONLY <2>1, <3>1, <3>3, AppendIsConcat
      <4> QED
        BY ONLY <4>1, <4>2, Zenon
    <3>5. PICK before \in Seq(Item) : before = executed[g] \o InHand(g)
      BY ONLY <1>2, <3>3, ConcatProperties
    <3>6. PICK queue \in Seq(Item) : queue = queueCh[g]
      BY <3>3
    <3>7. before \o queue \o sent = before \o (queue \o sent)
      BY ConcatAssociative
    <3>8. InHand(g)' = InHand(g) /\ executed'[g] = executed[g]
      BY <2>2 DEF InHand
    <3> QED
      BY ONLY <3>2, <3>4, <3>5, <3>6, <3>7, <3>8
  <2>4. CASE captured[p] # g
    <3>1. accepted'[g] = accepted[g] /\ queueCh'[g] = queueCh[g]
      BY <1>1, <1>9, <2>4 DEF Send
    <3> QED
      BY <1>3, <2>2, <3>1 DEF InHand
  <2> QED
    BY <2>3, <2>4
<1>10. ASSUME NEW l \in Gen, LoopStarts(l) \/ ItemFails(l) \/ RetryDelayOver(l) \/ ItemFatal(l)
       PROVE  accepted'[g] = executed'[g] \o InHand(g)' \o queueCh'[g]
  <2>1. UNCHANGED <<accepted, executed, queueCh, current>>
    BY <1>10 DEF LoopStarts, ItemFails, RetryDelayOver, ItemFatal
  <2>2. loopPc[g] \in Ordered
    BY <1>1, <1>10 DEF LoopStarts, ItemFails, RetryDelayOver, ItemFatal
  <2> QED
    BY <1>5, <2>1, <2>2
<1>11. ASSUME NEW l \in Gen, LoopStops(l) \/ ReportFatal(l)
       PROVE  accepted'[g] = executed'[g] \o InHand(g)' \o queueCh'[g]
  <2>1. g # l /\ loopPc'[g] = loopPc[g] /\ current'[g] = current[g]
    BY <1>1, <1>11 DEF LoopStops, ReportFatal, LoopReturns
  <2> QED
    BY <1>5, <1>11, <2>1 DEF LoopStops, ReportFatal
<1>12. ASSUME NEW l \in Gen, LoopReceives(l)
       PROVE  accepted'[g] = executed'[g] \o InHand(g)' \o queueCh'[g]
  <2>1. channels[l] = l /\ Head(queueCh[l]) \in Item /\ current[l] = None /\ queueCh[l] # << >>
    BY <1>4, <1>12, LoopTakes DEF LoopReceives, Inv, TypeOK, Exclusion, Items, LoopItem
  <2>2. UNCHANGED <<accepted, executed>>
    BY <1>12 DEF LoopReceives
  <2>3. CASE g = l
    <3>1. queueCh'[g] = Tail(queueCh[g]) /\ current'[g] = Head(queueCh[g]) /\ loopPc[g] = "select"
      BY <1>1, <1>12, <2>1, <2>3 DEF LoopReceives
    <3>2. InHand(g) = << >> /\ InHand(g)' = <<Head(queueCh[g])>>
      BY <2>1, <2>3, <3>1, RunnerAssumption DEF InHand
    <3>3. executed[g] \o << >> \o queueCh[g]
            = executed[g] \o <<Head(queueCh[g])>> \o Tail(queueCh[g])
      BY <1>1, <2>1, <2>3, ReceiveKeepsOrder
    <3> QED
      BY <1>3, <2>2, <3>1, <3>2, <3>3
  <2>4. CASE g # l
    BY <1>1, <1>3, <1>12, <2>1, <2>2, <2>4 DEF LoopReceives, InHand
  <2> QED
    BY <2>3, <2>4
<1>13. ASSUME NEW l \in Gen, ItemDone(l)
       PROVE  accepted'[g] = executed'[g] \o InHand(g)' \o queueCh'[g]
  <2>1. channels[l] = l /\ current[l] \in Item
    BY <1>1, <1>4, <1>13 DEF ItemDone, Inv, Items, LoopItem
  <2>2. UNCHANGED <<accepted, queueCh>>
    BY <1>13 DEF ItemDone
  <2>3. CASE g = l
    <3>1. /\ executed'[g] = Append(executed[g], current[g]) /\ current'[g] = None
          /\ loopPc[g] = "execute"
      BY <1>1, <1>13, <2>1, <2>3 DEF ItemDone
    <3>2. InHand(g) = <<current[g]>> /\ InHand(g)' = << >>
      BY <2>1, <2>3, <3>1, RunnerAssumption DEF InHand
    <3> QED
      BY <1>1, <1>3, <2>1, <2>2, <2>3, <3>1, <3>2, ExecuteKeepsOrder
  <2>4. CASE g # l
    BY <1>1, <1>3, <1>13, <2>1, <2>2, <2>4 DEF ItemDone, InHand
  <2> QED
    BY <2>3, <2>4
<1> QED
  BY <1>6, <1>7, <1>8, <1>9, <1>10, <1>11, <1>12, <1>13 DEF Next, LoopNext, ProducerNext

\* The handler gets the items of a generation in the order the queue took them,
\* for any size of the queue and any number of callbacks.
THEOREM InOrderCorrect == Spec => []InOrder
<1>1. NewBlockIndexerRunner => InOrder
  BY ConcatEmptySeq DEF NewBlockIndexerRunner, InOrder, InHand
<1>2. Inv /\ InOrder /\ [Next]_vars => InOrder'
  <2>1. ASSUME Inv, InOrder, UNCHANGED vars
        PROVE  InOrder'
    BY <2>1 DEF InOrder, InHand, vars, loopVars
  <2> QED
    BY <2>1, InOrderStep
<1> QED
  BY <1>1, <1>2, InvCorrect, PTL DEF Spec
=============================================================================
