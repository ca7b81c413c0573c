------------------------- MODULE BlockIndexerRunner -------------------------
(***************************************************************************)
(* BlockIndexerRunner of indexer/block_indexer_runner.go: a main loop that *)
(* executes queued items one by one, callbacks that put items on the queue,*)
(* and Reset, which replaces the loop and its three channels.              *)
(*                                                                         *)
(* Reset number g makes the channels of generation g and starts loop g; the*)
(* channels of generation 0 are those of NewBlockIndexerRunner.  The caller*)
(* of Reset (the syncer) makes one call at a time; callbacks and Close come*)
(* from other goroutines at any time.                                      *)
(***************************************************************************)
EXTENDS Integers, Sequences

CONSTANTS Producer,           \* goroutines that call RollForward and RollBackward
          QueueChannelSize,
          MaxGen,             \* bound on the number of successful Resets
          MaxItems,           \* bound on the number of items
          None

ASSUME RunnerAssumption ==
  /\ QueueChannelSize \in Nat \ {0}
  /\ MaxGen \in Nat /\ MaxItems \in Nat
  /\ None \notin Nat

VARIABLES gen,        \* generation of the channels in the runner's fields
          queueCh,    \* by generation: what the channel holds
          stopped,    \* generations whose stopLoopCh is closed
          finished,   \* generations whose loopFinishedCh is closed
          closed,     \* closeCh is closed
          errorCh,    \* number of errors in errorCh, which has room for one
          resetPc,    \* where the caller of Reset is
          loopPc,     \* by generation: where the loop that Reset started is
          channels,   \* by generation: the channels that loop has read
          current,    \* by generation: the item being executed, or None
          producerPc,
          captured,   \* by producer: the channels it has read
          sending,    \* by producer: its item, or None
          items,      \* number of items made so far
          accepted,   \* by generation: items the queue took (history)
          executed    \* by generation: items the handler is done with (history)

resetVars == <<gen, stopped, resetPc>>
loopVars == <<finished, loopPc, channels, current, executed>>
producerVars == <<producerPc, captured, sending, items>>
vars == <<resetVars, loopVars, producerVars, queueCh, closed, errorCh, accepted>>

Gen == 0..MaxGen

NewBlockIndexerRunner ==
  /\ gen = 0
  /\ queueCh = [g \in Gen |-> << >>]
  /\ stopped = {}
  /\ finished = {0}
  /\ closed = FALSE
  /\ errorCh = 0
  /\ resetPc = "idle"
  /\ loopPc = [g \in Gen |-> "none"]
  /\ channels = [g \in Gen |-> None]
  /\ current = [g \in Gen |-> None]
  /\ producerPc = [p \in Producer |-> "idle"]
  /\ captured = [p \in Producer |-> None]
  /\ sending = [p \in Producer |-> None]
  /\ items = 0
  /\ accepted = [g \in Gen |-> << >>]
  /\ executed = [g \in Gen |-> << >>]

Close ==
  /\ ~closed
  /\ closed' = TRUE
  /\ UNCHANGED <<resetVars, loopVars, producerVars, queueCh, errorCh, accepted>>

-----------------------------------------------------------------------------
(* RollForward and RollBackward *)

\* Under the read lock the callback takes the channels of the moment.
Capture(p) ==
  /\ producerPc[p] = "idle"
  /\ items < MaxItems
  /\ items' = items + 1
  /\ producerPc' = [producerPc EXCEPT ![p] = "sending"]
  /\ captured' = [captured EXCEPT ![p] = gen]
  /\ sending' = [sending EXCEPT ![p] = items']
  /\ UNCHANGED <<resetVars, loopVars, queueCh, closed, errorCh, accepted>>

ProducerReturns(p) ==
  /\ producerPc' = [producerPc EXCEPT ![p] = "idle"]
  /\ captured' = [captured EXCEPT ![p] = None]
  /\ sending' = [sending EXCEPT ![p] = None]
  /\ UNCHANGED <<resetVars, loopVars, closed, errorCh, items>>

Send(p) ==
  /\ producerPc[p] = "sending"
  /\ LET g == captured[p]
     IN  /\ Len(queueCh[g]) < QueueChannelSize
         /\ queueCh' = [queueCh EXCEPT ![g] = Append(@, sending[p])]
         /\ accepted' = [accepted EXCEPT ![g] = Append(@, sending[p])]
  /\ ProducerReturns(p)

\* Mutant of GiveUp: the callback does not listen to closeCh.
GiveUpWhenStopped(p) ==
  /\ producerPc[p] = "sending"
  /\ captured[p] \in stopped
  /\ ProducerReturns(p)
  /\ UNCHANGED <<queueCh, accepted>>

\* The item is dropped, and the callback still returns no error.
GiveUp(p) ==
  /\ producerPc[p] = "sending"
  /\ closed \/ captured[p] \in stopped
  /\ ProducerReturns(p)
  /\ UNCHANGED <<queueCh, accepted>>

-----------------------------------------------------------------------------
(* Reset *)

\* Closing a closed channel panics.
ResetCall ==
  /\ resetPc = "idle"
  /\ gen < MaxGen
  /\ \/ gen \notin stopped /\ stopped' = stopped \cup {gen} /\ resetPc' = "waiting"
     \/ gen \in stopped /\ resetPc' = "panicked" /\ UNCHANGED stopped
  /\ UNCHANGED <<gen, loopVars, producerVars, queueCh, closed, errorCh, accepted>>

\* Mutant of ResetLoopFinished: Reset does not wait for the loop.
ResetWithoutWaiting ==
  /\ resetPc = "waiting"
  /\ resetPc' = "handler"
  /\ UNCHANGED <<gen, stopped, loopVars, producerVars, queueCh, closed, errorCh, accepted>>

ResetLoopFinished ==
  /\ resetPc = "waiting"
  /\ gen \in finished
  /\ resetPc' = "handler"
  /\ UNCHANGED <<gen, stopped, loopVars, producerVars, queueCh, closed, errorCh, accepted>>

\* The runner is being closed: Reset returns the zero point and no error.
ResetAborted ==
  /\ resetPc = "waiting"
  /\ closed
  /\ resetPc' = "idle"
  /\ UNCHANGED <<gen, stopped, loopVars, producerVars, queueCh, closed, errorCh, accepted>>

HandlerResetFails ==
  /\ resetPc = "handler"
  /\ resetPc' = "idle"
  /\ UNCHANGED <<gen, stopped, loopVars, producerVars, queueCh, closed, errorCh, accepted>>

\* The handler was reset: new channels, and a new loop.
HandlerReset ==
  /\ resetPc = "handler"
  /\ gen' = gen + 1
  /\ loopPc' = [loopPc EXCEPT ![gen'] = "starting"]
  /\ resetPc' = "idle"
  /\ UNCHANGED <<stopped, finished, channels, current, executed, producerVars,
                 queueCh, closed, errorCh, accepted>>

-----------------------------------------------------------------------------
(* runMainLoop and execute *)

\* The goroutine starts at some later time and then reads the fields.
LoopStarts(l) ==
  /\ loopPc[l] = "starting"
  /\ channels' = [channels EXCEPT ![l] = gen]
  /\ loopPc' = [loopPc EXCEPT ![l] = "select"]
  /\ UNCHANGED <<resetVars, finished, current, executed, producerVars, queueCh,
                 closed, errorCh, accepted>>

\* The deferred close of loopFinishedCh.
LoopReturns(l) ==
  /\ loopPc' = [loopPc EXCEPT ![l] = "done"]
  /\ finished' = finished \cup {channels[l]}
  /\ UNCHANGED channels

\* Mutant of LoopStops: waiting to retry an item cannot be interrupted.
LoopStopsBetweenItems(l) ==
  /\ loopPc[l] = "select"
  /\ closed \/ channels[l] \in stopped
  /\ LoopReturns(l)
  /\ current' = [current EXCEPT ![l] = None]
  /\ UNCHANGED <<resetVars, executed, producerVars, queueCh, closed, errorCh, accepted>>

\* closeCh or stopLoopCh, at the top of the loop or while waiting to retry.
LoopStops(l) ==
  /\ loopPc[l] \in {"select", "retry"}
  /\ closed \/ channels[l] \in stopped
  /\ LoopReturns(l)
  /\ current' = [current EXCEPT ![l] = None]
  /\ UNCHANGED <<resetVars, executed, producerVars, queueCh, closed, errorCh, accepted>>

\* With several channels ready select picks any, so a stopped loop may still
\* take an item.
LoopReceives(l) ==
  /\ loopPc[l] = "select"
  /\ queueCh[channels[l]] # << >>
  /\ current' = [current EXCEPT ![l] = Head(queueCh[channels[l]])]
  /\ queueCh' = [queueCh EXCEPT ![channels[l]] = Tail(@)]
  /\ loopPc' = [loopPc EXCEPT ![l] = "execute"]
  /\ UNCHANGED <<resetVars, finished, channels, executed, producerVars,
                 closed, errorCh, accepted>>

\* The handler succeeded, or failed with an error that is not retried.
ItemDone(l) ==
  /\ loopPc[l] = "execute"
  /\ executed' = [executed EXCEPT ![channels[l]] = Append(@, current[l])]
  /\ current' = [current EXCEPT ![l] = None]
  /\ loopPc' = [loopPc EXCEPT ![l] = "select"]
  /\ UNCHANGED <<resetVars, finished, channels, producerVars, queueCh, closed,
                 errorCh, accepted>>

\* processConfirmedBlockError.
ItemFails(l) ==
  /\ loopPc[l] = "execute"
  /\ loopPc' = [loopPc EXCEPT ![l] = "retry"]
  /\ UNCHANGED <<resetVars, finished, channels, current, executed, producerVars,
                 queueCh, closed, errorCh, accepted>>

\* Mutant of RetryDelayOver: the loop goes on with the next item.
RetryNextItem(l) ==
  /\ loopPc[l] = "retry"
  /\ loopPc' = [loopPc EXCEPT ![l] = "select"]
  /\ current' = [current EXCEPT ![l] = None]
  /\ UNCHANGED <<resetVars, finished, channels, executed, producerVars,
                 queueCh, closed, errorCh, accepted>>

RetryDelayOver(l) ==
  /\ loopPc[l] = "retry"
  /\ loopPc' = [loopPc EXCEPT ![l] = "execute"]
  /\ UNCHANGED <<resetVars, finished, channels, current, executed, producerVars,
                 queueCh, closed, errorCh, accepted>>

\* ErrBlockIndexerFatal.
ItemFatal(l) ==
  /\ loopPc[l] = "execute"
  /\ loopPc' = [loopPc EXCEPT ![l] = "report"]
  /\ UNCHANGED <<resetVars, finished, channels, current, executed, producerVars,
                 queueCh, closed, errorCh, accepted>>

\* The send blocks while errorCh is full, whatever is stopped or closed.
ReportFatal(l) ==
  /\ loopPc[l] = "report"
  /\ errorCh = 0
  /\ errorCh' = 1
  /\ LoopReturns(l)
  /\ current' = [current EXCEPT ![l] = None]
  /\ UNCHANGED <<resetVars, executed, producerVars, queueCh, closed, accepted>>

\* Whoever holds ErrorCh() may receive from it, once, again and again, or never:
\* main.go never does.
ReadErrorCh ==
  /\ errorCh = 1
  /\ errorCh' = 0
  /\ UNCHANGED <<resetVars, loopVars, producerVars, queueCh, closed, accepted>>

-----------------------------------------------------------------------------

ResetNext ==
  ResetCall \/ ResetLoopFinished \/ ResetAborted \/ HandlerResetFails \/ HandlerReset

LoopNext(l) ==
  \/ LoopStarts(l) \/ LoopStops(l) \/ LoopReceives(l)
  \/ ItemDone(l) \/ ItemFails(l) \/ RetryDelayOver(l)
  \/ ItemFatal(l) \/ ReportFatal(l)

ProducerNext(p) == Capture(p) \/ Send(p) \/ GiveUp(p)

\* A panic in Reset ends the process.
Next ==
  /\ resetPc # "panicked"
  /\ \/ Close
     \/ ResetNext
     \/ \E p \in Producer : ProducerNext(p)
     \/ \E l \in Gen : LoopNext(l)
     \/ ReadErrorCh

Spec == NewBlockIndexerRunner /\ [][Next]_vars

\* Every goroutine that can go on does; ResetCall, Close and Capture are the
\* callers' choice, and so is ReadErrorCh: nobody has to read errors.  A handler
\* call returns.
FairSpec ==
  /\ Spec
  /\ WF_vars(ResetLoopFinished \/ ResetAborted)
  /\ WF_vars(HandlerResetFails \/ HandlerReset)
  /\ \A p \in Producer : WF_vars(Send(p) \/ GiveUp(p))
  /\ \A l \in Gen :
       /\ WF_vars(LoopStarts(l)) /\ WF_vars(ReportFatal(l))
       /\ SF_vars(LoopStops(l))
       /\ WF_vars(LoopReceives(l) \/ LoopStops(l))
       /\ WF_vars(ItemDone(l) \/ ItemFails(l) \/ ItemFatal(l))
       /\ WF_vars(RetryDelayOver(l) \/ LoopStops(l))

-----------------------------------------------------------------------------
(* Properties *)

ControlTypes ==
  /\ gen \in Gen
  /\ stopped \subseteq Gen /\ finished \subseteq Gen
  /\ closed \in BOOLEAN /\ errorCh \in {0, 1}
  /\ resetPc \in {"idle", "waiting", "handler", "panicked"}
  /\ loopPc \in [Gen -> {"none", "starting", "select", "execute", "retry", "report", "done"}]
  /\ channels \in [Gen -> Gen \cup {None}]
  /\ producerPc \in [Producer -> {"idle", "sending"}]
  /\ captured \in [Producer -> Gen \cup {None}]

ItemTypes ==
  /\ current \in [Gen -> (1..MaxItems) \cup {None}]
  /\ sending \in [Producer -> (1..MaxItems) \cup {None}]
  /\ items \in 0..MaxItems

QueueTypes ==
  /\ queueCh \in [Gen -> Seq(1..MaxItems)]
  /\ \A g \in Gen : Len(queueCh[g]) <= QueueChannelSize
  /\ accepted \in [Gen -> Seq(1..MaxItems)]
  /\ executed \in [Gen -> Seq(1..MaxItems)]

\* Every program counter and channel has one of the values the code can give it,
\* and no queue holds more than it has room for.
TypeOK == ControlTypes /\ ItemTypes /\ QueueTypes

Alive(l) == loopPc[l] \notin {"none", "done"}

\* The indexer is reset only while no loop can call it, and there is never more
\* than one loop, although Close lets Reset return before the loop has ended.
ResetExclusive ==
  /\ \A l \in Gen : Alive(l) => l = gen /\ resetPc # "handler"
  /\ \A l \in Gen : channels[l] # None => channels[l] = l

InHand(g) == IF current[g] = None THEN << >> ELSE <<current[g]>>

\* The handler gets the items of a generation in the order the queue took them,
\* none twice and none left out, through any number of retries.
InOrder ==
  \A g \in Gen :
    loopPc[g] \in {"none", "starting", "select", "execute", "retry"} =>
      accepted[g] = executed[g] \o InHand(g) \o queueCh[g]

\* No item that was taken before a Reset reaches the handler after it.
NoStaleItem ==
  [][\A g \in Gen : executed'[g] # executed[g] => g = gen]_vars

\* The loop has a fatal error to report while an earlier one is still unread.
Unread(l) == loopPc[l] = "report" /\ errorCh = 1

CallersReturned ==
  /\ \A p \in Producer : producerPc[p] = "idle"
  /\ resetPc = "idle"

\* After Close every callback and a running Reset come to an end, and so does the
\* loop, unless it has a second fatal error to report and the first is never
\* read: the send of errorCh listens neither to closeCh nor to stopLoopCh, and
\* such a loop outlives the runner.  A panic of Reset ends the process.
CloseEndsAll ==
  closed ~> \/ resetPc = "panicked"
            \/ CallersReturned /\ \A l \in Gen : ~Alive(l)
            \/ [](CallersReturned /\ \A l \in Gen : Alive(l) => Unread(l))

\* A Reset returns, or the process is gone: it never waits for ever for a loop
\* that is retrying or executing.  The one loop it may wait for without end is
\* that with a second fatal error while the first is never read and the runner
\* is never closed.
ResetReturns ==
  resetPc \in {"waiting", "handler"} ~>
    \/ resetPc \in {"idle", "panicked"}
    \/ [](resetPc = "waiting" /\ ~closed /\ Unread(gen))

\* A Reset can always be followed by another one.
ResetNeverPanics == resetPc # "panicked"
=============================================================================
