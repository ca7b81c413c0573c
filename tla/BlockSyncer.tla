----------------------------- MODULE BlockSyncer -----------------------------
(***************************************************************************)
(* BlockSyncerImpl of indexer/gouroboros/block_syncer.go: Sync, which      *)
(* replaces the connection to the node, the goroutine that waits for the   *)
(* asynchronous error of each connection and syncs again, and Close.       *)
(*                                                                         *)
(* Thread 0 is the application, which may call Sync at any time; thread c  *)
(* is the errorHandler of connection c.  A connection is known from how it *)
(* is used here: it reports at most one error, its error channel is closed *)
(* when it is, and closing a closed connection does nothing.               *)
(***************************************************************************)
EXTENDS Integers

CONSTANTS SyncStartTries,
          RestartOnError,
          MaxConn           \* bound on the number of connections dialed

ASSUME SyncerAssumption ==
  /\ SyncStartTries \in Nat \ {0}
  /\ RestartOnError \in BOOLEAN
  /\ MaxConn \in Nat

Conn == 1..MaxConn
App == 0
Thread == {App} \cup Conn
NoConn == 0
NoThread == -1

VARIABLES connection,  \* bs.connection
          connState,   \* by connection: not yet made, open or closed
          connErr,     \* by connection: what its error channel holds
          lock,        \* the thread in syncExecute, or NoThread
          closed,      \* isClosed, and with it closeCh
          errorCh,     \* number of errors in errorCh, which has room for one
          pc,          \* by thread: where it is
          tries        \* by thread: attempts its Sync has made

connVars == <<connection, connState, connErr>>
vars == <<connVars, lock, closed, errorCh, pc, tries>>

NewBlockSyncer ==
  /\ connection = NoConn
  /\ connState = [c \in Conn |-> "unused"]
  /\ connErr = [c \in Conn |-> "none"]
  /\ lock = NoThread
  /\ closed = FALSE
  /\ errorCh = 0
  /\ pc = [t \in Thread |-> IF t = App THEN "idle" ELSE "none"]
  /\ tries = [t \in Thread |-> 0]

Goto(t, place) == pc' = [pc EXCEPT ![t] = place]

Dialed == {c \in Conn : connState[c] # "unused"}

\* The receive takes the error of a connection that failed; when Close returns
\* an error there is no receive.
CloseConnectionNoLock ==
  /\ connState' = [c \in Conn |-> IF c = connection THEN "closed" ELSE connState[c]]
  /\ \/ connErr' = [c \in Conn |-> IF c = connection THEN "none" ELSE connErr[c]]
     \/ UNCHANGED connErr
  /\ UNCHANGED connection

-----------------------------------------------------------------------------
(* Sync *)

\* Sync returns nil: the application goes on, an errorHandler ends.
SyncDone(t) == IF t = App THEN "idle" ELSE "done"

\* Mutant of SyncFailed: errorHandler logs the error and ends.
SyncFailedSilently(t) == IF t = App THEN "failed" ELSE "done"

\* Sync returns an error: an errorHandler sends it to errorCh.
SyncFailed(t) == IF t = App THEN "failed" ELSE "report"

Sync ==
  /\ pc[App] \in {"idle", "failed"}
  /\ Dialed # Conn
  /\ Goto(App, "check")
  /\ tries' = [tries EXCEPT ![App] = 0]
  /\ UNCHANGED <<connVars, lock, closed, errorCh>>

\* syncExecute looks at closeCh before it has the lock.
CheckClosed(t) ==
  /\ pc[t] = "check"
  /\ Goto(t, IF closed THEN SyncDone(t) ELSE "lock")
  /\ UNCHANGED <<connVars, lock, closed, errorCh, tries>>

\* Mutant of CloseOldConnection: the old connection is not closed.
CloseOldConnectionMissing(t) ==
  /\ pc[t] = "lock"
  /\ lock = NoThread
  /\ lock' = t
  /\ Goto(t, "dial")
  /\ UNCHANGED <<connVars, closed, errorCh, tries>>

CloseOldConnection(t) ==
  /\ pc[t] = "lock"
  /\ lock = NoThread
  /\ lock' = t
  /\ CloseConnectionNoLock
  /\ Goto(t, "dial")
  /\ UNCHANGED <<closed, errorCh, tries>>

Dial(t) ==
  /\ pc[t] = "dial"
  /\ \E c \in Conn :
       /\ Dialed = 1..(c - 1)
       /\ connection' = c
       /\ connState' = [connState EXCEPT ![c] = "open"]
  /\ Goto(t, "reset")
  /\ UNCHANGED <<connErr, lock, closed, errorCh, tries>>

\* blockHandler.Reset.
HandlerReset(t) ==
  /\ pc[t] = "reset"
  /\ Goto(t, "sync")
  /\ UNCHANGED <<connVars, lock, closed, errorCh, tries>>

\* The chain-sync client started; errorHandler is started for the connection.
SyncStarts(t) ==
  /\ pc[t] = "sync"
  /\ connState[connection] = "open"
  /\ pc' = [pc EXCEPT ![t] = SyncDone(t), ![connection] = "monitor"]
  /\ lock' = NoThread
  /\ UNCHANGED <<connVars, closed, errorCh, tries>>

\* Dial, Reset or the chain-sync client failed; a connection that was dialed
\* stays in bs.connection, open.
TryFails(t) ==
  /\ pc[t] \in {"dial", "reset", "sync"}
  /\ lock' = NoThread
  /\ tries' = [tries EXCEPT ![t] = @ + 1]
  /\ Goto(t, "delay")
  /\ UNCHANGED <<connVars, closed, errorCh>>

\* RestartDelay, which also follows the last try.
DelayOver(t) ==
  /\ pc[t] = "delay"
  /\ Goto(t, IF tries[t] < SyncStartTries THEN "check" ELSE SyncFailed(t))
  /\ UNCHANGED <<connVars, lock, closed, errorCh, tries>>

\* closeCh: Sync returns the error of the last try.
DelayClosed(t) ==
  /\ pc[t] = "delay"
  /\ closed
  /\ Goto(t, SyncFailed(t))
  /\ UNCHANGED <<connVars, lock, closed, errorCh, tries>>

-----------------------------------------------------------------------------
(* errorHandler *)

\* Mutant of HandlerQuits: errorHandler does not wait when there is no error yet.
HandlerDoesNotWait(c) ==
  /\ pc[c] = "monitor"
  /\ closed \/ connErr[c] = "none"
  /\ Goto(c, "done")
  /\ UNCHANGED <<connVars, lock, closed, errorCh, tries>>

\* Mutant of HandlerQuits: errorHandler waits for an error only.
HandlerIgnoresClose(c) ==
  /\ pc[c] = "monitor"
  /\ closed /\ connErr[c] # "none"
  /\ Goto(c, "done")
  /\ UNCHANGED <<connVars, lock, closed, errorCh, tries>>

\* closeCh is closed, or the error channel is.
HandlerQuits(c) ==
  /\ pc[c] = "monitor"
  /\ closed \/ (connState[c] = "closed" /\ connErr[c] = "none")
  /\ Goto(c, "done")
  /\ UNCHANGED <<connVars, lock, closed, errorCh, tries>>

HandlerReceives(c) ==
  /\ pc[c] = "monitor"
  /\ connErr[c] # "none"
  /\ connErr' = [connErr EXCEPT ![c] = "none"]
  /\ Goto(c, IF connErr[c] = "error" /\ RestartOnError THEN "backoff" ELSE "report")
  /\ UNCHANGED <<connection, connState, lock, closed, errorCh, tries>>

BackoffOver(c) ==
  /\ pc[c] = "backoff"
  /\ Goto(c, "check")
  /\ tries' = [tries EXCEPT ![c] = 0]
  /\ UNCHANGED <<connVars, lock, closed, errorCh>>

BackoffClosed(c) ==
  /\ pc[c] = "backoff"
  /\ closed
  /\ Goto(c, "done")
  /\ UNCHANGED <<connVars, lock, closed, errorCh, tries>>

\* The send blocks while errorCh is full.
Report(c) ==
  /\ pc[c] = "report"
  /\ errorCh = 0
  /\ errorCh' = 1
  /\ Goto(c, "done")
  /\ UNCHANGED <<connVars, lock, closed, tries>>

-----------------------------------------------------------------------------
(* Close, the application and the connection *)

Close ==
  /\ ~closed
  /\ lock = NoThread
  /\ closed' = TRUE
  /\ CloseConnectionNoLock
  /\ UNCHANGED <<lock, errorCh, pc, tries>>

ReadErrorCh ==
  /\ errorCh = 1
  /\ errorCh' = 0
  /\ UNCHANGED <<connVars, lock, closed, pc, tries>>

\* The node went away, a protocol was violated or a callback returned an error,
\* possibly ErrBlockIndexerFatal.
ConnectionFails(c) ==
  /\ connState[c] = "open"
  /\ connState' = [connState EXCEPT ![c] = "closed"]
  /\ \E kind \in {"error", "fatal"} : connErr' = [connErr EXCEPT ![c] = kind]
  /\ UNCHANGED <<connection, lock, closed, errorCh, pc, tries>>

-----------------------------------------------------------------------------

SyncExecute(t) ==
  \/ CheckClosed(t) \/ CloseOldConnection(t) \/ Dial(t) \/ HandlerReset(t)
  \/ SyncStarts(t) \/ TryFails(t) \/ DelayOver(t) \/ DelayClosed(t)

ErrorHandler(c) ==
  \/ HandlerQuits(c) \/ HandlerReceives(c)
  \/ BackoffOver(c) \/ BackoffClosed(c) \/ Report(c)

Next ==
  \/ Sync
  \/ \E t \in Thread : SyncExecute(t)
  \/ \E c \in Conn : ErrorHandler(c) \/ ConnectionFails(c)
  \/ Close
  \/ ReadErrorCh

Spec == NewBlockSyncer /\ [][Next]_vars

\* Every goroutine that is not waiting goes on, and one that waits for the lock
\* gets it at last.  Calls of Sync and Close, failures of a connection and a
\* receiver of ErrorCh may come or not: main.go takes one error, then no more.
FairSpec ==
  /\ Spec
  /\ \A t \in Thread :
       /\ WF_vars(CheckClosed(t) \/ Dial(t) \/ HandlerReset(t) \/ SyncStarts(t) \/ TryFails(t))
       /\ SF_vars(CloseOldConnection(t))
       /\ WF_vars(DelayOver(t) \/ DelayClosed(t))
  /\ \A c \in Conn :
       WF_vars(HandlerQuits(c) \/ HandlerReceives(c) \/ BackoffOver(c) \/ BackoffClosed(c) \/ Report(c))

-----------------------------------------------------------------------------
(* Properties *)

Places == {"idle", "failed", "none", "check", "lock", "dial", "reset", "sync", "delay",
           "monitor", "backoff", "report", "done"}

\* Every program counter has a value of its thread's code, only the thread that
\* holds the lock is between Dial and the start of chain-sync, and no Sync tries
\* more than SyncStartTries times.
TypeOK ==
  /\ connection \in Conn \cup {NoConn}
  /\ connState \in [Conn -> {"unused", "open", "closed"}]
  /\ connErr \in [Conn -> {"none", "error", "fatal"}]
  /\ lock \in Thread \cup {NoThread}
  /\ closed \in BOOLEAN
  /\ errorCh \in {0, 1}
  /\ pc \in [Thread -> Places]
  /\ \A t \in Thread : pc[t] \in {"dial", "reset", "sync"} <=> lock = t
  /\ tries \in [Thread -> 0..SyncStartTries]

\* However many Syncs run, no connection is left behind: the open one, if there
\* is one, is the one that the next Sync or Close closes.
OneConnection ==
  \A c \in Conn : connState[c] = "open" => c = connection

\* A connection that is open and whose chain-sync was started has an errorHandler
\* that waits for its error, unless the syncer was closed.
Monitored ==
  \A c \in Conn : connState[c] = "open" /\ pc[c] # "none" => pc[c] = "monitor" \/ closed

\* Chain-sync runs, and its failure would be seen.
Up == \E c \in Conn : connState[c] = "open" /\ pc[c] = "monitor"

\* The failure of a connection is never the end of it in silence: the syncer
\* connects again, or an error comes out of ErrorCh or out of the application's
\* Sync, or somebody closed the syncer, whoever took the error of the connection.
NeverSilentlyDown ==
  \A c \in Conn :
    pc[c] = "monitor" /\ connErr[c] # "none"
      ~> Up \/ errorCh = 1 \/ pc[App] = "failed" \/ closed

Ended(t) == pc[t] \in {"idle", "failed", "none", "done"}

\* Close ends every Sync and every errorHandler, whatever they were doing, and time
\* and again after Close all have ended but those that have an error to report while
\* an earlier one is unread: the send of errorCh does not listen to closeCh.  Such a
\* one has to end as soon as there is room again.
CloseStopsAll ==
  closed ~> \A t \in Thread : Ended(t) \/ (pc[t] = "report" /\ errorCh = 1)
=============================================================================
