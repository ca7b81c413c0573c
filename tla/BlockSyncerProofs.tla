-------------------------- MODULE BlockSyncerProofs --------------------------
(***************************************************************************)
(* The safety of BlockSyncer for every number of tries and of connections: *)
(* type correctness with mutual exclusion of the tries, OneConnection and  *)
(* Monitored, all from one inductive invariant, Inv.                       *)
(***************************************************************************)
EXTENDS BlockSyncer, TLAPS

\* A Sync that is about to dial has closed the connection before.
DialsUnconnected ==
  \A t \in Thread : pc[t] = "dial" => \A c \in Conn : connState[c] # "open"

\* A Sync that has dialed has its connection in bs.connection.
SyncsConnected ==
  \A t \in Thread : pc[t] \in {"reset", "sync"} => connection \in Conn

\* The errorHandler of a connection starts after the connection was dialed.
HandlersDialed == \A c \in Conn : connState[c] = "unused" => pc[c] = "none"

\* An error channel holds an error only once its connection is closed.
ErrorsClosed == \A c \in Conn : connErr[c] # "none" => connState[c] = "closed"

\* A Sync that is under way has a try left.
TriesLeft ==
  \A t \in Thread :
    pc[t] \in {"check", "lock", "dial", "reset", "sync"} => tries[t] < SyncStartTries

\* OneConnection and Monitored are not inductive by themselves: what they need
\* is that a Sync dials with no connection open and starts the errorHandler of
\* the connection that it dialed.
Inv ==
  /\ TypeOK
  /\ OneConnection
  /\ Monitored
  /\ DialsUnconnected
  /\ SyncsConnected
  /\ HandlersDialed
  /\ ErrorsClosed
  /\ TriesLeft
-----------------------------------------------------------------------------

\* A syncer that has just been made satisfies Inv.
LEMMA InvInit == NewBlockSyncer => Inv
<1> SUFFICES ASSUME NewBlockSyncer
             PROVE  Inv
  OBVIOUS
<1> USE SyncerAssumption DEF NewBlockSyncer, Conn, Thread, App, NoConn, NoThread
<1>1. TypeOK
  <2>1. pc \in [Thread -> Places]
    BY DEF Places
  <2>2. \A t \in Thread : pc[t] \in {"dial", "reset", "sync"} <=> lock = t
    OBVIOUS
  <2>3. tries \in [Thread -> 0..SyncStartTries]
    OBVIOUS
  <2>4. connState \in [Conn -> {"unused", "open", "closed"}] /\ connErr \in [Conn -> {"none", "error", "fatal"}]
    OBVIOUS
  <2> QED
    BY <2>1, <2>2, <2>3, <2>4 DEF TypeOK
<1>2. OneConnection
  BY DEF OneConnection
<1>3. Monitored
  BY DEF Monitored
<1>4. DialsUnconnected
  BY DEF DialsUnconnected
<1>5. SyncsConnected
  BY DEF SyncsConnected
<1>6. HandlersDialed
  BY DEF HandlersDialed
<1>7. ErrorsClosed
  BY DEF ErrorsClosed
<1>8. TriesLeft
  BY DEF TriesLeft
<1> QED
  BY <1>1, <1>2, <1>3, <1>4, <1>5, <1>6, <1>7, <1>8 DEF Inv

\* No step of a Sync, of the application or of an errorHandler, disturbs Inv.
LEMMA InvSync ==
  ASSUME Inv, NEW t \in Thread, SyncExecute(t)
  PROVE  Inv'
<1> USE SyncerAssumption DEF Inv, TypeOK, OneConnection, Monitored, DialsUnconnected, SyncsConnected, HandlersDialed,
       ErrorsClosed, TriesLeft, Conn, Thread, App, NoConn, NoThread, Places, connVars, Goto, SyncDone, SyncFailed
<1>1. CASE CheckClosed(t)
  BY <1>1 DEF CheckClosed
<1>2. CASE CloseOldConnection(t)
  <2>1. TypeOK'
    BY <1>2 DEF CloseOldConnection, CloseConnectionNoLock
  <2>2. OneConnection'
    BY <1>2 DEF CloseOldConnection, CloseConnectionNoLock
  <2>3. Monitored'
    BY <1>2 DEF CloseOldConnection, CloseConnectionNoLock
  <2>4. DialsUnconnected'
    BY <1>2 DEF CloseOldConnection, CloseConnectionNoLock
  <2>5. SyncsConnected'
    BY <1>2 DEF CloseOldConnection, CloseConnectionNoLock
  <2>6. HandlersDialed'
    BY <1>2 DEF CloseOldConnection, CloseConnectionNoLock
  <2>7. ErrorsClosed'
    BY <1>2 DEF CloseOldConnection, CloseConnectionNoLock
  <2>8. TriesLeft'
    BY <1>2 DEF CloseOldConnection, CloseConnectionNoLock
  <2> QED
    BY <2>1, <2>2, <2>3, <2>4, <2>5, <2>6, <2>7, <2>8
<1>3. CASE Dial(t)
  <2>1. TypeOK'
    BY <1>3 DEF Dial, Dialed
  <2>2. OneConnection'
    BY <1>3 DEF Dial, Dialed
  <2>3. Monitored'
    BY <1>3 DEF Dial, Dialed
  <2>4. DialsUnconnected'
    BY <1>3 DEF Dial, Dialed
  <2>5. SyncsConnected'
    BY <1>3 DEF Dial, Dialed
  <2>6. HandlersDialed'
    BY <1>3 DEF Dial, Dialed
  <2>7. ErrorsClosed'
    BY <1>3 DEF Dial, Dialed
  <2>8. TriesLeft'
    BY <1>3 DEF Dial, Dialed
  <2> QED
    BY <2>1, <2>2, <2>3, <2>4, <2>5, <2>6, <2>7, <2>8
<1>4. CASE HandlerReset(t)
  <2>1. TypeOK'
    BY <1>4 DEF HandlerReset
  <2>2. OneConnection'
    BY <1>4 DEF HandlerReset
  <2>3. Monitored'
    BY <1>4 DEF HandlerReset
  <2>4. DialsUnconnected'
    BY <1>4 DEF HandlerReset
  <2>5. SyncsConnected'
    BY <1>4 DEF HandlerReset
  <2>6. HandlersDialed'
    BY <1>4 DEF HandlerReset
  <2>7. ErrorsClosed'
    BY <1>4 DEF HandlerReset
  <2>8. TriesLeft'
    BY <1>4 DEF HandlerReset
  <2> QED
    BY <2>1, <2>2, <2>3, <2>4, <2>5, <2>6, <2>7, <2>8
<1>5. CASE SyncStarts(t)
  <2>1. TypeOK'
    <3>1. pc' \in [Thread -> Places]
      BY <1>5 DEF SyncStarts
    <3>2. \A u \in Thread : pc'[u] \notin {"dial", "reset", "sync"}
      BY <1>5 DEF SyncStarts
    <3>3. \A u \in Thread : lock' # u
      BY <1>5 DEF SyncStarts
    <3> QED
      BY <1>5, <3>1, <3>2, <3>3 DEF SyncStarts
  <2>2. OneConnection'
    BY <1>5 DEF SyncStarts
  <2>3. Monitored'
    BY <1>5 DEF SyncStarts
  <2>4. DialsUnconnected'
    BY <1>5 DEF SyncStarts
  <2>5. SyncsConnected'
    BY <1>5 DEF SyncStarts
  <2>6. HandlersDialed'
    BY <1>5 DEF SyncStarts
  <2>7. ErrorsClosed'
    BY <1>5 DEF SyncStarts
  <2>8. TriesLeft'
    BY <1>5 DEF SyncStarts
  <2> QED
    BY <2>1, <2>2, <2>3, <2>4, <2>5, <2>6, <2>7, <2>8
<1>6. CASE TryFails(t)
  BY <1>6 DEF TryFails
<1>7. CASE DelayOver(t)
  BY <1>7 DEF DelayOver
<1>8. CASE DelayClosed(t)
  BY <1>8 DEF DelayClosed
<1> QED
  BY <1>1, <1>2, <1>3, <1>4, <1>5, <1>6, <1>7, <1>8 DEF SyncExecute

\* No step of an errorHandler that waits, backs off or reports disturbs Inv.
LEMMA InvErrorHandler ==
  ASSUME Inv, NEW c \in Conn, ErrorHandler(c)
  PROVE  Inv'
<1> USE SyncerAssumption DEF Inv, TypeOK, OneConnection, Monitored, DialsUnconnected, SyncsConnected, HandlersDialed,
       ErrorsClosed, TriesLeft, Conn, Thread, App, NoConn, NoThread, Places, connVars, Goto
<1>1. CASE HandlerQuits(c)
  BY <1>1 DEF HandlerQuits
<1>2. CASE HandlerReceives(c)
  BY <1>2 DEF HandlerReceives
<1>3. CASE BackoffOver(c)
  BY <1>3 DEF BackoffOver
<1>4. CASE BackoffClosed(c)
  BY <1>4 DEF BackoffClosed
<1>5. CASE Report(c)
  BY <1>5 DEF Report
<1> QED
  BY <1>1, <1>2, <1>3, <1>4, <1>5 DEF ErrorHandler

\* Neither the application, nor a failing connection, nor Close disturbs Inv.
LEMMA InvNext == Inv /\ [Next]_vars => Inv'
<1> SUFFICES ASSUME Inv, [Next]_vars
             PROVE  Inv'
  OBVIOUS
<1> USE SyncerAssumption DEF Inv, TypeOK, OneConnection, Monitored, DialsUnconnected, SyncsConnected, HandlersDialed,
       ErrorsClosed, TriesLeft, Conn, Thread, App, NoConn, NoThread, Places, connVars, Goto
<1>1. CASE Sync
  BY <1>1 DEF Sync
<1>2. CASE \E t \in Thread : SyncExecute(t)
  BY <1>2, InvSync
<1>3. CASE \E c \in Conn : ErrorHandler(c)
  BY <1>3, InvErrorHandler
<1>4. CASE \E c \in Conn : ConnectionFails(c)
  BY <1>4 DEF ConnectionFails
<1>5. CASE Close
  BY <1>5 DEF Close, CloseConnectionNoLock
<1>6. CASE ReadErrorCh
  BY <1>6 DEF ReadErrorCh
<1>7. CASE UNCHANGED vars
  BY <1>7 DEF vars
<1> QED
  BY <1>1, <1>2, <1>3, <1>4, <1>5, <1>6, <1>7 DEF Next

\* Inv holds in every state that the syncer reaches.
THEOREM InvCorrect == Spec => []Inv
<1>1. NewBlockSyncer => Inv
  BY InvInit
<1>2. Inv /\ [Next]_vars => Inv'
  BY InvNext
<1> QED
  BY <1>1, <1>2, PTL DEF Spec

\* The threads of the syncer keep to their code: only the one with the lock is
\* between Dial and the start of chain-sync, and none tries too often.
THEOREM TypeCorrect == Spec => []TypeOK
<1>1. Inv => TypeOK
  BY DEF Inv
<1> QED
  BY <1>1, InvCorrect, PTL

\* However many Syncs run, in the application and in errorHandlers, the only
\* open connection is the one that the next Sync or Close closes.
THEOREM OneConnectionCorrect == Spec => []OneConnection
<1>1. Inv => OneConnection
  BY DEF Inv
<1> QED
  BY <1>1, InvCorrect, PTL

\* An open connection whose chain-sync was started has its errorHandler waiting.
THEOREM MonitoredCorrect == Spec => []Monitored
<1>1. Inv => Monitored
  BY DEF Inv
<1> QED
  BY <1>1, InvCorrect, PTL
=============================================================================
