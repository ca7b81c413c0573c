------------------------- MODULE GouroborosProvider -------------------------
(***************************************************************************)
(* TxProviderGoUroBoros of wallet/txprovider_gouroboros.go: one connection *)
(* to the node that concurrent calls share, and a loop that forgets it when*)
(* its error channel reports.  TxSubmission puts the steps together.       *)
(*                                                                         *)
(* Connection c and the error channel made for it have the same number; 0  *)
(* is nil.  A connection is known from how it is used here: when it fails  *)
(* it sends one error on its channel, which has no room, and once that is  *)
(* received, or the connection is closed, the channel is closed.           *)
(***************************************************************************)
EXTENDS Integers

CONSTANTS Caller,     \* goroutines that call the provider
          MaxConn     \* bound on the number of connections dialed

ASSUME ProviderAssumption == MaxConn \in Nat

Conn == 1..MaxConn
Nil == 0

VARIABLES connection,   \* b.connection
          errChan,      \* b.errChan
          connState,    \* by connection
          errSignal,    \* by connection: what its error channel has to say
          closeCh,      \* closeCh is closed
          disposePc,
          loopPc,
          watched,      \* the channel that the loop's select waits for
          callPc,       \* by caller
          conn          \* by caller: the connection of its call

dialVars == <<connection, errChan, connState, errSignal>>
disposeVars == <<closeCh, disposePc>>
loopVars == <<loopPc, watched>>
callVars == <<callPc, conn>>
vars == <<dialVars, disposeVars, loopVars, callVars>>

NewTxProviderGoUroBoros ==
  /\ connection = Nil
  /\ errChan = Nil
  /\ connState = [c \in Conn |-> "unused"]
  /\ errSignal = [c \in Conn |-> "quiet"]
  /\ closeCh = FALSE
  /\ disposePc = "idle"
  /\ loopPc = "top"
  /\ watched = Nil
  /\ callPc = [p \in Caller |-> "idle"]
  /\ conn = [p \in Caller |-> Nil]

-----------------------------------------------------------------------------
(* The calls *)

\* SubmitTx uses the connection at once, the queries acquire first.
Proceed(p, c) ==
  /\ \E place \in {"acquire", "use"} : callPc' = [callPc EXCEPT ![p] = place]
  /\ conn' = [conn EXCEPT ![p] = c]

Return(p) ==
  /\ callPc' = [callPc EXCEPT ![p] = "idle"]
  /\ conn' = [conn EXCEPT ![p] = Nil]

NextConn == {c \in Conn : \A d \in Conn : connState[d] = "unused" <=> d >= c}

GetSameConnection(p) ==
  /\ callPc[p] = "idle"
  /\ connection # Nil
  /\ Proceed(p, connection)
  /\ UNCHANGED <<dialVars, disposeVars, loopVars>>

\* Mutant of GetNewConnection: every call dials.
GetOwnConnection(p) ==
  /\ callPc[p] = "idle"
  /\ \E c \in NextConn :
       /\ errChan' = c
       /\ connection' = c
       /\ connState' = [connState EXCEPT ![c] = "open"]
       /\ Proceed(p, c)
  /\ UNCHANGED <<errSignal, disposeVars, loopVars>>

GetNewConnection(p) ==
  /\ callPc[p] = "idle"
  /\ connection = Nil
  /\ \E c \in NextConn :
       /\ errChan' = c
       /\ connection' = c
       /\ connState' = [connState EXCEPT ![c] = "open"]
       /\ Proceed(p, c)
  /\ UNCHANGED <<errSignal, disposeVars, loopVars>>

\* The dial fails, and with it the call; what comes over the channel made for it
\* is up to the connection.
GetConnectionFails(p) ==
  /\ callPc[p] = "idle"
  /\ connection = Nil
  /\ \E c \in NextConn, signal \in {"quiet", "error"} :
       /\ errChan' = c
       /\ connState' = [connState EXCEPT ![c] = "failed"]
       /\ errSignal' = [errSignal EXCEPT ![c] = signal]
  /\ UNCHANGED <<connection, disposeVars, loopVars, callVars>>

\* A point was acquired within acquireTimeout, or lastAcquiredTime is set and
\* the lock released.
AcquireTime(p) ==
  /\ callPc[p] = "acquire"
  /\ \E place \in {"use", "acquiring"} : callPc' = [callPc EXCEPT ![p] = place]
  /\ UNCHANGED <<dialVars, disposeVars, loopVars, conn>>

\* The connection of the moment, read without the lock; there may be none.
Acquire(p) ==
  /\ callPc[p] = "acquiring"
  /\ \/ connection = Nil /\ callPc' = [callPc EXCEPT ![p] = "panicked"] /\ UNCHANGED conn
     \/ connection # Nil /\ connState[connection] = "open"
          /\ callPc' = [callPc EXCEPT ![p] = "use"] /\ UNCHANGED conn
     \/ connection # Nil /\ connState[connection] # "open" /\ Return(p)
  /\ UNCHANGED <<dialVars, disposeVars, loopVars>>

\* The query or the submission ends, with an error when the connection failed.
Use(p) ==
  /\ callPc[p] = "use"
  /\ Return(p)
  /\ UNCHANGED <<dialVars, disposeVars, loopVars>>

-----------------------------------------------------------------------------
(* loop *)

\* select evaluates b.errChan once, when it is entered.
LoopSelects ==
  /\ loopPc = "top"
  /\ loopPc' = "select"
  /\ watched' = errChan
  /\ UNCHANGED <<dialVars, disposeVars, callVars>>

LoopReceives ==
  /\ loopPc = "select"
  /\ watched # Nil
  /\ errSignal[watched] \in {"error", "closed"}
  /\ errSignal' = [errSignal EXCEPT ![watched] = "closed"]
  /\ loopPc' = "clear"
  /\ UNCHANGED <<connection, errChan, connState, disposeVars, watched, callVars>>

\* Whatever connection there is now.
LoopClears ==
  /\ loopPc = "clear"
  /\ connection' = Nil
  /\ loopPc' = "top"
  /\ UNCHANGED <<errChan, connState, errSignal, disposeVars, watched, callVars>>

\* Mutant of LoopQuits: the loop looks at closeCh only when nothing else is ready.
LoopQuitsWhenQuiet ==
  /\ loopPc = "select"
  /\ closeCh
  /\ watched # Nil => errSignal[watched] = "quiet"
  /\ loopPc' = "done"
  /\ UNCHANGED <<dialVars, disposeVars, watched, callVars>>

LoopQuits ==
  /\ loopPc = "select"
  /\ closeCh
  /\ loopPc' = "done"
  /\ UNCHANGED <<dialVars, disposeVars, watched, callVars>>

-----------------------------------------------------------------------------
(* Dispose and the connection *)

\* A second Dispose would close closeCh twice: callers make one.
Dispose ==
  /\ disposePc = "idle"
  /\ closeCh' = TRUE
  /\ disposePc' = "locking"
  /\ UNCHANGED <<dialVars, loopVars, callVars>>

DisposeConnection ==
  /\ disposePc = "locking"
  /\ disposePc' = "done"
  /\ connState' = [c \in Conn |-> IF c = connection THEN "failed" ELSE connState[c]]
  /\ errSignal' = [c \in Conn |-> IF c = connection THEN "closed" ELSE errSignal[c]]
  /\ UNCHANGED <<connection, errChan, closeCh, loopVars, callVars>>

ConnectionFails(c) ==
  /\ connState[c] = "open"
  /\ connState' = [connState EXCEPT ![c] = "failed"]
  /\ errSignal' = [errSignal EXCEPT ![c] = "error"]
  /\ UNCHANGED <<connection, errChan, disposeVars, loopVars, callVars>>

-----------------------------------------------------------------------------

CallNext(p) ==
  \/ GetSameConnection(p) \/ GetNewConnection(p) \/ GetConnectionFails(p)
  \/ AcquireTime(p) \/ Acquire(p) \/ Use(p)

Loop == LoopSelects \/ LoopReceives \/ LoopClears \/ LoopQuits

-----------------------------------------------------------------------------
(* Properties *)

\* Every field and program counter has one of its values, and while there is a
\* connection errChan is its channel.
TypeOK ==
  /\ connection \in Conn \cup {Nil} /\ errChan \in Conn \cup {Nil}
  /\ connState \in [Conn -> {"unused", "open", "failed"}]
  /\ errSignal \in [Conn -> {"quiet", "error", "closed"}]
  /\ closeCh \in BOOLEAN /\ disposePc \in {"idle", "locking", "done"}
  /\ loopPc \in {"top", "select", "clear", "done"} /\ watched \in Conn \cup {Nil}
  /\ callPc \in [Caller -> {"idle", "acquire", "acquiring", "use", "panicked"}]
  /\ conn \in [Caller -> Conn \cup {Nil}]
  /\ connection \in {Nil, errChan}

\* As long as no connection failed, all calls, however they interleave, use one.
SharedConnection ==
  (\A c \in Conn : connState[c] # "failed") =>
    \A c, d \in Conn : connState[c] = "open" /\ connState[d] = "open" => c = d

\* Dispose ends the loop, even one that its closed error channel keeps busy.
LoopEnds == closeCh ~> loopPc = "done" \/ \E p \in Caller : callPc[p] = "panicked"
=============================================================================
