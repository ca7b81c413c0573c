---------------------------- MODULE WalletProofs ----------------------------
(***************************************************************************)
(* The package wallet.  The shared connection and the submission for every *)
(* number of callers, connections and tries, whatever the order of tries,  *)
(* late requests, answers and failures; and the addresses, for keys of     *)
(* every length and whatever bytes are offered.                            *)
(***************************************************************************)
EXTENDS TxSubmission, Addresses, SequenceTheorems, FiniteSetTheorems, WellFoundedInduction, TLAPS

(* The shared connection *)

\* A channel has something to say only of a connection that failed, the loop
\* clears only after it heard that, and a connection that is open while none
\* has failed is the provider's.
ConnectionInv ==
  /\ loopPc = "clear" => \E c \in Conn : errSignal[c] = "closed"
  /\ \A c \in Conn : errSignal[c] # "quiet" => connState[c] = "failed"
  /\ \A c \in Conn : connState[c] = "open" =>
       \/ c = connection
       \/ \E d \in Conn : connState[d] = "failed"

\* What a step of the connection or of a call does to the provider's state.
ConnectionStep ==
  \/ UNCHANGED vars
  \/ \E p \in Caller : CallNext(p)
  \/ Loop \/ Dispose \/ DisposeConnection
  \/ \E c \in Conn : ConnectionFails(c)
  \/ \E p \in Caller :
       /\ connState' = [connState EXCEPT ![conn[p]] = "failed"]
       /\ errSignal' = [errSignal EXCEPT ![conn[p]] = IF @ = "quiet" THEN "error" ELSE @]
       /\ Return(p)
       /\ UNCHANGED <<connection, errChan, disposeVars, loopVars>>
  \/ \E p : Return(p) /\ UNCHANGED <<dialVars, disposeVars, loopVars>>

\* A step of a submission is, for the provider, a step of its own or none.
LEMMA SubmissionIsConnectionStep == [SubmissionNext]_allVars => ConnectionStep
<1> SUFFICES ASSUME [SubmissionNext]_allVars PROVE ConnectionStep
  OBVIOUS
<1>1. CASE UNCHANGED allVars
  BY <1>1 DEF ConnectionStep, allVars
<1>2. CASE \E p \in Caller : SubmitTx(p) \/ ContextEnds(p) \/ Gateway(p) \/ HttpBreaks(p)
  BY <1>2 DEF ConnectionStep, SubmitTx, ContextEnds, Gateway, HttpBreaks
<1>3. CASE \E p \in Caller : SubmitStep(p)
  <2> PICK p \in Caller : SubmitStep(p)
    BY <1>3
  <2>1. CASE GouroborosSend(p) \/ GouroborosNotSent(p)
    BY <2>1 DEF GouroborosSend, GouroborosNotSent, ConnectionStep, CallNext
  <2>2. CASE GouroborosBreaks(p)
    BY <2>2 DEF GouroborosBreaks, ConnectionStep
  <2>3. CASE RetriesEnd(p) \/ HttpNotSent(p) \/ HttpSend(p) \/ HttpGivesUp(p)
             \/ CliWrite(p) \/ CliRun(p) \/ Decide(p) \/ SelectTime(p) \/ SelectContext(p)
    <3>1. UNCHANGED vars
      BY <2>3 DEF RetriesEnd, HttpNotSent, HttpSend, HttpGivesUp, CliWrite,
         CliRun, Decide, SelectTime, SelectContext
    <3> QED
      BY <3>1 DEF ConnectionStep
  <2> QED
    BY <2>1, <2>2, <2>3 DEF SubmitStep
<1>4. CASE \E r \in inflight : NodeHandles(r)
  <2> PICK r \in inflight : NodeHandles(r)
    BY <1>4
  <2>1. \/ UNCHANGED vars
        \/ Return(r.from) /\ UNCHANGED <<dialVars, disposeVars, loopVars>>
    BY DEF NodeHandles
  <2>2. ASSUME Return(r.from) /\ UNCHANGED <<dialVars, disposeVars, loopVars>>
        PROVE  \E p : Return(p) /\ UNCHANGED <<dialVars, disposeVars, loopVars>>
    BY <2>2, Zenon
  <2> QED
    BY <2>1, <2>2 DEF ConnectionStep
<1>5. CASE ProviderNext
  BY <1>5 DEF ProviderNext, ConnectionStep
<1> QED
  BY <1>1, <1>2, <1>3, <1>4, <1>5 DEF SubmissionNext

LEMMA ConnectionInitial == SubmissionInit => TypeOK /\ ConnectionInv
<1> SUFFICES ASSUME SubmissionInit PROVE TypeOK /\ ConnectionInv
  OBVIOUS
<1>1. TypeOK
  BY DEF SubmissionInit, NewTxProviderGoUroBoros, TypeOK
<1>2. ConnectionInv
  BY DEF SubmissionInit, NewTxProviderGoUroBoros, ConnectionInv
<1> QED
  BY <1>1, <1>2

\* The provider's state keeps its types and its invariant.
LEMMA ConnectionPreserved ==
  ASSUME TypeOK, ConnectionInv, ConnectionStep
  PROVE  TypeOK' /\ ConnectionInv'
<1> USE DEF dialVars, disposeVars, loopVars, callVars
<1>1. CASE UNCHANGED vars
  BY <1>1 DEF vars, TypeOK, ConnectionInv
<1>2. CASE \E p \in Caller : CallNext(p)
  <2> PICK p \in Caller : CallNext(p)
    BY <1>2
  <2>1. CASE GetSameConnection(p)
    BY <2>1 DEF GetSameConnection, Proceed, TypeOK, ConnectionInv
  <2>2. CASE GetNewConnection(p)
    BY <2>2 DEF GetNewConnection, NextConn, Proceed, TypeOK, ConnectionInv, Conn, Nil
  <2>3. CASE GetConnectionFails(p)
    BY <2>3 DEF GetConnectionFails, NextConn, TypeOK, ConnectionInv, Conn, Nil
  <2>4. CASE AcquireTime(p) \/ Acquire(p) \/ Use(p)
    BY <2>4 DEF AcquireTime, Acquire, Use, Return, TypeOK, ConnectionInv
  <2> QED
    BY <2>1, <2>2, <2>3, <2>4 DEF CallNext
<1>3. CASE Loop
  BY <1>3 DEF Loop, LoopSelects, LoopReceives, LoopClears, LoopQuits, TypeOK,
     ConnectionInv, Nil
<1>4. CASE Dispose
  BY <1>4 DEF Dispose, TypeOK, ConnectionInv
<1>5. CASE DisposeConnection
  BY <1>5 DEF DisposeConnection, TypeOK, ConnectionInv
<1>6. CASE \E c \in Conn : ConnectionFails(c)
  BY <1>6 DEF ConnectionFails, TypeOK, ConnectionInv
<1>7. ASSUME NEW p \in Caller,
             connState' = [connState EXCEPT ![conn[p]] = "failed"],
             errSignal' = [errSignal EXCEPT ![conn[p]] = IF @ = "quiet" THEN "error" ELSE @],
             Return(p),
             UNCHANGED <<connection, errChan, disposeVars, loopVars>>
      PROVE  TypeOK' /\ ConnectionInv'
  BY <1>7 DEF Return, TypeOK, ConnectionInv
<1>8. CASE \E p : Return(p) /\ UNCHANGED <<dialVars, disposeVars, loopVars>>
  BY <1>8 DEF Return, TypeOK, ConnectionInv
<1> QED
  BY <1>1, <1>2, <1>3, <1>4, <1>5, <1>6, <1>7, <1>8 DEF ConnectionStep

\* While no connection has failed, all calls share one.
THEOREM OneConnectionIsShared == SubmissionSpec => []SharedConnection
<1>1. TypeOK /\ ConnectionInv => SharedConnection
  BY DEF TypeOK, ConnectionInv, SharedConnection
<1>2. TypeOK /\ ConnectionInv /\ [SubmissionNext]_allVars => TypeOK' /\ ConnectionInv'
  BY SubmissionIsConnectionStep, ConnectionPreserved
<1> QED
  BY <1>1, <1>2, ConnectionInitial, PTL DEF SubmissionSpec

-----------------------------------------------------------------------------
(* The submission *)

\* A try that is under way is one of those that RetryCount allows.
TriesAllowed ==
  \A p \in Caller :
    subPc[p] \in {"written", "waiting", "answered", "select"} => count[p] < RetryCount

\* The request of a caller in flight is of a try it has made.
RequestOfTry(r) ==
  /\ r.try <= count[r.from]
  /\ r.try = count[r.from] => subPc[r.from] \notin {"idle", "try", "written"}
  /\ subPc[r.from] # "idle"

\* The caller's file, or no file at all, carries its transaction.
Own(p) == provider = "cli" => Alone(p)

\* Where a caller is, what it heard and what the node did belong together.
CallerInv(p) ==
  /\ provider = "cli" /\ subPc[p] = "written" => txFile = {p}
  /\ \A r \in inflight : r.from = p <=> r.tx = p
  /\ answer[p] = "accepted" => p \in accepted
  /\ subPc[p] \in {"idle", "try", "written", "waiting"} /\ count[p] = 0
       => p \notin accepted /\ answer[p] = "none"
  /\ answer[p] = "rejected" /\ count[p] = 0
       => p \notin accepted /\ \A r \in inflight : r.tx # p
  /\ result[p] = "nil" => Succeeds(answer[p])
  /\ result[p] = "rejected" => answer[p] = "rejected"
  /\ result[p] # "none" => subPc[p] = "returned"
  /\ answer[p] = "no error named" => provider = "cats"

SubmissionInv ==
  /\ \A r \in inflight : RequestOfTry(r)
  /\ \A p \in Caller : Own(p) => CallerInv(p)

IInv ==
  /\ SubmissionTypeOK
  /\ TriesAllowed
  /\ SubmissionInv

LEMMA InitSubmission == SubmissionInit => IInv
<1> SUFFICES ASSUME SubmissionInit PROVE IInv
  OBVIOUS
<1>1. SubmissionTypeOK
  BY SubmissionAssumption, ConnectionInitial DEF SubmissionInit, SubmissionTypeOK, Answers
<1>2. SubmissionInv /\ TriesAllowed
  BY DEF SubmissionInit, SubmissionInv, CallerInv, TriesAllowed, Alone, Own, Succeeds
<1> QED
  BY <1>1, <1>2 DEF IInv


\* The steps of one submission.
CallerStep(p) ==
  SubmitTx(p) \/ SubmitStep(p) \/ ContextEnds(p) \/ Gateway(p) \/ HttpBreaks(p)

LEMMA NextTry ==
  \A n \in 0..RetryCount : n < RetryCount => n + 1 \in 0..RetryCount
BY SubmissionAssumption

LEMMA RequestType ==
  ASSUME SubmissionTypeOK, NEW p \in Caller, NEW tx \in Caller
  PROVE  Request(p, tx) \in [from : Caller, try : 0..RetryCount, tx : Caller]
BY DEF SubmissionTypeOK, Request

\* They keep the types of its state.
LEMMA CallerTypes ==
  ASSUME SubmissionTypeOK, TriesAllowed, TypeOK', NEW p \in Caller, CallerStep(p)
  PROVE  SubmissionTypeOK'
<1>0. \A tx \in Caller : Request(p, tx) \in [from : Caller, try : 0..RetryCount, tx : Caller]
  BY RequestType
<1> USE SubmissionAssumption DEF SubmissionTypeOK, nodeVars, GoTo, Answered, Returns, Answers
<1>1. CASE SubmitTx(p)
  BY <1>1 DEF SubmitTx
<1>2. CASE RetriesEnd(p)
  BY <1>2 DEF RetriesEnd
<1>3. CASE HttpNotSent(p)
  BY <1>3 DEF HttpNotSent, Http, Tries
<1>4. CASE HttpSend(p)
  BY <1>0, <1>4 DEF HttpSend, Http, Tries
<1>5. CASE HttpGivesUp(p)
  BY <1>5 DEF HttpGivesUp, Http
<1>6. CASE CliWrite(p)
  BY <1>6 DEF CliWrite, Tries
<1>7. CASE CliRun(p)
  <2>1. \A tx \in txFile : Request(p, tx) \in [from : Caller, try : 0..RetryCount, tx : Caller]
    BY <1>0
  <2> QED
    <3>1. inflight' \subseteq [from : Caller, try : 0..RetryCount, tx : Caller]
      <4>1. inflight' = inflight \/ \E tx \in txFile : inflight' = inflight \cup {Request(p, tx)}
        BY <1>7 DEF CliRun
      <4> QED
        BY <2>1, <4>1
    <3>2. subPc' \in [Caller -> {"idle", "try", "written", "waiting", "answered", "select", "returned"}]
      BY <1>7 DEF CliRun
    <3>3. answer' \in [Caller -> Answers]
      BY <1>7 DEF CliRun
    <3> QED
      BY <1>7, <3>1, <3>2, <3>3 DEF CliRun
<1>8. CASE GouroborosSend(p)
  BY <1>0, <1>8 DEF GouroborosSend, Tries
<1>9. CASE GouroborosNotSent(p)
  BY <1>9 DEF GouroborosNotSent, Tries
<1>10. CASE GouroborosBreaks(p)
  BY <1>10 DEF GouroborosBreaks
<1>11. CASE Decide(p)
  BY <1>11 DEF Decide
<1>12. CASE SelectTime(p)
  <2>1. count[p] + 1 \in 0..RetryCount
    <3>1. subPc[p] = "select"
      BY <1>12 DEF SelectTime
    <3>2. count[p] < RetryCount
      BY <3>1 DEF TriesAllowed
    <3>3. count[p] \in 0..RetryCount
      OBVIOUS
    <3> QED
      BY <3>2, <3>3, NextTry, Zenon
  <2>2. count' \in [Caller -> 0..RetryCount]
    <3>1. count' = [count EXCEPT ![p] = count[p] + 1]
      BY <1>12 DEF SelectTime
    <3> QED
      BY <2>1, <3>1
  <2>3. subPc' \in [Caller -> {"idle", "try", "written", "waiting", "answered", "select", "returned"}]
    BY <1>12 DEF SelectTime
  <2>4. UNCHANGED <<provider, ctxDone, answer, result, txFile, nodeVars>>
    BY <1>12 DEF SelectTime
  <2> QED
    BY <2>2, <2>3, <2>4
<1>13. CASE SelectContext(p)
  BY <1>13 DEF SelectContext
<1>14. CASE ContextEnds(p)
  BY <1>14 DEF ContextEnds
<1>15. CASE Gateway(p)
  BY <1>15 DEF Gateway, Http
<1>16. CASE HttpBreaks(p)
  BY <1>16, ZenonT(60) DEF HttpBreaks, Http
<1> QED
  BY <1>1, <1>2, <1>3, <1>4, <1>5, <1>6, <1>7, <1>8, <1>9, <1>10, <1>11, <1>12, <1>13, <1>14, <1>15, <1>16
  DEF CallerStep, SubmitStep

\* and begin no try that is not allowed.
LEMMA CallerTries ==
  ASSUME SubmissionTypeOK, TriesAllowed, NEW p \in Caller, CallerStep(p)
  PROVE  TriesAllowed'
<1>1. /\ \A q \in Caller \ {p} : subPc'[q] = subPc[q]
      /\ subPc'[p] \in {"try", "returned"} \/ count[p] < RetryCount
  BY DEF CallerStep, SubmitStep, SubmitTx, RetriesEnd, HttpNotSent,
     HttpSend, HttpGivesUp, CliWrite, CliRun, GouroborosSend,
     GouroborosNotSent, GouroborosBreaks, Decide, SelectTime,
     SelectContext, ContextEnds, Gateway, HttpBreaks, Answered, Returns, GoTo,
     Tries, TriesAllowed, SubmissionTypeOK
<1>2. /\ \A q \in Caller \ {p} : count'[q] = count[q]
      /\ count'[p] = count[p] \/ subPc'[p] = "try"
  BY DEF CallerStep, SubmitStep, SubmitTx, RetriesEnd, HttpNotSent,
     HttpSend, HttpGivesUp, CliWrite, CliRun, GouroborosSend,
     GouroborosNotSent, GouroborosBreaks, Decide, SelectTime,
     SelectContext, ContextEnds, Gateway, HttpBreaks, GoTo, SubmissionTypeOK
<1> QED
  BY <1>1, <1>2 DEF TriesAllowed

LEMMA NodeTypes ==
  ASSUME SubmissionTypeOK, TriesAllowed, TypeOK', NEW r \in inflight, NodeHandles(r)
  PROVE  SubmissionTypeOK' /\ TriesAllowed'
<1>1. r.from \in Caller /\ r.tx \in Caller
  BY DEF SubmissionTypeOK
<1>2. /\ UNCHANGED <<provider, ctxDone, count, result, txFile>>
      /\ inflight' \subseteq inflight
      /\ accepted' = accepted \/ accepted' = accepted \cup {r.tx}
      /\ UNCHANGED <<answer, subPc>>
         \/ /\ subPc[r.from] = "waiting"
            /\ \E verdict \in {"accepted", "rejected"} : Answered(r.from, verdict)
  BY DEF NodeHandles
<1>3. TriesAllowed'
  BY <1>1, <1>2 DEF SubmissionTypeOK, TriesAllowed, Answered, GoTo
<1>4. SubmissionTypeOK'
  <2>1. subPc' \in [Caller -> {"idle", "try", "written", "waiting", "answered", "select", "returned"}]
    <3>1. subPc' = subPc \/ subPc' = [subPc EXCEPT ![r.from] = "answered"]
      BY <1>2 DEF Answered, GoTo
    <3> QED
      BY <3>1 DEF SubmissionTypeOK
  <2>2. answer' \in [Caller -> Answers]
    <3>1. answer' = answer \/ \E verdict \in Answers : answer' = [answer EXCEPT ![r.from] = verdict]
      BY <1>2 DEF Answered, Answers
    <3> QED
      BY <3>1 DEF SubmissionTypeOK
  <2> QED
    BY <1>1, <1>2, <2>1, <2>2 DEF SubmissionTypeOK
<1> QED
  BY <1>3, <1>4

\* A step of a submission is one caller's, the node's or the provider's.
LEMMA SubmissionTypesPreserved ==
  ASSUME SubmissionTypeOK, TriesAllowed, ConnectionInv, [SubmissionNext]_allVars
  PROVE  SubmissionTypeOK' /\ TriesAllowed' /\ ConnectionInv'
<1>1. TypeOK' /\ ConnectionInv'
  BY SubmissionIsConnectionStep, ConnectionPreserved DEF SubmissionTypeOK
<1>2. CASE \E p \in Caller : CallerStep(p)
  BY <1>1, <1>2, CallerTypes, CallerTries
<1>3. CASE \E r \in inflight : NodeHandles(r)
  BY <1>1, <1>3, NodeTypes
<1>4. CASE UNCHANGED subVars
  BY <1>1, <1>4 DEF SubmissionTypeOK, TriesAllowed, subVars, nodeVars
<1> QED
  BY <1>1, <1>2, <1>3, <1>4 DEF SubmissionNext, CallerStep, ProviderNext, allVars

\* An idle caller never becomes idle again, so who was alone is alone no more
\* only by a new submission.
LEMMA OwnFrame ==
  ASSUME SubmissionTypeOK, [SubmissionNext]_allVars, NEW q \in Caller, Own(q)'
  PROVE  Own(q)
<1>1. ASSUME NEW p \in Caller, subPc[p] # "idle" PROVE subPc'[p] # "idle"
  <2>1. CASE \E c \in Caller : CallerStep(c)
    <3> PICK c \in Caller : CallerStep(c)
      BY <2>1
    <3>1. subPc' = subPc \/ \E place : place # "idle" /\ GoTo(c, place)
      BY DEF CallerStep, SubmitStep, SubmitTx, RetriesEnd, HttpNotSent,
         HttpSend, HttpGivesUp, CliWrite, CliRun, GouroborosSend,
         GouroborosNotSent, GouroborosBreaks, Decide, SelectTime,
         SelectContext, ContextEnds, Gateway, HttpBreaks, Answered, Returns
    <3> QED
      BY <1>1, <3>1 DEF GoTo, SubmissionTypeOK
  <2>2. CASE \E r \in inflight : NodeHandles(r)
    BY <1>1, <2>2 DEF NodeHandles, Answered, GoTo, SubmissionTypeOK
  <2>3. CASE UNCHANGED subVars
    BY <1>1, <2>3 DEF subVars
  <2> QED
    BY <2>1, <2>2, <2>3 DEF SubmissionNext, CallerStep, ProviderNext, allVars
<1>2. provider' = provider
  BY DEF SubmissionNext, SubmitTx, SubmitStep, RetriesEnd, HttpNotSent,
     HttpSend, HttpGivesUp, CliWrite, CliRun, GouroborosSend,
     GouroborosNotSent, GouroborosBreaks, Decide, SelectTime,
     SelectContext, ContextEnds, Gateway, HttpBreaks, NodeHandles,
     ProviderNext, subVars, allVars
<1> QED
  BY <1>1, <1>2 DEF Own, Alone

\* What a step of caller p leaves alone.
LEMMA CallerFrame ==
  ASSUME SubmissionTypeOK, NEW p \in Caller, CallerStep(p)
  PROVE  /\ \A q \in Caller \ {p} : /\ subPc'[q] = subPc[q]
                                     /\ count'[q] = count[q]
                                     /\ answer'[q] = answer[q]
                                     /\ result'[q] = result[q]
         /\ UNCHANGED <<provider, accepted>>
         /\ txFile' = txFile \/ provider = "cli"
         /\ subPc'[p] # "idle"
         /\ \A r \in inflight' \ inflight :
              \/ r = Request(p, p) /\ provider # "cli"
              \/ provider = "cli" /\ subPc[p] = "written"
                   /\ \E tx \in txFile : r = Request(p, tx)
<1> USE DEF CallerStep, SubmitStep, SubmitTx, RetriesEnd, HttpNotSent,
     HttpSend, HttpGivesUp, CliWrite, CliRun, GouroborosSend,
     GouroborosNotSent, GouroborosBreaks, Decide, SelectTime,
     SelectContext, ContextEnds, Gateway, HttpBreaks, GoTo, Answered, Returns, nodeVars, SubmissionTypeOK
<1>1. \A q \in Caller \ {p} : subPc'[q] = subPc[q] /\ count'[q] = count[q]
  OBVIOUS
<1>2. \A q \in Caller \ {p} : answer'[q] = answer[q] /\ result'[q] = result[q]
  OBVIOUS
<1>3. UNCHANGED <<provider, accepted>> /\ (txFile' = txFile \/ provider = "cli")
  OBVIOUS
<1>4. subPc'[p] # "idle"
  OBVIOUS
<1>5. \A r \in inflight' \ inflight :
        \/ r = Request(p, p) /\ provider # "cli"
        \/ provider = "cli" /\ subPc[p] = "written" /\ \E tx \in txFile : r = Request(p, tx)
  BY DEF Http
<1> QED
  BY <1>1, <1>2, <1>3, <1>4, <1>5

\* A step of caller p does not touch what belongs together for another.
LEMMA OtherCallerInv ==
  ASSUME SubmissionTypeOK, NEW p \in Caller, CallerStep(p),
         NEW q \in Caller \ {p}, CallerInv(q), Own(q)'
  PROVE  CallerInv(q)'
<1>1. provider # "cli"
  BY CallerFrame DEF Own, Alone
<1>2. \A r \in inflight' : r \in inflight \/ (r.from = p /\ r.tx = p)
  BY <1>1, CallerFrame DEF Request
<1>3. /\ subPc'[q] = subPc[q] /\ count'[q] = count[q]
      /\ answer'[q] = answer[q] /\ result'[q] = result[q]
      /\ provider' = provider /\ accepted' = accepted
  BY CallerFrame
<1> QED
  BY <1>1, <1>2, <1>3 DEF CallerInv, Succeeds

\* Where a step of caller p takes it.
LEMMA CallerMoves ==
  ASSUME SubmissionTypeOK, NEW p \in Caller, CallerStep(p)
  PROVE  /\ \/ count'[p] = count[p] /\ subPc'[p] \notin {"idle", "try", "written"}
            \/ count'[p] = count[p] /\ subPc[p] \in {"idle", "try"}
            \/ count'[p] = count[p] /\ subPc'[p] = subPc[p]
            \/ count'[p] = count[p] + 1
         /\ \A r \in inflight' \ inflight :
              count'[p] = count[p] /\ subPc'[p] = "waiting"
<1> USE DEF CallerStep, SubmitStep, SubmitTx, RetriesEnd, HttpNotSent,
     HttpSend, HttpGivesUp, CliWrite, CliRun, GouroborosSend,
     GouroborosNotSent, GouroborosBreaks, Decide, SelectTime,
     SelectContext, ContextEnds, Gateway, HttpBreaks, GoTo, Answered, Returns, nodeVars, SubmissionTypeOK
<1>1. \/ count'[p] = count[p] /\ subPc'[p] \notin {"idle", "try", "written"}
      \/ count'[p] = count[p] /\ subPc[p] \in {"idle", "try"}
      \/ count'[p] = count[p] /\ subPc'[p] = subPc[p]
      \/ count'[p] = count[p] + 1
  BY DEF Tries
<1>2. \A r \in inflight' \ inflight : count'[p] = count[p] /\ subPc'[p] = "waiting"
  OBVIOUS
<1> QED
  BY <1>1, <1>2

LEMMA CallerRequests ==
  ASSUME SubmissionTypeOK, NEW p \in Caller, CallerStep(p),
         \A r \in inflight : RequestOfTry(r), NEW r \in inflight'
  PROVE  RequestOfTry(r)'
<1>1. CASE r \notin inflight
  <2>1. r.from = p /\ r.try = count[p]
    BY <1>1, CallerFrame DEF Request
  <2> QED
    BY <1>1, <2>1, CallerMoves DEF RequestOfTry, SubmissionTypeOK
<1>2. CASE r \in inflight /\ r.from # p
  BY <1>2, CallerFrame DEF RequestOfTry, SubmissionTypeOK
<1>3. CASE r \in inflight /\ r.from = p
  <2>1. r.try \in Nat /\ count[p] \in Nat
    BY <1>3, SubmissionAssumption DEF SubmissionTypeOK
  <2>2. /\ r.try <= count[p]
        /\ r.try = count[p] => subPc[p] \notin {"idle", "try", "written"}
        /\ subPc[p] # "idle"
    BY <1>3 DEF RequestOfTry
  <2> QED
    BY <1>3, <2>1, <2>2, CallerMoves, CallerFrame DEF RequestOfTry
<1> QED
  BY <1>1, <1>2, <1>3

\* A request for the transaction of a caller whose count is still 0, and that
\* is at its beginning, cannot be in flight.
LEMMA FreshCaller ==
  ASSUME SubmissionTypeOK, NEW p \in Caller, CallerInv(p), count[p] = 0,
         \A r \in inflight : RequestOfTry(r),
         subPc[p] \in {"idle", "try", "written"}
  PROVE  \A r \in inflight : r.from # p /\ r.tx # p
<1>1. ASSUME NEW r \in inflight, r.from = p PROVE FALSE
  <2>1. r.try \in Nat
    BY SubmissionAssumption DEF SubmissionTypeOK
  <2> QED
    BY <1>1, <2>1 DEF RequestOfTry
<1> QED
  BY <1>1 DEF CallerInv

\* A step of caller p keeps together what belongs together for p.
LEMMA SameCallerInv ==
  ASSUME SubmissionTypeOK, NEW p \in Caller, CallerStep(p),
         \A r \in inflight : RequestOfTry(r), CallerInv(p)
  PROVE  CallerInv(p)'
<1>0. \A r \in inflight' : r \in inflight \/ (r.from = p /\ r.tx = p)
  <2> SUFFICES ASSUME NEW r \in inflight' \ inflight
               PROVE  r.from = p /\ r.tx = p
    OBVIOUS
  <2>1. r = Request(p, p)
    BY CallerFrame DEF CallerInv
  <2> QED
    BY <2>1 DEF Request
<1>next. \A n \in 0..RetryCount : n + 1 # 0
  BY SubmissionAssumption
<1> USE FreshCaller DEF CallerInv, GoTo, Answered, Returns, SubmissionTypeOK, nodeVars, Succeeds
<1>1. CASE SubmitTx(p)
  BY <1>1 DEF SubmitTx
<1>2. CASE RetriesEnd(p)
  BY <1>2 DEF RetriesEnd
<1>3. CASE HttpNotSent(p)
  BY <1>3, ZenonT(60) DEF HttpNotSent, Tries
<1>4. CASE HttpSend(p)
  <2>1. /\ subPc[p] = "try"
        /\ UNCHANGED <<count, result, txFile, provider, accepted>>
        /\ \/ answer'[p] = "refused" /\ subPc'[p] = "answered"
           \/ answer'[p] = answer[p] /\ subPc'[p] = "waiting"
    BY <1>4 DEF HttpSend, Tries, Http
  <2> QED
    BY <1>0, <2>1
<1>5. CASE HttpGivesUp(p)
  BY <1>5 DEF HttpGivesUp
<1>6. CASE CliWrite(p)
  BY <1>6 DEF CliWrite, Tries
<1>7. CASE CliRun(p)
  <2>1. /\ subPc[p] = "written"
        /\ UNCHANGED <<count, result, txFile, provider, accepted>>
        /\ \/ answer'[p] = "refused" /\ subPc'[p] = "answered"
           \/ answer'[p] = answer[p] /\ subPc'[p] = "waiting"
    BY <1>7 DEF CliRun
  <2> QED
    BY <1>0, <2>1
<1>8. CASE GouroborosSend(p)
  <2>1. /\ subPc[p] = "try"
        /\ UNCHANGED <<count, result, txFile, provider, accepted>>
        /\ \/ answer'[p] = "refused" /\ subPc'[p] = "answered"
           \/ answer'[p] = answer[p] /\ subPc'[p] = "waiting"
    BY <1>8 DEF GouroborosSend, Tries
  <2> QED
    BY <1>0, <2>1
<1>9. CASE GouroborosNotSent(p)
  BY <1>9 DEF GouroborosNotSent, Tries
<1>10. CASE GouroborosBreaks(p)
  BY <1>10 DEF GouroborosBreaks
<1>11. CASE Decide(p)
  <2>1. /\ subPc[p] = "answered"
        /\ UNCHANGED <<count, answer, txFile, provider, accepted, inflight>>
        /\ \/ Succeeds(answer[p]) /\ result'[p] = "nil" /\ subPc'[p] = "returned"
           \/ result'[p] = answer[p] /\ subPc'[p] = "returned"
           \/ result'[p] = result[p] /\ subPc'[p] = "select"
    BY <1>11 DEF Decide
  <2>2. answer[p] # "nil"
    BY DEF Answers
  <2> QED
    BY <2>1, <2>2
<1>12. CASE SelectTime(p)
  <2>1. /\ subPc[p] = "select" /\ subPc'[p] = "try"
        /\ count'[p] = count[p] + 1
        /\ UNCHANGED <<answer, result, txFile, provider, accepted, inflight>>
    BY <1>12 DEF SelectTime
  <2>2. count'[p] # 0
    BY <1>next, <2>1, Zenon
  <2> QED
    BY <2>1, <2>2
<1>13. CASE SelectContext(p)
  BY <1>13 DEF SelectContext
<1>14. CASE ContextEnds(p)
  BY <1>14 DEF ContextEnds
<1>15. CASE Gateway(p)
  BY <1>15, ZenonT(60) DEF Gateway, Http
<1>16. CASE HttpBreaks(p)
  BY <1>16 DEF HttpBreaks
<1> QED
  BY <1>1, <1>2, <1>3, <1>4, <1>5, <1>6, <1>7, <1>8, <1>9, <1>10, <1>11, <1>12, <1>13, <1>14, <1>15, <1>16
  DEF CallerStep, SubmitStep

\* The node handles a request.
LEMMA NodeFrame ==
  ASSUME NEW r \in inflight, NodeHandles(r)
  PROVE  /\ UNCHANGED <<provider, ctxDone, count, result, txFile>>
         /\ inflight' = inflight \ {r}
         /\ \/ /\ subPc[r.from] = "waiting" /\ count[r.from] = r.try
               /\ subPc' = [subPc EXCEPT ![r.from] = "answered"]
               /\ \/ /\ answer' = [answer EXCEPT ![r.from] = "accepted"]
                     /\ accepted' = accepted \cup {r.tx}
                  \/ /\ answer' = [answer EXCEPT ![r.from] = "rejected"]
                     /\ accepted' = accepted
            \/ /\ ~(subPc[r.from] = "waiting" /\ count[r.from] = r.try)
               /\ UNCHANGED <<answer, subPc>>
               /\ accepted' = accepted \/ accepted' = accepted \cup {r.tx}
BY DEF NodeHandles, Answered, GoTo

LEMMA NodeRequests ==
  ASSUME SubmissionTypeOK, NEW r \in inflight, NodeHandles(r),
         \A s \in inflight : RequestOfTry(s), NEW s \in inflight'
  PROVE  RequestOfTry(s)'
BY NodeFrame DEF RequestOfTry, SubmissionTypeOK

\* Two requests of the first try of a caller for its transaction are one.
LEMMA OneFirstRequest ==
  ASSUME SubmissionTypeOK, NEW q \in Caller, CallerInv(q), count[q] = 0,
         \A r \in inflight : RequestOfTry(r),
         NEW r \in inflight, NEW s \in inflight, r.tx = q, s.tx = q
  PROVE  r = s /\ r.try = 0
<1>1. r.from = q /\ s.from = q
  BY DEF CallerInv
<1>2. r.try \in Nat /\ s.try \in Nat /\ r.try <= 0 /\ s.try <= 0
  BY <1>1, SubmissionAssumption DEF SubmissionTypeOK, RequestOfTry
<1>3. r.try = 0 /\ s.try = 0
  BY <1>2
<1> QED
  BY <1>1, <1>3 DEF SubmissionTypeOK

LEMMA NodeCallerInv ==
  ASSUME SubmissionTypeOK, NEW r \in inflight, NodeHandles(r),
         \A s \in inflight : RequestOfTry(s), NEW q \in Caller, CallerInv(q)
  PROVE  CallerInv(q)'
<1>1. r.from = q <=> r.tx = q
  BY DEF CallerInv
<1>2. CASE r.from # q
  <2>1. /\ UNCHANGED <<provider, count, result, txFile>>
        /\ inflight' = inflight \ {r}
        /\ q \in accepted' <=> q \in accepted
    BY <1>1, <1>2, NodeFrame
  <2>2. subPc'[q] = subPc[q] /\ answer'[q] = answer[q]
    BY <1>2, NodeFrame DEF SubmissionTypeOK
  <2> QED
    BY <2>1, <2>2 DEF CallerInv, Succeeds
<1>3. CASE r.from = q /\ subPc[q] = "waiting" /\ count[q] = r.try
  <2>1. CASE answer'[q] = "accepted" /\ accepted' = accepted \cup {r.tx}
    BY <1>1, <1>3, <2>1, NodeFrame DEF CallerInv, Succeeds, SubmissionTypeOK
  <2>2. CASE answer'[q] = "rejected" /\ accepted' = accepted
    <3>1. count[q] = 0 => q \notin accepted' /\ \A s \in inflight' : s.tx # q
      <4>1. ASSUME count[q] = 0, NEW s \in inflight', s.tx = q PROVE FALSE
        <5>1. s \in inflight /\ s # r
          BY <4>1, NodeFrame
        <5> QED
          BY <1>1, <1>3, <4>1, <5>1, OneFirstRequest
      <4> QED
        BY <1>3, <2>2, <4>1 DEF CallerInv
    <3> QED
      BY <1>1, <1>3, <2>2, <3>1, NodeFrame DEF CallerInv, Succeeds, SubmissionTypeOK
  <2> QED
    BY <1>3, <2>1, <2>2, NodeFrame DEF SubmissionTypeOK
<1>4. CASE r.from = q /\ ~(subPc[q] = "waiting" /\ count[q] = r.try)
  <2>1. count[q] = 0 => /\ r.try = 0
                        /\ subPc[q] \notin {"idle", "try", "written", "waiting"}
                        /\ answer[q] # "rejected"
    <3> SUFFICES ASSUME count[q] = 0
                 PROVE  /\ r.try = 0
                        /\ subPc[q] \notin {"idle", "try", "written", "waiting"}
                        /\ answer[q] # "rejected"
      OBVIOUS
    <3>1. r.try = 0
      BY <1>1, <1>4, OneFirstRequest
    <3>2. subPc[q] \notin {"idle", "try", "written", "waiting"}
      BY <1>4, <3>1 DEF RequestOfTry
    <3>3. answer[q] # "rejected"
      BY <1>1, <1>4 DEF CallerInv
    <3> QED
      BY <3>1, <3>2, <3>3
  <2>2. /\ UNCHANGED <<provider, count, result, txFile, answer, subPc>>
        /\ inflight' = inflight \ {r}
        /\ accepted' = accepted \/ accepted' = accepted \cup {q}
    BY <1>1, <1>4, NodeFrame
  <2> QED
    BY <1>1, <1>4, <2>1, <2>2 DEF CallerInv, Succeeds
<1> QED
  BY <1>2, <1>3, <1>4

LEMMA NextSubmission ==
  ASSUME IInv, ConnectionInv, [SubmissionNext]_allVars
  PROVE  IInv' /\ ConnectionInv'
<1> USE DEF IInv
<1>1. SubmissionTypeOK' /\ TriesAllowed' /\ ConnectionInv'
  BY SubmissionTypesPreserved
<1>2. SubmissionInv'
  <2>1. CASE \E p \in Caller : CallerStep(p)
    <3> PICK p \in Caller : CallerStep(p)
      BY <2>1
    <3>1. \A r \in inflight' : RequestOfTry(r)'
      BY CallerRequests DEF SubmissionInv
    <3>2. ASSUME NEW q \in Caller, Own(q)' PROVE CallerInv(q)'
      <4>1. CallerInv(q)
        BY <3>2, OwnFrame DEF SubmissionInv
      <4>2. CASE q = p
        BY <4>1, <4>2, SameCallerInv DEF SubmissionInv
      <4>3. CASE q # p
        BY <3>2, <4>1, <4>3, OtherCallerInv
      <4> QED
        BY <4>2, <4>3
    <3> QED
      BY <3>1, <3>2 DEF SubmissionInv
  <2>2. CASE \E r \in inflight : NodeHandles(r)
    <3> PICK r \in inflight : NodeHandles(r)
      BY <2>2
    <3>1. \A s \in inflight' : RequestOfTry(s)'
      BY NodeRequests DEF SubmissionInv
    <3>2. ASSUME NEW q \in Caller, Own(q)' PROVE CallerInv(q)'
      BY <3>2, OwnFrame, NodeCallerInv DEF SubmissionInv
    <3> QED
      BY <3>1, <3>2 DEF SubmissionInv
  <2>3. CASE UNCHANGED subVars
    BY <2>3 DEF SubmissionInv, RequestOfTry, CallerInv, Own, Alone, Succeeds,
       subVars, nodeVars
  <2> QED
    BY <2>1, <2>2, <2>3 DEF SubmissionNext, CallerStep, ProviderNext, allVars
<1> QED
  BY <1>1, <1>2

LEMMA SubmissionInvariance == SubmissionSpec => []IInv
<1>1. SubmissionInit => IInv /\ ConnectionInv
  BY InitSubmission, ConnectionInitial
<1>2. IInv /\ ConnectionInv /\ [SubmissionNext]_allVars => IInv' /\ ConnectionInv'
  BY NextSubmission
<1> QED
  BY <1>1, <1>2, PTL DEF SubmissionSpec

\* The state of a submission and of the provider under it has its types; no
\* more tries are counted than RetryCount.
THEOREM SubmissionTypeCorrect == SubmissionSpec => []SubmissionTypeOK
<1>1. IInv => SubmissionTypeOK
  BY DEF IInv
<1> QED
  BY <1>1, SubmissionInvariance, PTL

\* A submission that returns no error has been taken by the node.
THEOREM SuccessIsAcceptance == SubmissionSpec => []SubmittedMeansAccepted
<1>1. IInv => SubmittedMeansAccepted
  BY DEF IInv, SubmissionInv, CallerInv, Own, Succeeds, SubmittedMeansAccepted
<1> QED
  BY <1>1, SubmissionInvariance, PTL

\* The first try of a submission is never rejected on account of itself.
THEOREM RejectionComesFromRetry == SubmissionSpec => []RejectedAfterRetry
<1>1. IInv => RejectedAfterRetry
  <2> SUFFICES ASSUME IInv, NEW p \in Caller, result[p] = "rejected",
                      p \in accepted, Own(p)
               PROVE  count[p] > 0
    BY DEF RejectedAfterRetry, Own
  <2>1. count[p] # 0
    BY DEF IInv, SubmissionInv, CallerInv
  <2>2. count[p] \in Nat
    BY SubmissionAssumption DEF IInv, SubmissionTypeOK
  <2> QED
    BY <2>1, <2>2
<1> QED
  BY <1>1, SubmissionInvariance, PTL

-----------------------------------------------------------------------------
(* Induction and loops *)

\* A set of naturals that is not empty has a least element.
LEMMA LeastNatural ==
  ASSUME NEW T \in SUBSET Nat, T # {}
  PROVE  \E x \in T : \A y \in T : x <= y
<1>1. PICK x \in T : \A y \in T : ~(<<y, x>> \in OpToRel(<, Nat))
  BY WFMin, NatLessThanWellFounded
<1>2. ASSUME NEW y \in T PROVE x <= y
  <2>1. ~(y < x)
    BY <1>1 DEF OpToRel
  <2> QED
    BY <2>1
<1> QED
  BY <1>2

\* Induction: a set of naturals without a least element is empty.
LEMMA NoLeast ==
  ASSUME NEW T \in SUBSET Nat, \A n \in T : \E m \in T : m < n
  PROVE  T = {}
BY LeastNatural

\* A loop that starts with v0 and whose step k makes R[k][v] of v.
ForLoop(n, v0, R) == CHOOSE g : g = [k \in 0..n |-> IF k = 0 THEN v0 ELSE R[k][g[k - 1]]]

\* Every step of a loop is taken.
LEMMA LoopSteps ==
  ASSUME NEW n \in Nat, NEW v0, NEW R
  PROVE  /\ DOMAIN ForLoop(n, v0, R) = 0..n
         /\ ForLoop(n, v0, R) = [k \in 0..n |-> ForLoop(n, v0, R)[k]]
         /\ ForLoop(n, v0, R)[0] = v0
         /\ \A k \in 1..n : ForLoop(n, v0, R)[k] = R[k][ForLoop(n, v0, R)[k - 1]]
<1> DEFINE Is(g, m) == g = [k \in 0..m |-> IF k = 0 THEN v0 ELSE R[k][g[k - 1]]]
           T == {m \in Nat : ~\E g : Is(g, m)}
<1>1. ASSUME NEW m \in T PROVE \E l \in T : l < m
  <2>1. CASE m = 0
    <3> DEFINE g == [k \in 0..0 |-> v0]
    <3>1. Is(g, 0)
      OBVIOUS
    <3> QED
      BY <2>1, <3>1
  <2>2. CASE m > 0
    <3> SUFFICES ASSUME NEW g, Is(g, m - 1) PROVE FALSE
      <4> HIDE DEF Is
      <4> QED
        BY <2>2
    <3> DEFINE h == [k \in 0..m |-> IF k = 0 THEN v0 ELSE R[k][g[k - 1]]]
    <3>1. ASSUME NEW k \in 0..m - 1 PROVE h[k] = g[k]
      OBVIOUS
    <3>2. ASSUME NEW k \in 0..m PROVE h[k] = IF k = 0 THEN v0 ELSE R[k][h[k - 1]]
      <4>1. CASE k = 0
        BY <4>1
      <4>2. CASE k # 0
        <5>1. k - 1 \in 0..m - 1
          BY <4>2
        <5>2. h[k - 1] = g[k - 1]
          BY <3>1, <5>1
        <5> QED
          BY <4>2, <5>2
      <4> QED
        BY <4>1, <4>2
    <3>3. h = [k \in 0..m |-> h[k]]
      OBVIOUS
    <3> HIDE DEF h
    <3>4. Is(h, m)
      BY <3>2, <3>3
    <3> QED
      BY <3>4
  <2> QED
    BY <2>1, <2>2
<1>2. T = {}
  <2> HIDE DEF T
  <2>1. T \in SUBSET Nat
    BY DEF T
  <2> QED
    BY <1>1, <2>1, NoLeast
<1>3. Is(ForLoop(n, v0, R), n)
  <2>1. \E g : Is(g, n)
    BY <1>2
  <2> QED
    BY <2>1 DEF ForLoop
<1> DEFINE f == ForLoop(n, v0, R)
<1> HIDE DEF f
<1>4. f = [k \in 0..n |-> IF k = 0 THEN v0 ELSE R[k][f[k - 1]]]
  BY <1>3 DEF f
<1>5. f = [k \in 0..n |-> f[k]]
  BY <1>4
<1> QED
  BY <1>4, <1>5 DEF f

\* What holds at the start and is kept by each step holds after each step.
LEMMA LoopType ==
  ASSUME NEW n \in Nat, NEW V, NEW R, \A k \in 1..n, v \in V : R[k][v] \in V,
         NEW g, g[0] \in V, \A k \in 1..n : g[k - 1] \in V => g[k] = R[k][g[k - 1]]
  PROVE  \A k \in 0..n : g[k] \in V
<1> DEFINE T == {k \in 0..n : g[k] \notin V}
<1>1. ASSUME NEW m \in T PROVE \E l \in T : l < m
  <2>1. m # 0 /\ m \in 1..n /\ m - 1 \in 0..n
    OBVIOUS
  <2>2. g[m - 1] \notin V
    BY <2>1
  <2> QED
    BY <2>1, <2>2
<1>2. T = {}
  <2> HIDE DEF T
  <2>1. T \in SUBSET Nat
    BY DEF T
  <2> QED
    BY <1>1, <2>1, NoLeast
<1> QED
  BY <1>2

\* So a loop stays among its values when each step does.
LEMMA LoopStays ==
  ASSUME NEW n \in Nat, NEW V, NEW v0 \in V, NEW R, \A k \in 1..n, v \in V : R[k][v] \in V
  PROVE  \A k \in 0..n : ForLoop(n, v0, R)[k] \in V
<1> DEFINE g == ForLoop(n, v0, R)
<1>1. g[0] \in V /\ \A k \in 1..n : g[k - 1] \in V => g[k] = R[k][g[k - 1]]
  BY LoopSteps
<1> HIDE DEF g
<1>2. \A k \in 0..n : g[k] \in V
  BY <1>1, LoopType
<1> QED
  BY <1>2 DEF g

-----------------------------------------------------------------------------
(* Stake pointers *)

\* Division by 128.
LEMMA Division ==
  ASSUME NEW n \in Nat
  PROVE  /\ n \div 128 \in Nat /\ n % 128 \in 0..127 /\ n = (n \div 128) * 128 + (n % 128)
         /\ n >= 128 => n \div 128 < n /\ n \div 128 >= 1
         /\ n < 128 => n \div 128 = 0 /\ n % 128 = n
OBVIOUS

\* Quotients are in the order of their numbers.
LEMMA DivisionIsMonotonic ==
  ASSUME NEW a \in Nat, NEW b \in Nat, a <= b PROVE a \div 128 <= b \div 128
OBVIOUS

\* The groups of a number are those of its quotient, and then its rest.
LEMMA GroupsRecursion ==
  ASSUME NEW n \in 0..Word - 1
  PROVE  Groups[n] = IF n < 128 THEN <<n>> ELSE Append(Groups[n \div 128], n % 128)
<1> DEFINE Group(g, x) == IF x < 128 THEN <<x>> ELSE Append(g[x \div 128], x % 128)
           Is(g, m) == g = [x \in 0..m |-> Group(g, x)]
           T == {m \in Nat : ~\E g : Is(g, m)}
<1>1. ASSUME NEW m \in T PROVE \E l \in T : l < m
  <2>1. CASE m = 0
    <3> DEFINE g == [x \in 0..0 |-> <<x>>]
    <3>1. g = [x \in 0..0 |-> Group(g, x)]
      OBVIOUS
    <3>2. Is(g, 0)
      BY <3>1
    <3> HIDE DEF Is, g
    <3> QED
      BY <2>1, <3>2
  <2>2. CASE m > 0
    <3> SUFFICES ASSUME NEW g, Is(g, m - 1) PROVE FALSE
      <4> HIDE DEF Is
      <4> QED
        BY <2>2
    <3> DEFINE h == [x \in 0..m |-> Group(g, x)]
    <3>1. \A x \in 0..m - 1 : h[x] = g[x]
      <4> HIDE DEF Group
      <4> QED
        OBVIOUS
    <3>2. ASSUME NEW x \in 0..m, ~(x < 128) PROVE h[x \div 128] = g[x \div 128]
      <4>1. x \div 128 \in 0..m - 1
        <5>1. x \in Nat /\ x >= 128
          BY <3>2
        <5>2. x \div 128 \in Nat /\ x \div 128 < x
          BY <5>1, Division
        <5> QED
          BY <5>2
      <4> HIDE DEF h
      <4> QED
        BY <3>1, <4>1
    <3>3. ASSUME NEW x \in 0..m PROVE h[x] = Group(h, x)
      <4>1. h[x] = Group(g, x)
        BY DEF Group
      <4> HIDE DEF h
      <4> QED
        BY <3>2, <4>1
    <3>4. h = [x \in 0..m |-> h[x]]
      OBVIOUS
    <3> HIDE DEF h
    <3>5. Is(h, m)
      BY <3>3, <3>4
    <3> QED
      BY <3>5
  <2>3. m \in Nat
    OBVIOUS
  <2> HIDE DEF T
  <2> QED
    BY <2>1, <2>2, <2>3
<1>2. T = {}
  <2> HIDE DEF T
  <2>1. T \in SUBSET Nat
    BY DEF T
  <2> QED
    BY <1>1, <2>1, NoLeast
<1>3. Word - 1 \in Nat
  BY AddressAssumption
<1>4. Is(Groups, Word - 1)
  <2>1. \E g : Is(g, Word - 1)
    BY <1>2, <1>3
  <2> QED
    BY <2>1 DEF Groups
<1> QED
  BY <1>4

\* There is a group, and every group has seven bits.
LEMMA GroupsType == \A n \in 0..Word - 1 : Groups[n] \in Seq(0..127) /\ Len(Groups[n]) >= 1
<1> DEFINE T == {n \in 0..Word - 1 : ~(Groups[n] \in Seq(0..127) /\ Len(Groups[n]) >= 1)}
<1>1. Word \in Nat
  BY AddressAssumption
<1>2. ASSUME NEW n \in T PROVE \E l \in T : l < n
  <2>1. CASE n < 128
    <3>1. Groups[n] = <<n>>
      BY <2>1, GroupsRecursion
    <3>2. n \in 0..127
      <4>1. n \in Nat
        BY <1>1
      <4> QED
        BY <2>1, <4>1
    <3>3. Groups[n] \in Seq(0..127) /\ Len(Groups[n]) >= 1
      <4> HIDE DEF T
      <4>1. \A x \in 0..127 : <<x>> \in Seq(0..127) /\ Len(<<x>>) >= 1
        OBVIOUS
      <4> QED
        BY <3>1, <3>2, <4>1
    <3>4. ~(Groups[n] \in Seq(0..127) /\ Len(Groups[n]) >= 1)
      OBVIOUS
    <3> QED
      BY <3>3, <3>4
  <2>2. CASE ~(n < 128)
    <3>1. Groups[n] = Append(Groups[n \div 128], n % 128)
      BY <2>2, GroupsRecursion
    <3>2. n \div 128 \in 0..Word - 1 /\ n \div 128 < n /\ n % 128 \in 0..127
      BY <1>1, <2>2, Division
    <3>3. CASE Groups[n \div 128] \in Seq(0..127)
      <4>1. Groups[n] \in Seq(0..127) /\ Len(Groups[n]) = Len(Groups[n \div 128]) + 1
        BY <3>1, <3>2, <3>3, AppendProperties
      <4>2. Len(Groups[n \div 128]) \in Nat
        BY <3>3, LenProperties
      <4> QED
        BY <4>1, <4>2
    <3> QED
      BY <3>2, <3>3
  <2> QED
    BY <2>1, <2>2
<1>3. T = {}
  <2> HIDE DEF T
  <2>1. T \in SUBSET Nat
    BY <1>1 DEF T
  <2> QED
    BY <1>2, <2>1, NoLeast
<1> QED
  BY <1>3

\* A greater number has no fewer groups.
LEMMA GroupsAreMonotonic ==
  \A b \in 0..Word - 1 : \A a \in 0..b : Len(Groups[a]) <= Len(Groups[b])
<1> DEFINE T == {b \in 0..Word - 1 : \E a \in 0..b : ~(Len(Groups[a]) <= Len(Groups[b]))}
<1>1. Word \in Nat
  BY AddressAssumption
<1>2. ASSUME NEW b \in T PROVE \E l \in T : l < b
  <2>1. PICK a \in 0..b : ~(Len(Groups[a]) <= Len(Groups[b]))
    OBVIOUS
  <2>2. a \in 0..Word - 1 /\ b \in 0..Word - 1
    BY <1>1
  <2>3. Len(Groups[a]) \in Nat /\ Len(Groups[b]) \in Nat /\ Len(Groups[a]) >= 1 /\ Len(Groups[b]) >= 1
    BY <2>2, GroupsType, LenProperties
  <2>4. ~(a < 128)
    <3>1. ASSUME a < 128 PROVE FALSE
      <4>1. Groups[a] = <<a>>
        BY <2>2, <3>1, GroupsRecursion
      <4> QED
        BY <2>1, <2>3, <4>1
    <3> QED
      BY <3>1
  <2>5. ~(b < 128)
    BY <1>1, <2>2, <2>4
  <2> DEFINE p == a \div 128
             q == b \div 128
  <2>6. p \in 0..q /\ q \in 0..Word - 1 /\ p \in 0..Word - 1 /\ q < b
    BY <1>1, <2>2, <2>4, <2>5, Division, DivisionIsMonotonic
  <2>7. a % 128 \in 0..127 /\ b % 128 \in 0..127
    BY <1>1, <2>2, Division
  <2>8. Groups[a] = Append(Groups[p], a % 128) /\ Groups[b] = Append(Groups[q], b % 128)
    BY <2>2, <2>4, <2>5, GroupsRecursion
  <2> HIDE DEF p, q
  <2>9. Groups[p] \in Seq(0..127) /\ Groups[q] \in Seq(0..127)
    BY <2>6, GroupsType
  <2>10. Len(Groups[a]) = Len(Groups[p]) + 1 /\ Len(Groups[b]) = Len(Groups[q]) + 1
    BY <2>7, <2>8, <2>9, AppendProperties
  <2>11. Len(Groups[p]) \in Nat /\ Len(Groups[q]) \in Nat
    BY <2>9, LenProperties
  <2>12. ~(Len(Groups[p]) <= Len(Groups[q]))
    BY <2>1, <2>10, <2>11
  <2> QED
    BY <2>6, <2>12
<1>3. T = {}
  <2> HIDE DEF T
  <2>1. T \in SUBSET Nat
    BY <1>1 DEF T
  <2> QED
    BY <1>2, <2>1, NoLeast
<1> QED
  BY <1>3

\* What a remainder is.
LEMMA Remainder ==
  ASSUME NEW a \in Nat, NEW b \in Nat, b > 0
  PROVE  a % b \in 0..b - 1 /\ a % b <= a /\ (a < b => a % b = a)
OBVIOUS

\* Quotient and rest of a number that is put together of the two.
LEMMA Quotient ==
  ASSUME NEW i \in Nat, NEW j \in Nat, NEW y \in 0..127, i <= j * 128 + y
  PROVE  i \div 128 \in Nat /\ i \div 128 <= j
OBVIOUS

\* One more group.
Shifted(v, x) == (v * 128 + x) % Word

\* What has been read stays below the word.
LEMMA ShiftedType ==
  ASSUME NEW v \in Nat, NEW x \in 0..127
  PROVE  /\ Shifted(v, x) \in 0..Word - 1 /\ Shifted(v, x) <= v * 128 + x
         /\ v * 128 + x < Word => Shifted(v, x) = v * 128 + x
<1>1. Word \in Nat /\ Word > 0
  BY AddressAssumption
<1>2. v * 128 + x \in Nat
  OBVIOUS
<1> QED
  BY <1>1, <1>2, Remainder DEF Shifted

\* Reading the groups of a number gives the number.
LEMMA ReadGroups ==
  ASSUME NEW n \in 0..Word - 1, NEW v, v[0] = 0,
         \A k \in 1..Len(Groups[n]) : v[k] = Shifted(v[k - 1], Groups[n][k])
  PROVE  v[Len(Groups[n])] = n
<1> DEFINE Reads(m) == \A k \in 1..Len(Groups[m]) : v[k] = Shifted(v[k - 1], Groups[m][k])
           T == {m \in 0..Word - 1 : Reads(m) /\ v[Len(Groups[m])] # m}
<1>1. Word \in Nat
  BY AddressAssumption
<1>2. ASSUME NEW m \in T PROVE \E l \in T : l < m
  <2>1. m \in 0..Word - 1 /\ m \in Nat /\ m < Word /\ Reads(m) /\ v[Len(Groups[m])] # m
    BY <1>1
  <2>2. CASE m < 128
    <3>1. Groups[m] = <<m>>
      BY <2>1, <2>2, GroupsRecursion
    <3>2. v[1] = Shifted(v[0], m) /\ Len(Groups[m]) = 1
      <4>1. Len(<<m>>) = 1 /\ <<m>>[1] = m /\ 1 \in 1..1 /\ 1 - 1 = 0
        OBVIOUS
      <4> HIDE DEF T
      <4> QED
        BY <2>1, <3>1, <4>1
    <3>3. Shifted(0, m) = m
      <4> HIDE DEF T, Reads
      <4>1. m \in 0..127
        BY <2>1, <2>2
      <4>2. 0 * 128 + m = m
        BY <2>1
      <4> QED
        <5>1. 0 \in Nat /\ 0 * 128 + m < Word
          BY <1>1, <2>1, <4>2
        <5>2. Shifted(0, m) = 0 * 128 + m
          BY ONLY <4>1, <5>1, ShiftedType
        <5> QED
          BY ONLY <4>2, <5>2
    <3> HIDE DEF T, Reads
    <3> QED
      BY <2>1, <3>2, <3>3
  <2>3. CASE ~(m < 128)
    <3> DEFINE q == m \div 128
               r == m % 128
    <3>0. m >= 128
      BY <2>1, <2>3
    <3>1. q \in Nat /\ q < m /\ r \in 0..127 /\ m = q * 128 + r
      BY <2>1, <3>0, Division
    <3>2. Groups[m] = Append(Groups[q], r)
      BY <2>1, <2>3, GroupsRecursion
    <3> HIDE DEF q, r
    <3>3. q \in 0..Word - 1
      BY <1>1, <2>1, <3>1
    <3>4. Groups[q] \in Seq(0..127) /\ Len(Groups[q]) \in Nat
      BY <3>3, GroupsType, LenProperties
    <3>5. /\ Len(Groups[m]) = Len(Groups[q]) + 1 /\ Groups[m][Len(Groups[q]) + 1] = r
          /\ \A k \in 1..Len(Groups[q]) : Groups[m][k] = Groups[q][k]
      BY <3>1, <3>2, <3>4, AppendProperties
    <3>6. Reads(q)
      BY <2>1, <3>4, <3>5
    <3>7. v[Len(Groups[m])] = Shifted(v[Len(Groups[q])], r)
      <4>1. Len(Groups[m]) \in 1..Len(Groups[m]) /\ Len(Groups[m]) - 1 = Len(Groups[q])
        BY <3>4, <3>5
      <4> HIDE DEF T
      <4> QED
        BY <2>1, <3>5, <4>1
    <3> HIDE DEF Reads
    <3>8. CASE v[Len(Groups[q])] = q
      <4>1. Shifted(q, r) = m
        <5> HIDE DEF T
        <5> QED
          BY <2>1, <3>1, ShiftedType
      <4> QED
        BY <2>1, <3>7, <3>8, <4>1
    <3> QED
      BY <3>1, <3>3, <3>6, <3>8
  <2> QED
    BY <2>1, <2>2, <2>3
<1>3. T = {}
  <2> HIDE DEF T
  <2>1. T \in SUBSET Nat
    BY <1>1 DEF T
  <2> QED
    BY <1>2, <2>1, NoLeast
<1> QED
  BY <1>3

\* What is read from some groups has no more groups than that.
LEMMA ReadIsShort ==
  ASSUME NEW N \in Nat, NEW x, \A k \in 1..N : x[k] \in 0..127,
         NEW v, v[0] = 0, \A k \in 1..N : v[k] = Shifted(v[k - 1], x[k])
  PROVE  /\ \A k \in 0..N : v[k] \in 0..Word - 1
         /\ \A k \in 1..N : Len(Groups[v[k]]) <= k
<1>1. Word \in Nat /\ Word > 0
  BY AddressAssumption
<1> DEFINE V == 0..Word - 1
<1>2. \A k \in 0..N : v[k] \in V
  <2> DEFINE T == {k \in 0..N : v[k] \notin V}
  <2>1. ASSUME NEW m \in T PROVE \E l \in T : l < m
    <3>1. m # 0 /\ m \in 1..N /\ m - 1 \in 0..N
      BY <1>1
    <3>2. CASE v[m - 1] \in V
      <4>1. v[m - 1] \in Nat
        BY <1>1, <3>2
      <4>2. x[m] \in 0..127 /\ v[m] = Shifted(v[m - 1], x[m])
        BY <3>1
      <4>3. Shifted(v[m - 1], x[m]) \in V
        BY ONLY <4>1, <4>2, ShiftedType
      <4> QED
        BY <4>2, <4>3
    <3> HIDE DEF V
    <3> QED
      BY <3>1, <3>2
  <2>2. T = {}
    <3> HIDE DEF T
    <3>1. T \in SUBSET Nat
      BY DEF T
    <3> QED
      BY <2>1, <3>1, NoLeast
  <2> QED
    BY <2>2
<1>3. \A k \in 0..N : v[k] \in Nat
  BY <1>1, <1>2
<1>4. \A k \in 1..N : Len(Groups[v[k]]) <= k
  <2> DEFINE T == {k \in 1..N : ~(Len(Groups[v[k]]) <= k)}
  <2>1. ASSUME NEW m \in T PROVE \E l \in T : l < m
    <3>1. m \in 1..N /\ m - 1 \in 0..N /\ m \in 0..N /\ m \in Nat /\ ~(Len(Groups[v[m]]) <= m)
      OBVIOUS
    <3> HIDE DEF T
    <3> DEFINE w == v[m]
               u == v[m - 1]
    <3>2. w \in V /\ u \in V /\ w \in Nat /\ u \in Nat
      BY <1>2, <1>3, <3>1
    <3>3. w = Shifted(u, x[m]) /\ x[m] \in 0..127
      BY <3>1
    <3>4. w <= u * 128 + x[m]
      <4>1. \A y \in 0..127 : Shifted(u, y) <= u * 128 + y
        BY ONLY <3>2, ShiftedType
      <4> QED
        BY ONLY <3>3, <4>1
    <3> HIDE DEF w, u
    <3>5. ~(w < 128)
      <4>1. ASSUME w < 128 PROVE FALSE
        <5>1. Groups[w] = <<w>>
          BY <3>2, <4>1, GroupsRecursion
        <5>2. Len(Groups[w]) = 1
          BY <5>1
        <5> QED
          BY <3>1, <5>2 DEF w
      <4> QED
        BY <4>1
    <3> DEFINE q == w \div 128
    <3>6. q \in Nat /\ q <= u
      BY <3>2, <3>3, <3>4, Quotient
    <3>7. Groups[w] = Append(Groups[q], w % 128) /\ w % 128 \in 0..127
      BY <3>2, <3>5, GroupsRecursion, Division
    <3>8. q >= 1
      <4>1. w >= 128
        BY <3>2, <3>5
      <4> QED
        BY <3>2, <4>1, Division
    <3> HIDE DEF q
    <3>9. q \in 0..u /\ q \in 0..Word - 1 /\ u \in 0..Word - 1
      BY <1>1, <3>2, <3>6
    <3>10. Groups[q] \in Seq(0..127) /\ Len(Groups[q]) \in Nat /\ Len(Groups[u]) \in Nat
      BY <3>9, GroupsType, LenProperties
    <3>11. Len(Groups[w]) = Len(Groups[q]) + 1
      BY <3>7, <3>10, AppendProperties
    <3>12. Len(Groups[q]) <= Len(Groups[u])
      BY <3>9, GroupsAreMonotonic
    <3>13. m - 1 # 0
      BY <3>2, <3>6, <3>8 DEF u
    <3>14. ~(Len(Groups[w]) <= m)
      BY <3>1 DEF w
    <3>15. m - 1 \in 1..N /\ ~(Len(Groups[u]) <= m - 1)
      BY <3>1, <3>10, <3>11, <3>12, <3>13, <3>14
    <3>16. m - 1 \in T
      BY <3>15 DEF T, u
    <3> QED
      BY <3>1, <3>16
  <2>2. T = {}
    <3> HIDE DEF T
    <3>1. T \in SUBSET Nat
      BY DEF T
    <3> QED
      BY <2>1, <3>1, NoLeast
  <2> QED
    BY <2>2
<1> QED
  BY <1>2, <1>4

\* The low seven bits of a byte.
LEMMA LowBitsOfByte ==
  /\ \A x \in Byte : x % 128 \in 0..127
  /\ \A x \in 0..127 : x % 128 = x /\ x \in Byte /\ x < 128 /\ x + 0 = x
  /\ \A x \in 0..127 : (x + 128) % 128 = x /\ x + 128 \in Byte /\ ~(x + 128 < 128)
BY DEF Byte

\* All groups but the last are marked.
LEMMA VariableEncodeGroups ==
  ASSUME NEW n \in 0..Word - 1
  PROVE  /\ variableEncode(n) \in Seq(Byte) /\ Len(variableEncode(n)) = Len(Groups[n])
         /\ Len(Groups[n]) \in Nat /\ Len(Groups[n]) >= 1
         /\ \A k \in 1..Len(Groups[n]) :
              /\ variableEncode(n)[k] % 128 = Groups[n][k]
              /\ variableEncode(n)[k] < 128 <=> k = Len(Groups[n])
<1> DEFINE g == Groups[n]
           e == variableEncode(n)
           l == Len(g)
<1>1. g \in Seq(0..127) /\ l \in Nat /\ l >= 1 /\ DOMAIN g = 1..l
  BY GroupsType, LenProperties
<1>2. \A k \in 1..l : g[k] \in 0..127
  BY <1>1, ElementOfSeq
<1>3. e = [k \in 1..l |-> g[k] + (IF k < l THEN 128 ELSE 0)]
  BY <1>1 DEF variableEncode
<1> HIDE DEF g, e, l
<1>4. ASSUME NEW k \in 1..l
      PROVE  e[k] \in Byte /\ e[k] % 128 = g[k] /\ (e[k] < 128 <=> k = l)
  <2>0. k \in Nat
    BY <1>1
  <2>1. CASE k < l
    <3>1. e[k] = g[k] + 128
      BY <1>3, <2>1
    <3>2. k # l
      BY <1>1, <2>0, <2>1
    <3>3. e[k] \in Byte /\ e[k] % 128 = g[k] /\ ~(e[k] < 128)
      <4>1. g[k] \in 0..127
        BY <1>2
      <4>2. (g[k] + 128) % 128 = g[k] /\ g[k] + 128 \in Byte /\ ~(g[k] + 128 < 128)
        BY <4>1, LowBitsOfByte, Zenon
      <4> QED
        BY <3>1, <4>2
    <3> QED
      BY <3>2, <3>3
  <2>2. CASE ~(k < l)
    <3>1. e[k] = g[k] + 0 /\ g[k] \in 0..127
      BY <1>2, <1>3, <2>2
    <3>2. e[k] = g[k]
      BY <3>1, LowBitsOfByte
    <3>3. k = l
      BY <1>1, <2>0, <2>2
    <3>4. e[k] \in Byte /\ e[k] % 128 = g[k] /\ e[k] < 128
      BY <3>1, <3>2, LowBitsOfByte
    <3> QED
      BY <3>3, <3>4
  <2> QED
    BY <2>1, <2>2
<1>5. e \in Seq(Byte) /\ Len(e) = l
  <2>1. e \in [1..l -> Byte]
    BY <1>3, <1>4
  <2> QED
    BY <1>1, <2>1
<1> QED
  BY <1>1, <1>4, <1>5 DEF g, e, l

\* The number that is read, byte by byte.
Results(raw, from) ==
  CHOOSE g : g = [k \in from - 1..Len(raw) |->
                    IF k < from THEN 0 ELSE (g[k - 1] * 128 + (raw[k] % 128)) % Word]

\* Reading goes byte by byte.
LEMMA ReadOneSteps ==
  ASSUME NEW raw \in Seq(Byte), NEW from \in 1..Len(raw)
  PROVE  /\ \A to : readOne(raw, from, to) = Results(raw, from)[to]
         /\ Results(raw, from)[from - 1] = 0
         /\ \A k \in from..Len(raw) :
              Results(raw, from)[k] = Shifted(Results(raw, from)[k - 1], raw[k] % 128)
<1> DEFINE n == Len(raw) - (from - 1)
           N == Nat
           R == [k \in 1..n |-> [v \in N |-> Shifted(v, raw[from - 1 + k] % 128)]]
           f == ForLoop(n, 0, R)
           h == [k \in from - 1..Len(raw) |-> f[k - (from - 1)]]
<1>1. Len(raw) \in Nat /\ from \in Nat /\ from >= 1 /\ from <= Len(raw) /\ n \in Nat
  BY LenProperties
<1>2. ASSUME NEW k \in 1..n, NEW v \in N
      PROVE  R[k][v] = Shifted(v, raw[from - 1 + k] % 128) /\ R[k][v] \in N
  <2>1. from - 1 + k \in 1..Len(raw)
    BY <1>1
  <2>2. raw[from - 1 + k] % 128 \in 0..127
    <3>1. raw[from - 1 + k] \in Byte
      BY <2>1, ElementOfSeq
    <3> QED
      BY ONLY <3>1, LowBitsOfByte, Zenon
  <2>3. R[k][v] = Shifted(v, raw[from - 1 + k] % 128)
    OBVIOUS
  <2>4. Shifted(v, raw[from - 1 + k] % 128) \in Nat
    <3>1. Word \in Nat
      BY AddressAssumption
    <3>2. v \in Nat
      BY DEF N
    <3>3. Shifted(v, raw[from - 1 + k] % 128) \in 0..Word - 1
      BY <2>2, <3>2, ShiftedType
    <3> QED
      BY <3>1, <3>3
  <2> QED
    BY <2>3, <2>4 DEF N
<1>3. 0 \in N
  OBVIOUS
<1> HIDE DEF R, N
<1>4. \A k \in 0..n : f[k] \in N
  <2> HIDE DEF n
  <2> QED
    BY <1>1, <1>2, <1>3, LoopStays
<1>5. DOMAIN f = 0..n /\ f[0] = 0 /\ \A k \in 1..n : f[k] = R[k][f[k - 1]]
  <2> HIDE DEF n
  <2> QED
    BY <1>1, LoopSteps
<1> HIDE DEF f
<1>6. ASSUME NEW k \in from - 1..Len(raw)
      PROVE  h[k] = IF k < from THEN 0 ELSE (h[k - 1] * 128 + (raw[k] % 128)) % Word
  <2>1. CASE k < from
    <3>1. k - (from - 1) = 0
      BY <1>1, <2>1
    <3> QED
      BY <1>5, <2>1, <3>1
  <2>2. CASE ~(k < from)
    <3> DEFINE j == k - (from - 1)
    <3>1. j \in 1..n /\ j - 1 \in 0..n /\ from - 1 + j = k /\ k - 1 \in from - 1..Len(raw)
          /\ k - 1 - (from - 1) = j - 1
      BY <1>1, <2>2
    <3>2. h[k] = f[j] /\ h[k - 1] = f[j - 1]
      BY <3>1
    <3> HIDE DEF j, h, n
    <3>3. f[j] = R[j][f[j - 1]] /\ f[j - 1] \in N
      BY <1>4, <1>5, <3>1
    <3>4. R[j][f[j - 1]] = Shifted(f[j - 1], raw[k] % 128)
      BY <1>2, <3>1, <3>3
    <3> QED
      BY <2>2, <3>2, <3>3, <3>4 DEF Shifted
  <2> QED
    BY <2>1, <2>2
<1>7. h = [k \in from - 1..Len(raw) |-> h[k]]
  OBVIOUS
<1> HIDE DEF h
<1>8. h = [k \in from - 1..Len(raw) |-> IF k < from THEN 0 ELSE (h[k - 1] * 128 + (raw[k] % 128)) % Word]
  BY <1>6, <1>7
<1> DEFINE g == Results(raw, from)
<1>9. g = [k \in from - 1..Len(raw) |-> IF k < from THEN 0 ELSE (g[k - 1] * 128 + (raw[k] % 128)) % Word]
  BY <1>8 DEF Results
<1>10. \A to : readOne(raw, from, to) = g[to]
  BY DEF readOne, Results
<1> HIDE DEF g
<1>11. g[from - 1] = 0
  BY <1>1, <1>9
<1>12. ASSUME NEW k \in from..Len(raw) PROVE g[k] = Shifted(g[k - 1], raw[k] % 128)
  <2>1. k \in from - 1..Len(raw) /\ ~(k < from)
    BY <1>1
  <2> QED
    BY <1>9, <2>1 DEF Shifted
<1> QED
  BY <1>10, <1>11, <1>12 DEF g

\* What is read from some bytes has no more groups than these.
LEMMA ReadOneIsShort ==
  ASSUME NEW raw \in Seq(Byte), NEW from \in 1..Len(raw), NEW to \in from..Len(raw)
  PROVE  /\ readOne(raw, from, to) \in 0..Word - 1
         /\ Len(Groups[readOne(raw, from, to)]) <= to - from + 1
<1> DEFINE g == Results(raw, from)
           n == to - from + 1
           v == [k \in 0..n |-> g[from - 1 + k]]
           x == [k \in 1..n |-> raw[from - 1 + k] % 128]
<1>1. Len(raw) \in Nat /\ from \in Nat /\ from >= 1 /\ to \in Nat /\ from <= to /\ to <= Len(raw) /\ n \in Nat /\ n >= 1
  BY LenProperties
<1>2. g[from - 1] = 0 /\ (\A k \in from..Len(raw) : g[k] = Shifted(g[k - 1], raw[k] % 128))
      /\ readOne(raw, from, to) = g[to]
  BY ReadOneSteps
<1> HIDE DEF g
<1>3. ASSUME NEW k \in 1..n PROVE x[k] \in 0..127 /\ v[k] = Shifted(v[k - 1], x[k])
  <2>1. from - 1 + k \in from..Len(raw) /\ from - 1 + k \in 1..Len(raw) /\ k \in 0..n /\ k - 1 \in 0..n
        /\ from - 1 + (k - 1) = from - 1 + k - 1
    BY <1>1
  <2>2. raw[from - 1 + k] % 128 \in 0..127
    <3>1. raw[from - 1 + k] \in Byte
      BY <2>1, ElementOfSeq
    <3> QED
      BY ONLY <3>1, LowBitsOfByte, Zenon
  <2>3. v[k] = g[from - 1 + k] /\ v[k - 1] = g[from - 1 + (k - 1)] /\ x[k] = raw[from - 1 + k] % 128
    BY ONLY <2>1
  <2> QED
    BY <1>2, <2>1, <2>2, <2>3
<1>4. v[0] = 0 /\ v[n] = g[to]
  <2>1. 0 \in 0..n /\ n \in 0..n /\ from - 1 + 0 = from - 1 /\ from - 1 + n = to
    BY <1>1
  <2>2. v[0] = g[from - 1 + 0] /\ v[n] = g[from - 1 + n]
    BY ONLY <2>1
  <2>3. v[0] = g[from - 1] /\ v[n] = g[to]
    BY ONLY <2>1, <2>2, Zenon
  <2> QED
    BY <1>2, <2>3
<1>5. n \in 0..n /\ n \in 1..n
  BY <1>1
<1> HIDE DEF v, x, n
<1>6. v[n] \in 0..Word - 1 /\ Len(Groups[v[n]]) <= n
  <2>1. n \in Nat /\ v[0] = 0
        /\ (\A k \in 1..n : x[k] \in 0..127) /\ \A k \in 1..n : v[k] = Shifted(v[k - 1], x[k])
    BY <1>1, <1>3, <1>4
  <2>2. /\ \A k \in 0..n : v[k] \in 0..Word - 1
        /\ \A k \in 1..n : Len(Groups[v[k]]) <= k
    BY ONLY <2>1, ReadIsShort
  <2> QED
    BY <1>5, <2>2
<1> QED
  BY <1>2, <1>4, <1>6 DEF n

\* The groups of a number stand in bytes from..to.
StandsAt(num, raw, from, to) ==
  /\ from \in 1..Len(raw) /\ to \in from..Len(raw) /\ to = from + Len(Groups[num]) - 1
  /\ \A k \in 1..Len(Groups[num]) : raw[from - 1 + k] % 128 = Groups[num][k]

\* A number that stands in the bytes is read from them.
LEMMA ReadOneOfGroups ==
  ASSUME NEW raw \in Seq(Byte), NEW num \in 0..Word - 1, NEW from, NEW to, StandsAt(num, raw, from, to)
  PROVE  readOne(raw, from, to) = num
<1>0. /\ from \in 1..Len(raw) /\ to \in from..Len(raw) /\ to = from + Len(Groups[num]) - 1
      /\ \A k \in 1..Len(Groups[num]) : raw[from - 1 + k] % 128 = Groups[num][k]
  BY DEF StandsAt
<1> DEFINE g == Results(raw, from)
           n == Len(Groups[num])
           v == [k \in 0..n |-> g[from - 1 + k]]
<1>1. Len(raw) \in Nat /\ from \in Nat /\ from >= 1 /\ to \in Nat /\ from <= to /\ to <= Len(raw)
  BY <1>0, LenProperties
<1>2. g[from - 1] = 0 /\ (\A k \in from..Len(raw) : g[k] = Shifted(g[k - 1], raw[k] % 128))
      /\ readOne(raw, from, to) = g[to]
  BY <1>0, ReadOneSteps
<1>3. n \in Nat /\ n >= 1 /\ to = from + n - 1
  BY <1>0, VariableEncodeGroups
<1> HIDE DEF g, n
<1>4. ASSUME NEW k \in 1..n PROVE v[k] = Shifted(v[k - 1], Groups[num][k])
  <2>1. from - 1 + k \in from..Len(raw) /\ k \in 0..n /\ k - 1 \in 0..n
        /\ from - 1 + (k - 1) = (from - 1 + k) - 1
    <3>1. k \in Nat /\ k >= 1 /\ k <= n
      BY <1>3
    <3> QED
      BY <1>1, <1>3, <3>1
  <2> DEFINE j == from - 1 + k
  <2>2. j \in from..Len(raw) /\ v[k] = g[j] /\ v[k - 1] = g[j - 1]
    BY <2>1
  <2>3. raw[j] % 128 = Groups[num][k]
    BY <1>0 DEF n
  <2> HIDE DEF j, v
  <2>4. g[j] = Shifted(g[j - 1], raw[j] % 128)
    BY <1>2, <2>2
  <2> QED
    BY <2>2, <2>3, <2>4
<1>5. v[0] = 0 /\ v[n] = g[to]
  <2>1. 0 \in 0..n /\ n \in 0..n /\ from - 1 + 0 = from - 1 /\ from - 1 + n = to
    BY <1>1, <1>3
  <2>2. v[0] = g[from - 1 + 0] /\ v[n] = g[from - 1 + n]
    BY ONLY <2>1
  <2>3. v[0] = g[from - 1] /\ v[n] = g[to]
    BY ONLY <2>1, <2>2, Zenon
  <2> QED
    BY <1>2, <2>3
<1> HIDE DEF v
<1>6. v[n] = num
  BY <1>4, <1>5, ReadGroups DEF n
<1> QED
  BY <1>2, <1>5, <1>6

\* The elements of two sequences, and of four, one after the other.
LEMMA TwoParts ==
  ASSUME NEW S, NEW p \in Seq(S), NEW q \in Seq(S)
  PROVE  /\ Len(p) \in Nat /\ Len(q) \in Nat /\ p \o q \in Seq(S) /\ Len(p \o q) = Len(p) + Len(q)
         /\ \A k \in 1..Len(p) : (p \o q)[k] = p[k]
         /\ \A k \in 1..Len(q) : (p \o q)[Len(p) + k] = q[k]
BY LenProperties, ConcatProperties

\* The three numbers are told apart by the bytes that are not marked.
LEMMA StakePointerAtEnds ==
  ASSUME NEW raw \in Seq(Byte), NEW f \in DOMAIN raw, NEW s \in DOMAIN raw, f < s, s < Len(raw),
         Ends(raw) = {f, s, Len(raw)}
  PROVE  getStakePointer(raw) = [slot |-> readOne(raw, 1, f), txIndex |-> readOne(raw, f + 1, s),
                                 certIndex |-> readOne(raw, s + 1, Len(raw))]
<1> DEFINE first == CHOOSE e \in Ends(raw) : \A o \in Ends(raw) : e <= o
           second == CHOOSE e \in Ends(raw) : e # first /\ e # Len(raw)
           l == Len(raw)
<1>1. l \in Nat /\ DOMAIN raw = 1..l
  BY LenProperties
<1>2. f \in Nat /\ s \in Nat /\ f < s /\ s < l /\ f < l
  BY <1>1
<1> HIDE DEF l
<1>3. f \in Ends(raw) /\ (\A o \in Ends(raw) : f <= o) /\ \A e \in Ends(raw) : e # f => ~(e <= f)
  BY <1>1, <1>2 DEF l
<1>4. first = f
  BY <1>3
<1> HIDE DEF first
<1>5. s \in Ends(raw) /\ s # f /\ s # l /\ \A e \in Ends(raw) : e # f /\ e # l => e = s
  BY <1>1, <1>2 DEF l
<1>6. second = s
  BY <1>4, <1>5 DEF l
<1> QED
  BY <1>4, <1>6 DEF getStakePointer, first, second

\* Three numbers and what follows them.
Encoded(a, b, c, x) == variableEncode(a) \o variableEncode(b) \o variableEncode(c) \o x

\* The groups of three numbers.
Size(a, b, c) == Len(Groups[a]) + Len(Groups[b]) + Len(Groups[c])

\* Three numbers, and nothing else, make a stake pointer.
LEMMA StakePointerOfNumbers ==
  ASSUME NEW a \in 0..Word - 1, NEW b \in 0..Word - 1, NEW c \in 0..Word - 1, NEW x \in Seq(Byte)
  PROVE  /\ Encoded(a, b, c, x) \in Seq(Byte)
         /\ x = <<>> => Len(Encoded(a, b, c, x)) = Size(a, b, c)
         /\ HasStakePointer(Encoded(a, b, c, x)) <=> x = <<>>
         /\ x = <<>> => getStakePointer(Encoded(a, b, c, x)) = [slot |-> a, txIndex |-> b, certIndex |-> c]
<1> PICK raw : raw = Encoded(a, b, c, x)
  OBVIOUS
<1> PICK p, q, r : p = variableEncode(a) /\ q = variableEncode(b) /\ r = variableEncode(c)
  OBVIOUS
<1> PICK p1, p2 : p1 = p \o q /\ p2 = p1 \o r
  OBVIOUS
<1> DEFINE la == Len(Groups[a])
           lb == Len(Groups[b])
           lc == Len(Groups[c])
           lx == Len(x)
           f == la
           s == la + lb
           l == la + lb + lc
<1>1. p \in Seq(Byte) /\ Len(p) = la /\ la \in Nat /\ la >= 1
      /\ \A k \in 1..la : p[k] % 128 = Groups[a][k] /\ (p[k] < 128 <=> k = la)
  BY VariableEncodeGroups
<1>2. q \in Seq(Byte) /\ Len(q) = lb /\ lb \in Nat /\ lb >= 1
      /\ \A k \in 1..lb : q[k] % 128 = Groups[b][k] /\ (q[k] < 128 <=> k = lb)
  BY VariableEncodeGroups
<1>3. r \in Seq(Byte) /\ Len(r) = lc /\ lc \in Nat /\ lc >= 1
      /\ \A k \in 1..lc : r[k] % 128 = Groups[c][k] /\ (r[k] < 128 <=> k = lc)
  BY VariableEncodeGroups
<1>4. lx \in Nat /\ (lx = 0 <=> x = <<>>)
  BY LenProperties, EmptySeq
<1>5. raw = p2 \o x
  BY DEF Encoded
<1>6. /\ raw \in Seq(Byte) /\ Len(raw) = la + lb + lc + lx
      /\ \A k \in 1..la : raw[k] = p[k]
      /\ \A k \in 1..lb : raw[la + k] = q[k]
      /\ \A k \in 1..lc : raw[la + lb + k] = r[k]
      /\ \A k \in 1..lx : raw[la + lb + lc + k] = x[k]
  <2>1. /\ raw \in Seq(Byte) /\ Len(raw) = Len(p) + Len(q) + Len(r) + Len(x)
        /\ \A k \in 1..Len(p) : raw[k] = p[k]
        /\ \A k \in 1..Len(q) : raw[Len(p) + k] = q[k]
        /\ \A k \in 1..Len(r) : raw[Len(p) + Len(q) + k] = r[k]
        /\ \A k \in 1..Len(x) : raw[Len(p) + Len(q) + Len(r) + k] = x[k]
    <3> HIDE DEF la, lb, lc, lx
    <3>0. p \in Seq(Byte) /\ q \in Seq(Byte) /\ r \in Seq(Byte) /\ x \in Seq(Byte)
          /\ p1 = p \o q /\ p2 = p1 \o r /\ raw = p2 \o x
      BY <1>1, <1>2, <1>3, <1>5
    <3>1. /\ Len(p) \in Nat /\ Len(q) \in Nat /\ p1 \in Seq(Byte) /\ Len(p1) = Len(p) + Len(q)
          /\ \A k \in 1..Len(p) : p1[k] = p[k]
          /\ \A k \in 1..Len(q) : p1[Len(p) + k] = q[k]
      <4>1. p \in Seq(Byte) /\ q \in Seq(Byte) /\ p1 = p \o q
        BY <3>0
      <4> QED
        BY ONLY <4>1, TwoParts
    <3>2. /\ Len(p1) \in Nat /\ Len(r) \in Nat /\ p2 \in Seq(Byte) /\ Len(p2) = Len(p1) + Len(r)
          /\ \A k \in 1..Len(p1) : p2[k] = p1[k]
          /\ \A k \in 1..Len(r) : p2[Len(p1) + k] = r[k]
      <4>1. p1 \in Seq(Byte) /\ r \in Seq(Byte) /\ p2 = p1 \o r
        BY <3>0, <3>1
      <4> QED
        BY ONLY <4>1, TwoParts
    <3>4. /\ Len(p2) \in Nat /\ Len(x) \in Nat /\ raw \in Seq(Byte) /\ Len(raw) = Len(p2) + Len(x)
          /\ \A k \in 1..Len(p2) : raw[k] = p2[k]
          /\ \A k \in 1..Len(x) : raw[Len(p2) + k] = x[k]
      <4>1. p2 \in Seq(Byte) /\ x \in Seq(Byte) /\ raw = p2 \o x
        BY <3>0, <3>2
      <4> QED
        BY ONLY <4>1, TwoParts
    <3>5. Len(p2) = Len(p) + Len(q) + Len(r)
      BY <3>1, <3>2
    <3> DEFINE m1 == Len(p)
               m2 == Len(q)
               m3 == Len(r)
               n1 == Len(p1)
               n2 == Len(p2)
    <3>6. m1 \in Nat /\ m2 \in Nat /\ m3 \in Nat /\ n1 = m1 + m2 /\ n2 = m1 + m2 + m3
      BY <3>1, <3>2
    <3> HIDE DEF m1, m2, m3, n1, n2
    <3>7. ASSUME NEW k \in 1..m1 PROVE raw[k] = p[k]
      <4>1. k \in 1..n1 /\ k \in 1..n2
        BY <3>6
      <4> QED
        BY ONLY <3>1, <3>2, <3>4, <4>1, k \in 1..m1 DEF m1, n1, n2
    <3>8. ASSUME NEW k \in 1..m2 PROVE raw[m1 + k] = q[k]
      <4>1. m1 + k \in 1..n1 /\ m1 + k \in 1..n2
        BY <3>6
      <4>2. p1[m1 + k] = q[k]
        BY <3>1 DEF m1, m2
      <4>3. raw[m1 + k] = p2[m1 + k] /\ p2[m1 + k] = p1[m1 + k]
        BY <3>2, <3>4, <4>1 DEF n1, n2
      <4> QED
        BY <4>2, <4>3
    <3>9. ASSUME NEW k \in 1..m3 PROVE raw[m1 + m2 + k] = r[k]
      <4>1. n1 + k \in 1..n2 /\ n1 = m1 + m2
        BY <3>6
      <4>2. p2[n1 + k] = r[k]
        BY <3>2 DEF m3, n1
      <4>3. raw[n1 + k] = p2[n1 + k]
        BY <3>4, <4>1 DEF n2
      <4> QED
        BY <4>1, <4>2, <4>3
    <3> QED
      BY <3>4, <3>5, <3>7, <3>8, <3>9 DEF m1, m2, m3
  <2>2. Len(p) = la /\ Len(q) = lb /\ Len(r) = lc /\ Len(x) = lx
    BY <1>1, <1>2, <1>3
  <2> HIDE DEF la, lb, lc, lx
  <2> QED
    BY <2>1, <2>2
<1> HIDE DEF la, lb, lc, lx
<1>7. DOMAIN raw = 1..la + lb + lc + lx
  BY <1>6, LenProperties
<1>8. ASSUME NEW k \in 1..l PROVE k \in Ends(raw) <=> k \in {f, s, l}
  <2>0. k \in DOMAIN raw /\ k \in Nat
    BY <1>1, <1>2, <1>3, <1>4, <1>7
  <2>1. CASE k <= la
    <3>1. k \in 1..la
      BY <2>0, <2>1
    <3>2. raw[k] < 128 <=> k = la
      BY <1>1, <1>6, <3>1
    <3>3. k \in {f, s, l} <=> k = la
      BY <1>1, <1>2, <1>3, <2>0, <2>1
    <3> QED
      BY <2>0, <3>2, <3>3 DEF Ends
  <2>2. CASE ~(k <= la) /\ k <= la + lb
    <3> DEFINE j == k - la
    <3>1. j \in 1..lb /\ la + j = k
      BY <1>1, <1>2, <2>0, <2>2
    <3>2. raw[k] = q[j] /\ (q[j] < 128 <=> j = lb)
      BY <1>2, <1>6, <3>1
    <3>3. k \in {f, s, l} <=> j = lb
      <4>1. k \in Nat /\ la \in Nat /\ lb \in Nat /\ lc \in Nat /\ lc >= 1
            /\ ~(k <= la) /\ k <= la + lb
        BY <1>1, <1>2, <1>3, <2>0, <2>2
      <4>2. k # la /\ k # la + lb + lc /\ (k = la + lb <=> j = lb)
        BY ONLY <4>1
      <4> QED
        BY <4>2
    <3> HIDE DEF j
    <3> QED
      BY <2>0, <3>2, <3>3 DEF Ends
  <2>3. CASE ~(k <= la) /\ ~(k <= la + lb)
    <3> DEFINE j == k - (la + lb)
    <3>1. j \in 1..lc /\ la + lb + j = k
      BY <1>1, <1>2, <1>3, <2>0, <2>3
    <3>2. raw[k] = r[j] /\ (r[j] < 128 <=> j = lc)
      BY <1>3, <1>6, <3>1
    <3>3. k \in {f, s, l} <=> j = lc
      <4>1. la \in Nat /\ lb \in Nat /\ lc \in Nat /\ la >= 1 /\ lb >= 1 /\ k \in Nat
            /\ ~(k <= la + lb)
        BY <1>1, <1>2, <1>3, <2>0, <2>3
      <4> QED
        BY ONLY <4>1
    <3> HIDE DEF j
    <3> QED
      BY <2>0, <3>2, <3>3 DEF Ends
  <2> QED
    BY <2>1, <2>2, <2>3
<1>9. f \in 1..l /\ s \in 1..l /\ l \in 1..l /\ f < s /\ s < l /\ f \in Nat /\ s \in Nat /\ l \in Nat
  BY <1>1, <1>2, <1>3
<1>10. f \in Ends(raw) /\ s \in Ends(raw) /\ l \in Ends(raw)
  <2> HIDE DEF f, s, l
  <2> QED
    BY <1>8, <1>9
<1>11. ASSUME HasStakePointer(raw) PROVE x = <<>>
  <2>1. PICK u, w \in DOMAIN raw : Ends(raw) = {u, w, Len(raw)}
    BY <1>11 DEF HasStakePointer
  <2>2. l = Len(raw)
    <3>1. ASSUME l # Len(raw) PROVE FALSE
      <4>1. f # Len(raw) /\ s # Len(raw) /\ f # s /\ f # l /\ s # l
        BY <1>1, <1>2, <1>3, <1>4, <1>6
      <4> HIDE DEF f, s, l
      <4>2. f \in {u, w} /\ s \in {u, w} /\ l \in {u, w}
        BY <1>10, <2>1, <3>1, <4>1
      <4> QED
        BY <4>1, <4>2
    <3> QED
      BY <3>1
  <2> QED
    BY <1>1, <1>2, <1>3, <1>4, <1>6, <2>2
<1>12. ASSUME x = <<>>
       PROVE  HasStakePointer(raw) /\ getStakePointer(raw) = [slot |-> a, txIndex |-> b, certIndex |-> c]
  <2>1. Len(raw) = l /\ DOMAIN raw = 1..l
    BY <1>1, <1>2, <1>3, <1>4, <1>6, <1>7, <1>12
  <2> HIDE DEF f, s, l
  <2>2. Ends(raw) = {f, s, Len(raw)}
    <3>1. \A k : k \in Ends(raw) => k \in 1..l
      BY <2>1 DEF Ends
    <3> QED
      BY <1>8, <1>9, <2>1, <3>1
  <2>3. f \in DOMAIN raw /\ s \in DOMAIN raw /\ f < s /\ s < Len(raw)
    BY <1>9, <2>1
  <2>4. HasStakePointer(raw)
    BY <2>2, <2>3 DEF HasStakePointer
  <2>5. getStakePointer(raw) = [slot |-> readOne(raw, 1, f), txIndex |-> readOne(raw, f + 1, s),
                                certIndex |-> readOne(raw, s + 1, Len(raw))]
    BY <1>6, <2>2, <2>3, StakePointerAtEnds
  <2>6. readOne(raw, 1, f) = a
    <3>1. 1 \in 1..Len(raw) /\ f \in 1..Len(raw) /\ f = 1 + Len(Groups[a]) - 1
      BY <1>1, <1>9, <2>1 DEF f, la
    <3>2. \A k \in 1..Len(Groups[a]) : raw[1 - 1 + k] % 128 = Groups[a][k]
      <4>1. \A k \in 1..la : raw[k] % 128 = Groups[a][k]
        BY <1>1, <1>6
      <4>2. \A k \in 1..la : 1 - 1 + k = k
        BY <1>1
      <4> QED
        BY <4>1, <4>2 DEF la
    <3>3. StandsAt(a, raw, 1, f)
      BY <3>1, <3>2, Zenon DEF StandsAt
    <3> QED
      BY <1>6, <3>3, ReadOneOfGroups
  <2>7. readOne(raw, f + 1, s) = b
    <3>1. f + 1 \in 1..Len(raw) /\ s \in f + 1..Len(raw) /\ s = f + 1 + Len(Groups[b]) - 1
      <4>1. f + 1 \in 1..l /\ s \in f + 1..l /\ s = f + 1 + lb - 1
        BY <1>1, <1>2, <1>3 DEF f, s, l
      <4> QED
        BY <2>1, <4>1 DEF lb
    <3>2. \A k \in 1..Len(Groups[b]) : raw[(f + 1) - 1 + k] % 128 = Groups[b][k]
      <4>1. \A k \in 1..lb : raw[la + k] % 128 = Groups[b][k]
        BY <1>2, <1>6
      <4>2. (f + 1) - 1 = la
        BY <1>1 DEF f
      <4> QED
        BY <4>1, <4>2 DEF lb
    <3>3. StandsAt(b, raw, f + 1, s)
      BY <3>1, <3>2, Zenon DEF StandsAt
    <3> QED
      BY <1>6, <3>3, ReadOneOfGroups
  <2>8. readOne(raw, s + 1, Len(raw)) = c
    <3>1. s + 1 \in 1..Len(raw) /\ Len(raw) \in s + 1..Len(raw) /\ Len(raw) = s + 1 + Len(Groups[c]) - 1
      <4>1. s + 1 \in 1..l /\ l \in s + 1..l /\ l = s + 1 + lc - 1
        BY <1>1, <1>2, <1>3 DEF s, l
      <4> QED
        BY <2>1, <4>1 DEF lc
    <3>2. \A k \in 1..Len(Groups[c]) : raw[(s + 1) - 1 + k] % 128 = Groups[c][k]
      <4>1. \A k \in 1..lc : raw[la + lb + k] % 128 = Groups[c][k]
        BY <1>3, <1>6
      <4>2. (s + 1) - 1 = la + lb
        BY <1>1, <1>2 DEF s
      <4> QED
        BY <4>1, <4>2 DEF lc
    <3>3. StandsAt(c, raw, s + 1, Len(raw))
      BY <3>1, <3>2, Zenon DEF StandsAt
    <3> QED
      BY <1>6, <3>3, ReadOneOfGroups
  <2> QED
    BY <2>4, <2>5, <2>6, <2>7, <2>8
<1>13. x = <<>> => Len(raw) = la + lb + lc
  BY <1>1, <1>2, <1>3, <1>4, <1>6
<1> QED
  BY <1>6, <1>11, <1>12, <1>13 DEF la, lb, lc, lx, Size

\* What is read as a stake pointer has no more groups than the bytes it is read from.
LEMMA StakePointerType ==
  ASSUME NEW raw \in Seq(Byte), HasStakePointer(raw), NEW sp, sp = getStakePointer(raw)
  PROVE  /\ sp \in StakePointer
         /\ sp = [slot |-> sp.slot, txIndex |-> sp.txIndex, certIndex |-> sp.certIndex]
         /\ Size(sp.slot, sp.txIndex, sp.certIndex) <= Len(raw) /\ Len(raw) >= 3
<1>1. PICK f, s \in DOMAIN raw : f < s /\ s < Len(raw) /\ Ends(raw) = {f, s, Len(raw)}
  BY DEF HasStakePointer
<1> DEFINE l == Len(raw)
           a == readOne(raw, 1, f)
           b == readOne(raw, f + 1, s)
           c == readOne(raw, s + 1, l)
<1>2. l \in Nat /\ DOMAIN raw = 1..l
  BY LenProperties
<1>3. f \in Nat /\ f >= 1 /\ s \in Nat /\ f < s /\ s < l
  BY <1>1, <1>2
<1>4. sp = [slot |-> a, txIndex |-> b, certIndex |-> c]
  BY <1>1, StakePointerAtEnds
<1>5. a \in 0..Word - 1 /\ Len(Groups[a]) <= f - 1 + 1
  <2>1. 1 \in 1..Len(raw) /\ f \in 1..Len(raw)
    BY <1>2, <1>3
  <2> QED
    BY <2>1, ReadOneIsShort
<1>6. b \in 0..Word - 1 /\ Len(Groups[b]) <= s - (f + 1) + 1
  <2>1. f + 1 \in 1..Len(raw) /\ s \in f + 1..Len(raw)
    BY <1>2, <1>3
  <2> QED
    BY <2>1, ReadOneIsShort
<1>7. c \in 0..Word - 1 /\ Len(Groups[c]) <= l - (s + 1) + 1
  <2>1. s + 1 \in 1..Len(raw) /\ l \in s + 1..Len(raw)
    BY <1>2, <1>3
  <2> QED
    BY <2>1, ReadOneIsShort
<1> HIDE DEF a, b, c, l
<1>8. Len(Groups[a]) \in Nat /\ Len(Groups[b]) \in Nat /\ Len(Groups[c]) \in Nat
  BY <1>5, <1>6, <1>7, VariableEncodeGroups
<1>9. Len(Groups[a]) + Len(Groups[b]) + Len(Groups[c]) <= l
  <2>1. \A i, j, k \in Nat : i <= f - 1 + 1 /\ j <= s - (f + 1) + 1 /\ k <= l - (s + 1) + 1 => i + j + k <= l
    BY <1>2, <1>3
  <2> QED
    BY <1>5, <1>6, <1>7, <1>8, <2>1
<1> QED
  <2>1. sp \in StakePointer
    BY <1>4, <1>5, <1>6, <1>7 DEF StakePointer
  <2>2. sp.slot = a /\ sp.txIndex = b /\ sp.certIndex = c
    BY <1>4
  <2>3. l >= 3
    BY <1>2, <1>3
  <2> QED
    BY <1>4, <1>9, <2>1, <2>2, <2>3 DEF l, Size

-----------------------------------------------------------------------------
(* The bytes of an address *)

\* A part of a sequence.
LEMMA PartOfSequence ==
  ASSUME NEW S, NEW c \in Seq(S), NEW m \in 1..Len(c) + 1, NEW n \in m - 1..Len(c)
  PROVE  /\ SubSeq(c, m, n) \in Seq(S) /\ Len(SubSeq(c, m, n)) = n - m + 1
         /\ \A i \in 1..n - m + 1 : SubSeq(c, m, n)[i] = c[m + i - 1]
<1>1. Len(c) \in Nat /\ \A i \in 1..Len(c) : c[i] \in S
  BY LenProperties, ElementOfSeq
<1>2. m \in Int /\ n \in Int /\ m \in Nat /\ n \in Nat /\ m - 1 <= n /\ m >= 1 /\ n <= Len(c)
  BY <1>1
<1>3. \A i \in m..n : c[i] \in S
  BY <1>1, <1>2
<1>4. /\ SubSeq(c, m, n) \in Seq(S) /\ Len(SubSeq(c, m, n)) = IF m <= n THEN n - m + 1 ELSE 0
      /\ \A i \in 1..n - m + 1 : SubSeq(c, m, n)[i] = c[m + i - 1]
  BY <1>2, <1>3, SubSeqProperties
<1>5. (IF m <= n THEN n - m + 1 ELSE 0) = n - m + 1
  BY <1>2
<1> QED
  BY <1>4, <1>5

\* A sequence is found again where it was put.
LEMMA Middle ==
  ASSUME NEW S, NEW u \in Seq(S), NEW v \in Seq(S), NEW w \in Seq(S)
  PROVE  /\ (u \o v) \o w \in Seq(S) /\ Len((u \o v) \o w) = Len(u) + Len(v) + Len(w)
         /\ SubSeq((u \o v) \o w, Len(u) + 1, Len(u) + Len(v)) = v
<1> PICK a, c : a = u \o v /\ c = a \o w
  OBVIOUS
<1>1. /\ Len(u) \in Nat /\ Len(v) \in Nat /\ a \in Seq(S) /\ Len(a) = Len(u) + Len(v)
      /\ \A k \in 1..Len(u) : a[k] = u[k]
      /\ \A k \in 1..Len(v) : a[Len(u) + k] = v[k]
  BY TwoParts
<1>2. /\ Len(a) \in Nat /\ Len(w) \in Nat /\ c \in Seq(S) /\ Len(c) = Len(a) + Len(w)
      /\ \A k \in 1..Len(a) : c[k] = a[k]
      /\ \A k \in 1..Len(w) : c[Len(a) + k] = w[k]
  BY <1>1, TwoParts
<1> DEFINE l == Len(u)
           n == Len(v)
           s == SubSeq(c, l + 1, l + n)
<1>3. l \in Nat /\ n \in Nat /\ Len(a) = l + n /\ l + n \in Nat
  BY <1>1
<1> HIDE DEF l, n
<1>4. ASSUME NEW k \in 1..n PROVE c[l + k] = v[k] /\ v[k] \in S
  <2>1. l + k \in 1..Len(a)
    BY <1>3
  <2>2. a[l + k] = v[k]
    BY <1>1 DEF l, n
  <2>3. v[k] \in S
    BY ElementOfSeq DEF n
  <2>4. c[l + k] = a[l + k]
    BY <1>2, <2>1
  <2> QED
    BY ONLY <2>2, <2>3, <2>4
<1>5. l + n <= Len(c) /\ Len(c) \in Nat
  BY <1>2, <1>3
<1>6. l + 1 \in 1..Len(c) + 1 /\ l + n \in (l + 1) - 1..Len(c)
  BY <1>3, <1>5
<1>7. /\ s \in Seq(S) /\ Len(s) = (l + n) - (l + 1) + 1
      /\ \A i \in 1..(l + n) - (l + 1) + 1 : s[i] = c[(l + 1) + i - 1]
  <2>1. c \in Seq(S)
    BY <1>2
  <2>2. ASSUME NEW i \in 1..Len(c) + 1, NEW j \in i - 1..Len(c)
        PROVE  /\ SubSeq(c, i, j) \in Seq(S) /\ Len(SubSeq(c, i, j)) = j - i + 1
               /\ \A k \in 1..j - i + 1 : SubSeq(c, i, j)[k] = c[i + k - 1]
    BY ONLY <2>1, i \in 1..Len(c) + 1, j \in i - 1..Len(c), PartOfSequence
  <2> QED
    BY <1>6, <2>2
<1> HIDE DEF s
<1>8. Len(s) = n
  BY <1>3, <1>7
<1>9. \A i \in 1..n : s[i] = v[i]
  <2> TAKE i \in 1..n
  <2>1. i \in 1..(l + n) - (l + 1) + 1 /\ (l + 1) + i - 1 = l + i
    BY <1>3
  <2> QED
    BY <1>4, <1>7, <2>1
<1>10. s = v
  <2>1. Len(s) = Len(v) /\ \A i \in 1..Len(s) : s[i] = v[i]
    BY <1>8, <1>9 DEF n
  <2> QED
    BY <1>7, <2>1, SeqEqual
<1> QED
  BY <1>1, <1>2, <1>10 DEF s, l, n

\* Bytes that follow each other.
LEMMA Associates ==
  ASSUME NEW u \in Seq(Byte), NEW v \in Seq(Byte), NEW w \in Seq(Byte)
  PROVE  (u \o v) \o w = u \o (v \o w)
BY ONLY u \in Seq(Byte), v \in Seq(Byte), w \in Seq(Byte), ConcatAssociative

\* Bytes with one hash, and with two.
OneHash(header, p, x) == <<header>> \o p \o x
TwoHashes(header, p, q, x) == <<header>> \o p \o q \o x

\* The parts are found again in the bytes.
LEMMA AfterHeader ==
  ASSUME NEW h \in Byte, NEW p \in Seq(Byte), NEW x \in Seq(Byte), Len(p) = KeyHashSize,
         NEW raw, raw = OneHash(h, p, x)
  PROVE  /\ raw \in Seq(Byte) /\ Len(raw) = 1 + KeyHashSize + Len(x) /\ raw[1] = h /\ raw # <<>>
         /\ Part(raw, 1) = p /\ After(raw, 1) = x
<1>1. KeyHashSize \in Nat
  BY AddressAssumption
<1>2. <<h>> \in Seq(Byte) /\ Len(<<h>>) = 1 /\ <<h>>[1] = h /\ Len(x) \in Nat
  BY LenProperties
<1> PICK u : u = <<h>>
  OBVIOUS
<1>3. u \in Seq(Byte) /\ Len(u) = 1 /\ u[1] = h /\ raw = (u \o p) \o x
  BY <1>2 DEF OneHash
<1>4. /\ raw \in Seq(Byte) /\ Len(raw) = Len(u) + Len(p) + Len(x)
      /\ SubSeq(raw, Len(u) + 1, Len(u) + Len(p)) = p
  BY <1>3, Middle
<1>5. Part(raw, 1) = p
  <2>1. 2 + (1 - 1) * KeyHashSize = Len(u) + 1 /\ 1 + 1 * KeyHashSize = Len(u) + Len(p)
    BY <1>1, <1>3
  <2> QED
    BY <1>4, <2>1 DEF Part
<1>6. After(raw, 1) = x
  <2> PICK w : w = u \o p
    OBVIOUS
  <2>1. w \in Seq(Byte) /\ Len(w) = 1 + KeyHashSize
    BY <1>3, TwoParts
  <2>2. <<>> \in Seq(Byte)
    BY EmptySeq
  <2>3. SubSeq((w \o x) \o <<>>, Len(w) + 1, Len(w) + Len(x)) = x
    BY <2>1, <2>2, Middle
  <2>4. raw = w \o x /\ raw = (w \o x) \o <<>>
    BY <1>3, <1>4, ConcatEmptySeq
  <2>5. Len(w) + 1 = 2 + 1 * KeyHashSize /\ Len(w) + Len(x) = Len(raw)
    BY <1>1, <1>2, <1>3, <1>4, <2>1
  <2> QED
    BY <2>3, <2>4, <2>5 DEF After
<1>7. raw[1] = h
  <2> PICK w : w = u \o p
    OBVIOUS
  <2>1. 1 \in 1..Len(u) /\ Len(u) = 1
    BY <1>3
  <2>2. w \in Seq(Byte) /\ w[1] = u[1] /\ Len(w) = Len(u) + Len(p)
    BY <1>3, <2>1, TwoParts
  <2>3. 1 \in 1..Len(w)
    BY <1>1, <1>3, <2>2
  <2>4. (w \o x)[1] = w[1]
    BY <2>2, <2>3, TwoParts
  <2> QED
    BY <1>3, <2>2, <2>4
<1>8. Len(raw) = 1 + KeyHashSize + Len(x) /\ Len(raw) # 0
  BY <1>1, <1>2, <1>3, <1>4
<1> QED
  BY <1>4, <1>5, <1>6, <1>7, <1>8, EmptySeq

\* The same for an address of two hashes.
LEMMA AfterHeaderTwo ==
  ASSUME NEW h \in Byte, NEW p \in Seq(Byte), NEW q \in Seq(Byte), NEW x \in Seq(Byte),
         Len(p) = KeyHashSize, Len(q) = KeyHashSize,
         NEW raw, raw = TwoHashes(h, p, q, x)
  PROVE  /\ raw \in Seq(Byte) /\ Len(raw) = 1 + KeyHashSize * 2 + Len(x) /\ raw[1] = h /\ raw # <<>>
         /\ Part(raw, 1) = p /\ Part(raw, 2) = q /\ After(raw, 2) = x
<1>1. KeyHashSize \in Nat /\ Len(x) \in Nat
  BY AddressAssumption, LenProperties
<1> PICK u, y, w : u = <<h>> /\ y = q \o x /\ w = u \o p
  OBVIOUS
<1>2. u \in Seq(Byte) /\ Len(u) = 1
  OBVIOUS
<1>3. y \in Seq(Byte) /\ Len(y) = Len(q) + Len(x)
  BY TwoParts
<1>4. w \in Seq(Byte) /\ Len(w) = 1 + KeyHashSize
  <2>1. w \in Seq(Byte) /\ Len(w) = Len(u) + Len(p)
    BY ONLY <1>2, p \in Seq(Byte), w = u \o p, TwoParts
  <2> QED
    BY <1>2, <2>1
<1>5. raw = (w \o q) \o x
  BY DEF TwoHashes
<1>6. (w \o q) \o x = w \o y
  <2>1. w \in Seq(Byte) /\ q \in Seq(Byte) /\ x \in Seq(Byte) /\ y = q \o x
    BY <1>4
  <2> QED
    BY ONLY <2>1, Associates, Zenon
<1>7. raw = OneHash(h, p, y)
  BY <1>5, <1>6 DEF OneHash
<1>8. /\ raw \in Seq(Byte) /\ Len(raw) = 1 + KeyHashSize + Len(y) /\ raw[1] = h /\ raw # <<>>
      /\ Part(raw, 1) = p
  <2>1. y \in Seq(Byte) /\ raw = OneHash(h, p, y)
    BY <1>3, <1>7
  <2>2. raw \in Seq(Byte) /\ raw[1] = h /\ raw # <<>> /\ Part(raw, 1) = p
    BY <2>1, AfterHeader
  <2>3. Len(raw) = 1 + KeyHashSize + Len(y)
    <3>1. \A c \in Seq(Byte) : Len(OneHash(h, p, c)) = 1 + KeyHashSize + Len(c)
      BY AfterHeader
    <3> QED
      BY ONLY <2>1, <3>1, Zenon
  <2> QED
    BY <2>2, <2>3
<1>9. SubSeq(raw, Len(w) + 1, Len(w) + Len(q)) = q
  BY <1>4, <1>5, Middle
<1>10. Part(raw, 2) = q
  <2>1. 2 + (2 - 1) * KeyHashSize = Len(w) + 1 /\ 1 + 2 * KeyHashSize = Len(w) + Len(q)
    <3>1. \A k \in Nat : 2 + (2 - 1) * k = (1 + k) + 1 /\ 1 + 2 * k = (1 + k) + k
      OBVIOUS
    <3>2. Len(q) = KeyHashSize
      OBVIOUS
    <3> QED
      BY <1>1, <1>4, <3>1, <3>2, Zenon
  <2> QED
    BY <1>9, <2>1 DEF Part
<1>11. After(raw, 2) = x
  <2> PICK z : z = w \o q
    OBVIOUS
  <2>1. z \in Seq(Byte) /\ Len(z) = 1 + KeyHashSize + KeyHashSize
    <3>1. z \in Seq(Byte) /\ Len(z) = Len(w) + Len(q)
      BY <1>4, TwoParts
    <3> QED
      BY <1>4, <3>1
  <2>2. <<>> \in Seq(Byte)
    BY EmptySeq
  <2>3. SubSeq((z \o x) \o <<>>, Len(z) + 1, Len(z) + Len(x)) = x
    BY <2>1, <2>2, Middle
  <2>4. raw = z \o x /\ raw = (z \o x) \o <<>>
    BY <1>5, <1>8, ConcatEmptySeq
  <2>5. Len(z) + 1 = 2 + 2 * KeyHashSize /\ Len(z) + Len(x) = Len(raw)
    <3> DEFINE K == KeyHashSize
               lz == Len(z)
               lx == Len(x)
               l == Len(raw)
    <3>1. K \in Nat /\ lx \in Nat /\ lz = 1 + K + K /\ l = 1 + K + (K + lx)
      BY <1>1, <1>3, <1>8, <2>1
    <3> HIDE DEF K, lz, lx, l
    <3>2. lz + 1 = 2 + 2 * K /\ lz + lx = l
      BY <3>1
    <3> QED
      BY <3>2 DEF K, lz, lx, l
  <2> QED
    BY <2>3, <2>4, <2>5 DEF After
<1>12. Len(raw) = 1 + KeyHashSize * 2 + Len(x)
  BY <1>1, <1>3, <1>8
<1> QED
  BY <1>8, <1>10, <1>11, <1>12

\* Bytes are their header, the first hash (the first two), and the rest.
LEMMA PartsAreAll ==
  ASSUME NEW raw \in Seq(Byte)
  PROVE  /\ Len(raw) >= 1 + KeyHashSize =>
              /\ Part(raw, 1) \in Seq(Byte) /\ Len(Part(raw, 1)) = KeyHashSize
              /\ After(raw, 1) \in Seq(Byte)
              /\ raw[1] \in Byte /\ raw = OneHash(raw[1], Part(raw, 1), After(raw, 1))
         /\ Len(raw) >= 1 + KeyHashSize * 2 =>
              /\ Part(raw, 2) \in Seq(Byte) /\ Len(Part(raw, 2)) = KeyHashSize
              /\ After(raw, 2) \in Seq(Byte)
              /\ raw = TwoHashes(raw[1], Part(raw, 1), Part(raw, 2), After(raw, 2))
<1> DEFINE K == KeyHashSize
           l == Len(raw)
<1>1. K \in Nat /\ l \in Nat
  BY AddressAssumption, LenProperties
<1>2. \A i \in 1..l : raw[i] \in Byte
  BY ElementOfSeq
<1> HIDE DEF K, l
<1>3. ASSUME NEW m \in 1..l + 1, NEW n \in m - 1..l
      PROVE  SubSeq(raw, m, n) \in Seq(Byte) /\ Len(SubSeq(raw, m, n)) = n - m + 1
  <2>1. m \in Int /\ n \in Int /\ m - 1 <= n /\ m \in Nat /\ n \in Nat
    BY <1>1
  <2>2. \A i \in m..n : raw[i] \in Byte
    BY <1>1, <1>2
  <2>3. SubSeq(raw, m, n) \in Seq(Byte) /\ Len(SubSeq(raw, m, n)) = IF m <= n THEN n - m + 1 ELSE 0
    BY <2>1, <2>2, SubSeqProperties
  <2>4. (IF m <= n THEN n - m + 1 ELSE 0) = n - m + 1
    BY <2>1
  <2> QED
    BY <2>3, <2>4
<1>4. ASSUME l >= 1 PROVE raw[1] \in Byte /\ SubSeq(raw, 1, 1) = <<raw[1]>>
  <2>1. 1 \in 1..l /\ 1 \in 1..l + 1
    BY <1>1, <1>4
  <2>2. SubSeq(raw, 1, 1) = <<raw[1]>> \o SubSeq(raw, 1 + 1, 1)
    BY <2>1, SubSeqRecursiveFirst DEF l
  <2>3. SubSeq(raw, 1 + 1, 1) = <<>>
    BY SubSeqEmpty
  <2>4. raw[1] \in Byte /\ <<raw[1]>> \in Seq(Byte)
    BY <1>2, <2>1
  <2> QED
    BY <2>2, <2>3, <2>4, ConcatEmptySeq
<1>5. ASSUME NEW k \in Nat, NEW n \in Nat, k <= n, n <= l
      PROVE  SubSeq(raw, 1, k) \o SubSeq(raw, k + 1, n) = SubSeq(raw, 1, n)
  <2>1. 1 \in 1..l + 1 /\ k \in 1 - 1..l /\ n \in k..l
    BY <1>1, <1>5
  <2> QED
    BY <2>1, ConcatAdjacentSubSeq DEF l
<1>6. SubSeq(raw, 1, l) = raw
  BY SubSeqFull DEF l
<1>7. ASSUME l >= 1 + K
      PROVE  /\ Part(raw, 1) \in Seq(Byte) /\ Len(Part(raw, 1)) = K /\ After(raw, 1) \in Seq(Byte)
             /\ raw[1] \in Byte /\ raw = OneHash(raw[1], Part(raw, 1), After(raw, 1))
             /\ <<raw[1]>> \o Part(raw, 1) = SubSeq(raw, 1, 1 + K)
  <2>1. Part(raw, 1) = SubSeq(raw, 1 + 1, 1 + K) /\ After(raw, 1) = SubSeq(raw, (1 + K) + 1, l)
    <3>1. 2 + (1 - 1) * K = 1 + 1 /\ 1 + 1 * K = 1 + K /\ 2 + 1 * K = (1 + K) + 1
      BY <1>1
    <3> QED
      BY <3>1 DEF Part, After, K, l
  <2>2. SubSeq(raw, 1, 1) \o SubSeq(raw, 1 + 1, 1 + K) = SubSeq(raw, 1, 1 + K)
    BY <1>1, <1>5, <1>7
  <2>3. SubSeq(raw, 1, 1 + K) \o SubSeq(raw, (1 + K) + 1, l) = raw
    BY <1>1, <1>5, <1>6, <1>7
  <2>4. l >= 1
    BY <1>1, <1>7
  <2>5. 1 + 1 \in 1..l + 1 /\ 1 + K \in (1 + 1) - 1..l /\ (1 + K) - (1 + 1) + 1 = K
    BY <1>1, <1>7
  <2>6. (1 + K) + 1 \in 1..l + 1 /\ l \in ((1 + K) + 1) - 1..l
    BY <1>1, <1>7
  <2>7. Part(raw, 1) \in Seq(Byte) /\ Len(Part(raw, 1)) = K
    BY <1>3, <2>1, <2>5
  <2>8. After(raw, 1) \in Seq(Byte)
    BY <1>3, <2>1, <2>6
  <2> QED
    BY <1>4, <2>1, <2>2, <2>3, <2>4, <2>7, <2>8 DEF OneHash
<1>8. ASSUME l >= 1 + K * 2
      PROVE  /\ Part(raw, 2) \in Seq(Byte) /\ Len(Part(raw, 2)) = K /\ After(raw, 2) \in Seq(Byte)
             /\ raw = TwoHashes(raw[1], Part(raw, 1), Part(raw, 2), After(raw, 2))
  <2>1. Part(raw, 2) = SubSeq(raw, (1 + K) + 1, 1 + 2 * K) /\ After(raw, 2) = SubSeq(raw, (1 + 2 * K) + 1, l)
    <3>1. 2 + (2 - 1) * K = (1 + K) + 1 /\ 2 + 2 * K = (1 + 2 * K) + 1
      BY <1>1
    <3> QED
      BY <3>1 DEF Part, After, K, l
  <2>2. SubSeq(raw, 1, 1 + K) \o SubSeq(raw, (1 + K) + 1, 1 + 2 * K) = SubSeq(raw, 1, 1 + 2 * K)
    <3>1. 1 + K \in Nat /\ 1 + 2 * K \in Nat /\ 1 + K <= 1 + 2 * K /\ 1 + 2 * K <= l
      BY <1>1, <1>8
    <3> QED
      BY <1>5, <3>1
  <2>3. SubSeq(raw, 1, 1 + 2 * K) \o SubSeq(raw, (1 + 2 * K) + 1, l) = raw
    <3>1. 1 + 2 * K \in Nat /\ 1 + 2 * K <= l /\ l <= l
      BY <1>1, <1>8
    <3> QED
      BY <1>1, <1>5, <1>6, <3>1
  <2>4. l >= 1 + K
    BY <1>1, <1>8
  <2>5. (1 + K) + 1 \in 1..l + 1 /\ 1 + 2 * K \in ((1 + K) + 1) - 1..l
        /\ (1 + 2 * K) - ((1 + K) + 1) + 1 = K
    BY <1>1, <1>8
  <2>6. (1 + 2 * K) + 1 \in 1..l + 1 /\ l \in ((1 + 2 * K) + 1) - 1..l
    BY <1>1, <1>8
  <2>7. Part(raw, 2) \in Seq(Byte) /\ Len(Part(raw, 2)) = K
    BY <1>3, <2>1, <2>5
  <2>8. After(raw, 2) \in Seq(Byte)
    BY <1>3, <2>1, <2>6
  <2>9. <<raw[1]>> \o Part(raw, 1) = SubSeq(raw, 1, 1 + K)
    BY <1>7, <2>4
  <2> QED
    BY <2>1, <2>2, <2>3, <2>7, <2>8, <2>9 DEF TwoHashes
<1> QED
  BY <1>7, <1>8 DEF K, l

\* A hash is a sequence of bytes of its length.
LEMMA PayloadIsBytes ==
  ASSUME NEW p \in Payload
  PROVE  /\ p.payload \in Seq(Byte) /\ Len(p.payload) = KeyHashSize /\ p.isScript \in BOOLEAN
         /\ p = [payload |-> p.payload, isScript |-> p.isScript]
<1>1. KeyHashSize \in Nat
  BY AddressAssumption
<1>2. p.payload \in [1..KeyHashSize -> Byte] /\ p.isScript \in BOOLEAN
      /\ p = [payload |-> p.payload, isScript |-> p.isScript]
  BY DEF Payload
<1> QED
  BY <1>1, <1>2

\* Such a sequence makes a hash.
LEMMA BytesArePayload ==
  ASSUME NEW p \in Seq(Byte), Len(p) = KeyHashSize, NEW s \in BOOLEAN
  PROVE  [payload |-> p, isScript |-> s] \in Payload
<1>1. p \in [1..KeyHashSize -> Byte]
  BY LenProperties
<1> QED
  BY <1>1 DEF Payload

\* The header of each type of address, and what is read from it.
BaseByte(a, b, n) == 16 * a + 32 * b + n

\* A base address: both hashes have a bit in the header.
LEMMA BaseHeader ==
  /\ \A a \in 0..1, b \in 0..1, n \in 0..15 :
       /\ BaseByte(a, b, n) \in Byte /\ GetAddressTypeFromHeader(BaseByte(a, b, n)) = "Base"
       /\ BaseByte(a, b, n) % 16 = n /\ ((BaseByte(a, b, n) \div 16) \div 1) % 2 = a
       /\ ((BaseByte(a, b, n) \div 16) \div 2) % 2 = b
  /\ \A h \in Byte : GetAddressTypeFromHeader(h) = "Base" =>
       h = BaseByte(((h \div 16) \div 1) % 2, ((h \div 16) \div 2) % 2, h % 16)
<1>1. ASSUME NEW a \in 0..1, NEW b \in 0..1, NEW n \in 0..15
      PROVE  /\ BaseByte(a, b, n) \in Byte /\ GetAddressTypeFromHeader(BaseByte(a, b, n)) = "Base"
             /\ BaseByte(a, b, n) % 16 = n /\ ((BaseByte(a, b, n) \div 16) \div 1) % 2 = a
             /\ ((BaseByte(a, b, n) \div 16) \div 2) % 2 = b
  <2>1. 16 * a + 32 * b + n \in 0..255 /\ (16 * a + 32 * b + n) \div 16 \in 0..3
    OBVIOUS
  <2>2. (16 * a + 32 * b + n) % 16 = n
    OBVIOUS
  <2>3. (16 * a + 32 * b + n) \div 16 = a + 2 * b
    OBVIOUS
  <2>4. ((a + 2 * b) \div 1) % 2 = a
    OBVIOUS
  <2>5. ((a + 2 * b) \div 2) % 2 = b
    OBVIOUS
  <2>6. (((16 * a + 32 * b + n) \div 16) \div 1) % 2 = a
    BY <2>3, <2>4
  <2>7. (((16 * a + 32 * b + n) \div 16) \div 2) % 2 = b
    BY <2>3, <2>5
  <2>8. GetAddressTypeFromHeader(16 * a + 32 * b + n) = "Base"
    BY <2>1 DEF GetAddressTypeFromHeader
  <2> QED
    BY <2>1, <2>2, <2>6, <2>7, <2>8 DEF BaseByte, Byte
<1>2. ASSUME NEW h \in Byte, GetAddressTypeFromHeader(h) = "Base"
      PROVE  h = BaseByte(((h \div 16) \div 1) % 2, ((h \div 16) \div 2) % 2, h % 16)
  <2>1. \A k \in 0..255 : k \div 16 <= 3 =>
          k = 16 * (((k \div 16) \div 1) % 2) + 32 * (((k \div 16) \div 2) % 2) + (k % 16)
    OBVIOUS
  <2>2. h \div 16 <= 3 /\ h \in 0..255
    BY <1>2 DEF GetAddressTypeFromHeader, Byte
  <2> QED
    BY <2>1, <2>2 DEF BaseByte
<1> QED
  BY <1>1, <1>2

PointerByte(a, n) == 64 + 16 * a + n

\* A pointer address: its hash has a bit in the header.
LEMMA PointerHeader ==
  /\ \A a \in 0..1, n \in 0..15 :
       /\ PointerByte(a, n) \in Byte /\ GetAddressTypeFromHeader(PointerByte(a, n)) = "Pointer"
       /\ PointerByte(a, n) % 16 = n /\ ((PointerByte(a, n) \div 16) \div 1) % 2 = a
  /\ \A h \in Byte : GetAddressTypeFromHeader(h) = "Pointer" =>
       h = PointerByte(((h \div 16) \div 1) % 2, h % 16)
<1>1. ASSUME NEW a \in 0..1, NEW n \in 0..15
      PROVE  /\ PointerByte(a, n) \in Byte /\ GetAddressTypeFromHeader(PointerByte(a, n)) = "Pointer"
             /\ PointerByte(a, n) % 16 = n /\ ((PointerByte(a, n) \div 16) \div 1) % 2 = a
  <2>1. /\ 64 + 16 * a + n \in 0..255 /\ (64 + 16 * a + n) \div 16 \in {4, 5}
        /\ (64 + 16 * a + n) % 16 = n
    OBVIOUS
  <2>2. (((64 + 16 * a + n) \div 16) \div 1) % 2 = a
    OBVIOUS
  <2>3. GetAddressTypeFromHeader(64 + 16 * a + n) = "Pointer"
    BY <2>1 DEF GetAddressTypeFromHeader
  <2> QED
    BY <2>1, <2>2, <2>3 DEF PointerByte, Byte
<1>2. ASSUME NEW h \in Byte, GetAddressTypeFromHeader(h) = "Pointer"
      PROVE  h = PointerByte(((h \div 16) \div 1) % 2, h % 16)
  <2>1. \A k \in 0..255 : k \div 16 \in {4, 5} => k = 64 + 16 * (((k \div 16) \div 1) % 2) + (k % 16)
    OBVIOUS
  <2>2. h \div 16 \in {4, 5} /\ h \in 0..255
    BY <1>2 DEF GetAddressTypeFromHeader, Byte
  <2> QED
    BY <2>1, <2>2 DEF PointerByte
<1> QED
  BY <1>1, <1>2

EnterpriseByte(a, n) == 96 + 16 * a + n

\* An enterprise address: its hash has a bit in the header.
LEMMA EnterpriseHeader ==
  /\ \A a \in 0..1, n \in 0..15 :
       /\ EnterpriseByte(a, n) \in Byte /\ GetAddressTypeFromHeader(EnterpriseByte(a, n)) = "Enterprise"
       /\ EnterpriseByte(a, n) % 16 = n /\ ((EnterpriseByte(a, n) \div 16) \div 1) % 2 = a
  /\ \A h \in Byte : GetAddressTypeFromHeader(h) = "Enterprise" =>
       h = EnterpriseByte(((h \div 16) \div 1) % 2, h % 16)
<1>1. ASSUME NEW a \in 0..1, NEW n \in 0..15
      PROVE  /\ EnterpriseByte(a, n) \in Byte /\ GetAddressTypeFromHeader(EnterpriseByte(a, n)) = "Enterprise"
             /\ EnterpriseByte(a, n) % 16 = n /\ ((EnterpriseByte(a, n) \div 16) \div 1) % 2 = a
  <2>1. /\ 96 + 16 * a + n \in 0..255 /\ (96 + 16 * a + n) \div 16 \in {6, 7}
        /\ (96 + 16 * a + n) % 16 = n
    OBVIOUS
  <2>2. (((96 + 16 * a + n) \div 16) \div 1) % 2 = a
    OBVIOUS
  <2>3. GetAddressTypeFromHeader(96 + 16 * a + n) = "Enterprise"
    BY <2>1 DEF GetAddressTypeFromHeader
  <2> QED
    BY <2>1, <2>2, <2>3 DEF EnterpriseByte, Byte
<1>2. ASSUME NEW h \in Byte, GetAddressTypeFromHeader(h) = "Enterprise"
      PROVE  h = EnterpriseByte(((h \div 16) \div 1) % 2, h % 16)
  <2>1. \A k \in 0..255 : k \div 16 \in {6, 7} => k = 96 + 16 * (((k \div 16) \div 1) % 2) + (k % 16)
    OBVIOUS
  <2>2. h \div 16 \in {6, 7} /\ h \in 0..255
    BY <1>2 DEF GetAddressTypeFromHeader, Byte
  <2> QED
    BY <2>1, <2>2 DEF EnterpriseByte
<1> QED
  BY <1>1, <1>2

RewardByte(a, n) == 224 + 16 * a + n

\* A reward address: its hash has a bit in the header.
LEMMA RewardHeader ==
  /\ \A a \in 0..1, n \in 0..15 :
       /\ RewardByte(a, n) \in Byte /\ GetAddressTypeFromHeader(RewardByte(a, n)) = "Reward"
       /\ RewardByte(a, n) % 16 = n /\ ((RewardByte(a, n) \div 16) \div 1) % 2 = a
  /\ \A h \in Byte : GetAddressTypeFromHeader(h) = "Reward" =>
       h = RewardByte(((h \div 16) \div 1) % 2, h % 16)
<1>1. ASSUME NEW a \in 0..1, NEW n \in 0..15
      PROVE  /\ RewardByte(a, n) \in Byte /\ GetAddressTypeFromHeader(RewardByte(a, n)) = "Reward"
             /\ RewardByte(a, n) % 16 = n /\ ((RewardByte(a, n) \div 16) \div 1) % 2 = a
  <2>1. /\ 224 + 16 * a + n \in 0..255 /\ (224 + 16 * a + n) \div 16 \in {14, 15}
        /\ (224 + 16 * a + n) % 16 = n
    OBVIOUS
  <2>2. (((224 + 16 * a + n) \div 16) \div 1) % 2 = a
    OBVIOUS
  <2>3. GetAddressTypeFromHeader(224 + 16 * a + n) = "Reward"
    BY <2>1 DEF GetAddressTypeFromHeader
  <2> QED
    BY <2>1, <2>2, <2>3 DEF RewardByte, Byte
<1>2. ASSUME NEW h \in Byte, GetAddressTypeFromHeader(h) = "Reward"
      PROVE  h = RewardByte(((h \div 16) \div 1) % 2, h % 16)
  <2>1. \A k \in 0..255 : k \div 16 \in {14, 15} => k = 224 + 16 * (((k \div 16) \div 1) % 2) + (k % 16)
    OBVIOUS
  <2>2. h \div 16 \in {14, 15} /\ h \in 0..255
    BY <1>2 DEF GetAddressTypeFromHeader, Byte
  <2> QED
    BY <2>1, <2>2 DEF RewardByte
<1> QED
  BY <1>1, <1>2

\* The network and the bits of any header.
LEMMA HeaderOfByte ==
  \A h \in Byte : /\ h % 16 \in 0..15 /\ (h % 16) % 16 = h % 16
                  /\ ((h \div 16) \div 1) % 2 \in 0..1 /\ ((h \div 16) \div 2) % 2 \in 0..1
<1>1. \A h \in 0..255 : /\ h % 16 \in 0..15 /\ (h % 16) % 16 = h % 16
                        /\ ((h \div 16) \div 1) % 2 \in 0..1 /\ ((h \div 16) \div 2) % 2 \in 0..1
  OBVIOUS
<1> QED
  BY <1>1 DEF Byte

\* The parts of an address of one hash, stated of the address itself.
LEMMA OneHashParts ==
  ASSUME NEW h \in Byte, NEW p \in Seq(Byte), NEW x \in Seq(Byte), Len(p) = KeyHashSize
  PROVE  /\ OneHash(h, p, x) \in Seq(Byte) /\ Len(OneHash(h, p, x)) = 1 + KeyHashSize + Len(x)
         /\ OneHash(h, p, x)[1] = h /\ OneHash(h, p, x) # <<>>
         /\ Part(OneHash(h, p, x), 1) = p /\ After(OneHash(h, p, x), 1) = x
BY AfterHeader
\* The parts of an address of two hashes.
LEMMA TwoHashesParts ==
  ASSUME NEW h \in Byte, NEW p \in Seq(Byte), NEW q \in Seq(Byte), NEW x \in Seq(Byte),
         Len(p) = KeyHashSize, Len(q) = KeyHashSize
  PROVE  /\ TwoHashes(h, p, q, x) \in Seq(Byte) /\ Len(TwoHashes(h, p, q, x)) = 1 + KeyHashSize * 2 + Len(x)
         /\ TwoHashes(h, p, q, x)[1] = h /\ TwoHashes(h, p, q, x) # <<>>
         /\ Part(TwoHashes(h, p, q, x), 1) = p /\ Part(TwoHashes(h, p, q, x), 2) = q
         /\ After(TwoHashes(h, p, q, x), 2) = x
BY AfterHeaderTwo

-----------------------------------------------------------------------------
(* From the parts to the bytes *)

BaseInfos == [type : {"Base"}, network : 0..15, payment : Payload, stake : Payload, extra : Seq(Byte)]
PointerInfos == [type : {"Pointer"}, network : 0..15, payment : Payload, stakePointer : StakePointer,
                 extra : Seq(Byte)]
EnterpriseInfos == [type : {"Enterprise"}, network : 0..15, payment : Payload, extra : Seq(Byte)]
RewardInfos == [type : {"Reward"}, network : 0..15, stake : Payload, extra : Seq(Byte)]

\* A flag is one bit.
LEMMA Bits == \A b \in BOOLEAN : ToByte(b) \in 0..1 /\ (ToByte(b) = 1 <=> b)
BY DEF ToByte

\* What is built of the parts of an address: bytes of its type, with its parts.
Faithful(i) ==
  LET raw == FromCardanoAddressInfo(i)
  IN  /\ raw \in Seq(Byte) /\ raw # <<>> /\ GetAddressTypeFromHeader(raw[1]) = i.type
      /\ IsValid(i.type, raw) => ToCardanoAddressInfo(i.type, raw) = i

\* The parts of a base address are found in its bytes.
LEMMA BaseFaithful == ASSUME NEW i \in BaseInfos PROVE Faithful(i)
<1> PICK p, s, a, b, n, x :
         p = i.payment.payload /\ s = i.stake.payload /\ a = ToByte(i.payment.isScript)
         /\ b = ToByte(i.stake.isScript) /\ n = i.network /\ x = i.extra
  OBVIOUS
<1>1. /\ i = [type |-> "Base", network |-> n, payment |-> i.payment, stake |-> i.stake, extra |-> x]
      /\ i.type = "Base" /\ n \in 0..15 /\ i.payment \in Payload /\ i.stake \in Payload /\ x \in Seq(Byte)
  BY DEF BaseInfos
<1>2. /\ p \in Seq(Byte) /\ s \in Seq(Byte) /\ Len(p) = KeyHashSize /\ Len(s) = KeyHashSize
      /\ i.payment = [payload |-> p, isScript |-> i.payment.isScript] /\ i.payment.isScript \in BOOLEAN
      /\ i.stake = [payload |-> s, isScript |-> i.stake.isScript] /\ i.stake.isScript \in BOOLEAN
  BY <1>1, PayloadIsBytes
<1>3. a \in 0..1 /\ b \in 0..1 /\ (a = 1 <=> i.payment.isScript) /\ (b = 1 <=> i.stake.isScript)
  BY <1>2, Bits
<1> PICK h : h = BaseByte(a, b, n)
  OBVIOUS
<1>4. /\ h \in Byte /\ GetAddressTypeFromHeader(h) = "Base" /\ h % 16 = n
      /\ ((h \div 16) \div 1) % 2 = a /\ ((h \div 16) \div 2) % 2 = b
  BY <1>1, <1>3, BaseHeader
<1> DEFINE raw == FromCardanoAddressInfo(i)
<1>5. raw = TwoHashes(h, p, s, x)
  <2>1. n % 16 = n
    BY <1>1
  <2>2. i.type = "Base"
    BY <1>1
  <2>3. raw = <<16 * ToByte(i.payment.isScript) + 32 * ToByte(i.stake.isScript) + (i.network % 16)>>
                \o i.payment.payload \o i.stake.payload \o i.extra
    BY ONLY <2>2 DEF FromCardanoAddressInfo
  <2> QED
    BY <2>1, <2>3 DEF TwoHashes, BaseByte
<1> HIDE DEF raw
<1>6. /\ raw \in Seq(Byte) /\ raw[1] = h /\ raw # <<>>
      /\ Part(raw, 1) = p /\ Part(raw, 2) = s /\ After(raw, 2) = x
  <2>0. h \in Byte /\ p \in Seq(Byte) /\ s \in Seq(Byte) /\ x \in Seq(Byte)
        /\ Len(p) = KeyHashSize /\ Len(s) = KeyHashSize
    BY <1>1, <1>2, <1>4
  <2>1. TwoHashes(h, p, s, x) \in Seq(Byte)
    BY ONLY <2>0, TwoHashesParts
  <2>2. TwoHashes(h, p, s, x)[1] = h
    BY ONLY <2>0, TwoHashesParts
  <2>3. TwoHashes(h, p, s, x) # <<>>
    BY ONLY <2>0, TwoHashesParts
  <2>4. /\ Part(TwoHashes(h, p, s, x), 1) = p /\ Part(TwoHashes(h, p, s, x), 2) = s
        /\ After(TwoHashes(h, p, s, x), 2) = x
    BY ONLY <2>0, TwoHashesParts
  <2> QED
    BY ONLY <1>5, <2>1, <2>2, <2>3, <2>4
<1>8. ToCardanoAddressInfo("Base", raw) = i
  <2>1. ToCardanoAddressInfo("Base", raw)
          = [type |-> "Base", network |-> h % 16,
             payment |-> [payload |-> p, isScript |-> ((h \div 16) \div 1) % 2 = 1],
             stake |-> [payload |-> s, isScript |-> ((h \div 16) \div 2) % 2 = 1], extra |-> x]
    <3>1. ToCardanoAddressInfo("Base", raw)
            = [type |-> "Base", network |-> raw[1] % 16,
               payment |-> [payload |-> Part(raw, 1), isScript |-> ((raw[1] \div 16) \div 1) % 2 = 1],
               stake |-> [payload |-> Part(raw, 2), isScript |-> ((raw[1] \div 16) \div 2) % 2 = 1],
               extra |-> After(raw, 2)]
      BY ONLY DEF ToCardanoAddressInfo
    <3> QED
      BY <1>6, <3>1
  <2>2. (((h \div 16) \div 1) % 2 = 1) = i.payment.isScript /\ (((h \div 16) \div 2) % 2 = 1) = i.stake.isScript
    BY <1>2, <1>3, <1>4
  <2> QED
    BY <1>1, <1>2, <1>4, <2>1, <2>2
<1> QED
  BY <1>1, <1>4, <1>6, <1>8 DEF Faithful, raw

\* The parts of an enterprise address are found in its bytes.
LEMMA EnterpriseFaithful == ASSUME NEW i \in EnterpriseInfos PROVE Faithful(i)
<1> PICK p, a, n, x :
         p = i.payment.payload /\ a = ToByte(i.payment.isScript) /\ n = i.network /\ x = i.extra
  OBVIOUS
<1>1. /\ i = [type |-> "Enterprise", network |-> n, payment |-> i.payment, extra |-> x]
      /\ i.type = "Enterprise" /\ n \in 0..15 /\ i.payment \in Payload /\ x \in Seq(Byte)
  BY DEF EnterpriseInfos
<1>2. /\ p \in Seq(Byte) /\ Len(p) = KeyHashSize
      /\ i.payment = [payload |-> p, isScript |-> i.payment.isScript] /\ i.payment.isScript \in BOOLEAN
  BY <1>1, PayloadIsBytes
<1>3. a \in 0..1 /\ (a = 1 <=> i.payment.isScript)
  BY <1>2, Bits
<1> PICK h : h = EnterpriseByte(a, n)
  OBVIOUS
<1>4. /\ h \in Byte /\ GetAddressTypeFromHeader(h) = "Enterprise" /\ h % 16 = n
      /\ ((h \div 16) \div 1) % 2 = a
  BY <1>1, <1>3, EnterpriseHeader
<1> DEFINE raw == FromCardanoAddressInfo(i)
<1>5. raw = OneHash(h, p, x)
  <2>1. n % 16 = n
    BY <1>1
  <2>2. i.type = "Enterprise"
    BY <1>1
  <2>3. raw = <<96 + 16 * ToByte(i.payment.isScript) + (i.network % 16)>> \o i.payment.payload \o i.extra
    BY ONLY <2>2 DEF FromCardanoAddressInfo
  <2> QED
    BY <2>1, <2>3 DEF OneHash, EnterpriseByte
<1> HIDE DEF raw
<1>6. /\ raw \in Seq(Byte) /\ raw[1] = h /\ raw # <<>>
      /\ Part(raw, 1) = p /\ After(raw, 1) = x
  <2>0. h \in Byte /\ p \in Seq(Byte) /\ x \in Seq(Byte) /\ Len(p) = KeyHashSize
    BY <1>1, <1>2, <1>4
  <2>1. OneHash(h, p, x) \in Seq(Byte)
    BY ONLY <2>0, OneHashParts
  <2>2. OneHash(h, p, x)[1] = h
    BY ONLY <2>0, OneHashParts
  <2>3. OneHash(h, p, x) # <<>>
    BY ONLY <2>0, OneHashParts
  <2>4. Part(OneHash(h, p, x), 1) = p /\ After(OneHash(h, p, x), 1) = x
    BY ONLY <2>0, OneHashParts
  <2> QED
    BY ONLY <1>5, <2>1, <2>2, <2>3, <2>4
<1>8. ToCardanoAddressInfo("Enterprise", raw) = i
  <2>1. ToCardanoAddressInfo("Enterprise", raw)
          = [type |-> "Enterprise", network |-> h % 16,
             payment |-> [payload |-> p, isScript |-> ((h \div 16) \div 1) % 2 = 1], extra |-> x]
    <3>1. ToCardanoAddressInfo("Enterprise", raw)
            = [type |-> "Enterprise", network |-> raw[1] % 16,
               payment |-> [payload |-> Part(raw, 1), isScript |-> ((raw[1] \div 16) \div 1) % 2 = 1],
               extra |-> After(raw, 1)]
      BY ONLY DEF ToCardanoAddressInfo
    <3> QED
      BY <1>6, <3>1
  <2>2. (((h \div 16) \div 1) % 2 = 1) = i.payment.isScript
    BY <1>2, <1>3, <1>4
  <2> QED
    BY <1>1, <1>2, <1>4, <2>1, <2>2
<1> QED
  BY <1>1, <1>4, <1>6, <1>8 DEF Faithful, raw

\* The parts of a reward address are found in its bytes.
LEMMA RewardFaithful == ASSUME NEW i \in RewardInfos PROVE Faithful(i)
<1> PICK p, a, n, x :
         p = i.stake.payload /\ a = ToByte(i.stake.isScript) /\ n = i.network /\ x = i.extra
  OBVIOUS
<1>1. /\ i = [type |-> "Reward", network |-> n, stake |-> i.stake, extra |-> x]
      /\ i.type = "Reward" /\ n \in 0..15 /\ i.stake \in Payload /\ x \in Seq(Byte)
  BY DEF RewardInfos
<1>2. /\ p \in Seq(Byte) /\ Len(p) = KeyHashSize
      /\ i.stake = [payload |-> p, isScript |-> i.stake.isScript] /\ i.stake.isScript \in BOOLEAN
  BY <1>1, PayloadIsBytes
<1>3. a \in 0..1 /\ (a = 1 <=> i.stake.isScript)
  BY <1>2, Bits
<1> PICK h : h = RewardByte(a, n)
  OBVIOUS
<1>4. /\ h \in Byte /\ GetAddressTypeFromHeader(h) = "Reward" /\ h % 16 = n
      /\ ((h \div 16) \div 1) % 2 = a
  BY <1>1, <1>3, RewardHeader
<1> DEFINE raw == FromCardanoAddressInfo(i)
<1>5. raw = OneHash(h, p, x)
  <2>1. n % 16 = n
    BY <1>1
  <2>2. i.type = "Reward"
    BY <1>1
  <2>3. raw = <<224 + 16 * ToByte(i.stake.isScript) + (i.network % 16)>> \o i.stake.payload \o i.extra
    BY ONLY <2>2 DEF FromCardanoAddressInfo
  <2> QED
    BY <2>1, <2>3 DEF OneHash, RewardByte
<1> HIDE DEF raw
<1>6. /\ raw \in Seq(Byte) /\ raw[1] = h /\ raw # <<>>
      /\ Part(raw, 1) = p /\ After(raw, 1) = x
  <2>0. h \in Byte /\ p \in Seq(Byte) /\ x \in Seq(Byte) /\ Len(p) = KeyHashSize
    BY <1>1, <1>2, <1>4
  <2>1. OneHash(h, p, x) \in Seq(Byte)
    BY ONLY <2>0, OneHashParts
  <2>2. OneHash(h, p, x)[1] = h
    BY ONLY <2>0, OneHashParts
  <2>3. OneHash(h, p, x) # <<>>
    BY ONLY <2>0, OneHashParts
  <2>4. Part(OneHash(h, p, x), 1) = p /\ After(OneHash(h, p, x), 1) = x
    BY ONLY <2>0, OneHashParts
  <2> QED
    BY ONLY <1>5, <2>1, <2>2, <2>3, <2>4
<1>8. ToCardanoAddressInfo("Reward", raw) = i
  <2>1. ToCardanoAddressInfo("Reward", raw)
          = [type |-> "Reward", network |-> h % 16,
             stake |-> [payload |-> p, isScript |-> ((h \div 16) \div 1) % 2 = 1], extra |-> x]
    <3>1. ToCardanoAddressInfo("Reward", raw)
            = [type |-> "Reward", network |-> raw[1] % 16,
               stake |-> [payload |-> Part(raw, 1), isScript |-> ((raw[1] \div 16) \div 1) % 2 = 1],
               extra |-> After(raw, 1)]
      BY ONLY DEF ToCardanoAddressInfo
    <3> QED
      BY <1>6, <3>1
  <2>2. (((h \div 16) \div 1) % 2 = 1) = i.stake.isScript
    BY <1>2, <1>3, <1>4
  <2> QED
    BY <1>1, <1>2, <1>4, <2>1, <2>2
<1> QED
  BY <1>1, <1>4, <1>6, <1>8 DEF Faithful, raw

\* What follows the header and the hash, taken together.
LEMMA Reassociated ==
  ASSUME NEW u \in Seq(Byte), NEW a \in Seq(Byte), NEW b \in Seq(Byte), NEW c \in Seq(Byte), NEW x \in Seq(Byte)
  PROVE  u \o a \o b \o c \o x = u \o (a \o b \o c \o x)
<1>1. \A v, w \in Seq(Byte) : (u \o v) \o w = u \o (v \o w)
  BY Associates
<1>2. a \o b \in Seq(Byte) /\ a \o b \o c \in Seq(Byte)
  OBVIOUS
<1>3. (u \o a) \o b = u \o (a \o b)
  BY ONLY <1>1, a \in Seq(Byte), b \in Seq(Byte), Zenon
<1>4. (u \o (a \o b)) \o c = u \o ((a \o b) \o c)
  BY ONLY <1>1, <1>2, c \in Seq(Byte), Zenon
<1>5. (u \o (a \o b \o c)) \o x = u \o ((a \o b \o c) \o x)
  BY ONLY <1>1, <1>2, x \in Seq(Byte), Zenon
<1> QED
  BY ONLY <1>3, <1>4, <1>5

\* The numbers of a stake pointer, and what follows them.
Numbers(sp, x) == Encoded(sp.slot, sp.txIndex, sp.certIndex, x)

\* The numbers of a stake pointer are read back, if nothing follows them.
LEMMA NumbersAreRead ==
  ASSUME NEW sp \in StakePointer, NEW x \in Seq(Byte)
  PROVE  /\ Numbers(sp, x) \in Seq(Byte)
         /\ x = <<>> => Len(Numbers(sp, x)) = Size(sp.slot, sp.txIndex, sp.certIndex)
         /\ HasStakePointer(Numbers(sp, x)) <=> x = <<>>
         /\ x = <<>> => getStakePointer(Numbers(sp, x)) = sp
<1>1. /\ sp.slot \in 0..Word - 1 /\ sp.txIndex \in 0..Word - 1 /\ sp.certIndex \in 0..Word - 1
      /\ sp = [slot |-> sp.slot, txIndex |-> sp.txIndex, certIndex |-> sp.certIndex]
  BY DEF StakePointer
<1> PICK a, b, c : a = sp.slot /\ b = sp.txIndex /\ c = sp.certIndex
  OBVIOUS
<1>2. a \in 0..Word - 1 /\ b \in 0..Word - 1 /\ c \in 0..Word - 1
  BY <1>1
<1>3. Encoded(a, b, c, x) \in Seq(Byte)
  BY ONLY <1>2, x \in Seq(Byte), StakePointerOfNumbers, Zenon
<1>7. x = <<>> => Len(Encoded(a, b, c, x)) = Size(a, b, c)
  BY ONLY <1>2, x \in Seq(Byte), StakePointerOfNumbers, Zenon
<1>4. HasStakePointer(Encoded(a, b, c, x)) <=> x = <<>>
  BY ONLY <1>2, x \in Seq(Byte), StakePointerOfNumbers, Zenon
<1>5. x = <<>> => getStakePointer(Encoded(a, b, c, x)) = [slot |-> a, txIndex |-> b, certIndex |-> c]
  BY ONLY <1>2, x \in Seq(Byte), StakePointerOfNumbers, Zenon
<1>6. Numbers(sp, x) = Encoded(a, b, c, x)
  BY DEF Numbers
<1> QED
  BY ONLY <1>1, <1>3, <1>7, <1>4, <1>5, <1>6, a = sp.slot, b = sp.txIndex, c = sp.certIndex

\* The bytes of a pointer address: header, hash, and what follows.
LEMMA PointerRaw ==
  ASSUME NEW i \in PointerInfos
  PROVE  FromCardanoAddressInfo(i)
           = OneHash(PointerByte(ToByte(i.payment.isScript), i.network), i.payment.payload,
                     Numbers(i.stakePointer, i.extra))
<1>1. /\ i.network \in 0..15 /\ i.payment \in Payload /\ i.type = "Pointer" /\ i.extra \in Seq(Byte)
      /\ i.stakePointer \in StakePointer
  BY DEF PointerInfos
<1>2. /\ i.payment.payload \in Seq(Byte) /\ i.payment.isScript \in BOOLEAN
  BY <1>1, PayloadIsBytes
<1> PICK h, p, a, b, c, x :
       /\ h = 64 + 16 * ToByte(i.payment.isScript) + i.network /\ p = i.payment.payload
       /\ a = variableEncode(i.stakePointer.slot) /\ b = variableEncode(i.stakePointer.txIndex)
       /\ c = variableEncode(i.stakePointer.certIndex) /\ x = i.extra
  OBVIOUS
<1>3. h \in Byte
  <2>1. ToByte(i.payment.isScript) \in 0..1
    BY <1>2, Bits
  <2>2. h = PointerByte(ToByte(i.payment.isScript), i.network)
    BY DEF PointerByte
  <2> QED
    BY ONLY <1>1, <2>1, <2>2, PointerHeader, Zenon
<1>4. /\ i.stakePointer.slot \in 0..Word - 1 /\ i.stakePointer.txIndex \in 0..Word - 1
      /\ i.stakePointer.certIndex \in 0..Word - 1
  BY <1>1 DEF StakePointer
<1>5. a \in Seq(Byte) /\ b \in Seq(Byte) /\ c \in Seq(Byte) /\ x \in Seq(Byte) /\ p \in Seq(Byte)
  BY <1>1, <1>2, <1>4, VariableEncodeGroups
<1>6. FromCardanoAddressInfo(i) = <<h>> \o p \o a \o b \o c \o x
  <2>0. i.type = "Pointer"
    BY <1>1
  <2>1. i.network % 16 = i.network
    BY <1>1
  <2>2. FromCardanoAddressInfo(i)
          = <<64 + 16 * ToByte(i.payment.isScript) + (i.network % 16)>> \o i.payment.payload
              \o variableEncode(i.stakePointer.slot) \o variableEncode(i.stakePointer.txIndex)
              \o variableEncode(i.stakePointer.certIndex) \o i.extra
    BY ONLY <2>0 DEF FromCardanoAddressInfo
  <2> QED
    BY <2>1, <2>2
<1>7. <<h>> \o p \in Seq(Byte)
  BY <1>3, <1>5, ConcatProperties
<1> PICK u : u = <<h>> \o p
  OBVIOUS
<1>8. u \o a \o b \o c \o x = u \o (a \o b \o c \o x)
  <2>1. u \in Seq(Byte) /\ a \in Seq(Byte) /\ b \in Seq(Byte) /\ c \in Seq(Byte) /\ x \in Seq(Byte)
    BY <1>5, <1>7
  <2>2. \A a1, b1, c1, x1 \in Seq(Byte) : u \o a1 \o b1 \o c1 \o x1 = u \o (a1 \o b1 \o c1 \o x1)
    BY ONLY <2>1, Reassociated
  <2>3. \A b1, c1, x1 \in Seq(Byte) : u \o a \o b1 \o c1 \o x1 = u \o (a \o b1 \o c1 \o x1)
    BY ONLY <2>1, <2>2, Zenon
  <2>4. \A x1 \in Seq(Byte) : u \o a \o b \o c \o x1 = u \o (a \o b \o c \o x1)
    BY ONLY <2>1, <2>3, Zenon
  <2> QED
    BY ONLY <2>1, <2>4, Zenon
<1> QED
  BY <1>6, <1>8 DEF OneHash, Numbers, Encoded, PointerByte

\* The parts of a pointer address are found in its bytes.
LEMMA PointerFaithful == ASSUME NEW i \in PointerInfos PROVE Faithful(i)
<1> PICK p, a, n, x, sp :
         p = i.payment.payload /\ a = ToByte(i.payment.isScript) /\ n = i.network
         /\ x = Numbers(i.stakePointer, i.extra) /\ sp = i.stakePointer
  OBVIOUS
<1>1. /\ i = [type |-> "Pointer", network |-> n, payment |-> i.payment, stakePointer |-> sp, extra |-> i.extra]
      /\ i.type = "Pointer" /\ n \in 0..15 /\ i.payment \in Payload /\ i.extra \in Seq(Byte)
      /\ sp \in StakePointer
  BY DEF PointerInfos
<1>2. /\ p \in Seq(Byte) /\ Len(p) = KeyHashSize
      /\ i.payment = [payload |-> p, isScript |-> i.payment.isScript] /\ i.payment.isScript \in BOOLEAN
  BY <1>1, PayloadIsBytes
<1>3. a \in 0..1 /\ (a = 1 <=> i.payment.isScript)
  BY <1>2, Bits
<1> PICK h : h = PointerByte(a, n)
  OBVIOUS
<1>4. /\ h \in Byte /\ GetAddressTypeFromHeader(h) = "Pointer" /\ h % 16 = n
      /\ ((h \div 16) \div 1) % 2 = a
  BY <1>1, <1>3, PointerHeader
<1> DEFINE raw == FromCardanoAddressInfo(i)
<1>5. raw = OneHash(h, p, x)
  BY PointerRaw
<1> HIDE DEF raw
<1>7. /\ x \in Seq(Byte) /\ (HasStakePointer(x) => i.extra = <<>> /\ getStakePointer(x) = sp)
  BY <1>1, NumbersAreRead
<1>6. /\ raw \in Seq(Byte) /\ raw[1] = h /\ raw # <<>>
      /\ Part(raw, 1) = p /\ After(raw, 1) = x
  <2>0. h \in Byte /\ p \in Seq(Byte) /\ x \in Seq(Byte) /\ Len(p) = KeyHashSize
    BY <1>7, <1>2, <1>4
  <2>1. OneHash(h, p, x) \in Seq(Byte)
    BY ONLY <2>0, OneHashParts
  <2>2. OneHash(h, p, x)[1] = h
    BY ONLY <2>0, OneHashParts
  <2>3. OneHash(h, p, x) # <<>>
    BY ONLY <2>0, OneHashParts
  <2>4. Part(OneHash(h, p, x), 1) = p /\ After(OneHash(h, p, x), 1) = x
    BY ONLY <2>0, OneHashParts
  <2> QED
    BY ONLY <1>5, <2>1, <2>2, <2>3, <2>4
<1>8. ASSUME IsValid("Pointer", raw)
      PROVE  ToCardanoAddressInfo("Pointer", raw) = i
  <2>0. i.extra = <<>> /\ getStakePointer(x) = sp
    <3>1. HasStakePointer(After(raw, 1))
      BY <1>8 DEF IsValid
    <3> QED
      BY <3>1, <1>6, <1>7
  <2>1. ToCardanoAddressInfo("Pointer", raw)
          = [type |-> "Pointer", network |-> h % 16,
             payment |-> [payload |-> p, isScript |-> ((h \div 16) \div 1) % 2 = 1],
             stakePointer |-> getStakePointer(x), extra |-> <<>>]
    <3>1. ToCardanoAddressInfo("Pointer", raw)
            = [type |-> "Pointer", network |-> raw[1] % 16,
               payment |-> [payload |-> Part(raw, 1), isScript |-> ((raw[1] \div 16) \div 1) % 2 = 1],
               stakePointer |-> getStakePointer(After(raw, 1)), extra |-> <<>>]
      BY ONLY DEF ToCardanoAddressInfo
    <3> QED
      BY <1>6, <3>1
  <2>2. (((h \div 16) \div 1) % 2 = 1) = i.payment.isScript
    BY <1>2, <1>3, <1>4
  <2> QED
    BY <1>1, <1>2, <1>4, <2>0, <2>1, <2>2
<1> QED
  BY <1>1, <1>4, <1>6, <1>8 DEF Faithful, raw

\* The parts of a Byron address are found in its bytes, when there are any.
LEMMA ByronFaithful ==
  ASSUME NEW b \in ByronAddresses, HasParts(b)
  PROVE  Faithful(ByronInfo(b)) /\ FromCardanoAddressInfo(ByronInfo(b)) = b.raw /\ ByronInfo(b).type = "Byron"
<1> PICK i : i = ByronInfo(b)
  OBVIOUS
<1>1. /\ b.raw \in Seq(Byte) /\ Len(b.raw) > 0 /\ GetAddressTypeFromHeader(b.raw[1]) = "Byron"
      /\ \A c \in ByronAddresses : b.raw = c.raw => b = c
  BY ByronAssumption
<1>2. i.type = "Byron" /\ i.extra = b.raw
  BY ONLY HasParts(b), i = ByronInfo(b) DEF ByronInfo, HasParts
<1>3. FromCardanoAddressInfo(i) = b.raw
  <2>1. FromCardanoAddressInfo(i) = i.extra
    BY ONLY <1>2 DEF FromCardanoAddressInfo
  <2> QED
    BY ONLY <1>2, <2>1
<1>4. ByronOf(b.raw) = b
  BY <1>1 DEF ByronOf
<1>5. ToCardanoAddressInfo("Byron", b.raw) = ByronInfo(ByronOf(b.raw))
  BY ONLY DEF ToCardanoAddressInfo
<1>6. b.raw # <<>>
  BY <1>1
<1>7. ToCardanoAddressInfo("Byron", b.raw) = i
  BY ONLY <1>4, <1>5, i = ByronInfo(b)
<1>8. Faithful(i)
  BY ONLY <1>1, <1>2, <1>3, <1>6, <1>7 DEF Faithful
<1> QED
  BY ONLY <1>2, <1>3, <1>8, i = ByronInfo(b)

\* Nothing is built of Byron bytes without parts.
LEMMA NothingBuilt ==
  ASSUME NEW b \in ByronAddresses, ~HasParts(b)
  PROVE  ByronInfo(b).type \in {"Unsupported", "Panicked"} /\ ~ToCardanoAddress(ByronInfo(b)).ok
<1>1. ByronInfo(b).type \in {"Unsupported", "Panicked"}
  BY ONLY ~HasParts(b) DEF ByronInfo
<1>2. ByronInfo(b).type \notin Types
  BY ONLY <1>1 DEF Types
<1>3. ToCardanoAddress(ByronInfo(b)) = NoAddress
  BY ONLY <1>2 DEF ToCardanoAddress
<1> QED
  BY ONLY <1>1, <1>3 DEF NoAddress

-----------------------------------------------------------------------------
(* From the bytes to the parts *)

\* A bit that is read as a flag is written as the same bit.
LEMMA BitAgain == \A a \in 0..1 : ToByte(a = 1) = a
BY DEF ToByte

\* The bytes of a base address are built again of what is read from them.
LEMMA BaseRead ==
  ASSUME NEW raw \in Seq(Byte), raw # <<>>, GetAddressTypeFromHeader(raw[1]) = "Base", IsValid("Base", raw),
         NEW i, i = ToCardanoAddressInfo("Base", raw)
  PROVE  i \in BaseInfos /\ FromCardanoAddressInfo(i) = raw
<1>1. Len(raw) >= 1 + KeyHashSize * 2
  BY DEF IsValid
<1> PICK h, p, q, x : h = raw[1] /\ p = Part(raw, 1) /\ q = Part(raw, 2) /\ x = After(raw, 2)
  OBVIOUS
<1>2. /\ p \in Seq(Byte) /\ Len(p) = KeyHashSize /\ q \in Seq(Byte) /\ Len(q) = KeyHashSize
      /\ x \in Seq(Byte) /\ h \in Byte /\ raw = TwoHashes(h, p, q, x)
  <2>1. Len(raw) >= 1 + KeyHashSize
    BY <1>1, AddressAssumption, LenProperties
  <2> QED
    BY <1>1, <2>1, PartsAreAll
<1> PICK a, b, n : a = ((h \div 16) \div 1) % 2 /\ b = ((h \div 16) \div 2) % 2 /\ n = h % 16
  OBVIOUS
<1>3. a \in 0..1 /\ b \in 0..1 /\ n \in 0..15 /\ n % 16 = n
  BY <1>2, HeaderOfByte
<1>4. h = BaseByte(a, b, n)
  BY <1>2, BaseHeader
<1>5. i = [type |-> "Base", network |-> n, payment |-> [payload |-> p, isScript |-> a = 1],
           stake |-> [payload |-> q, isScript |-> b = 1], extra |-> x]
  <2>1. ToCardanoAddressInfo("Base", raw)
          = [type |-> "Base", network |-> raw[1] % 16,
             payment |-> [payload |-> Part(raw, 1), isScript |-> ((raw[1] \div 16) \div 1) % 2 = 1],
             stake |-> [payload |-> Part(raw, 2), isScript |-> ((raw[1] \div 16) \div 2) % 2 = 1],
             extra |-> After(raw, 2)]
    BY ONLY DEF ToCardanoAddressInfo
  <2> QED
    BY <2>1
<1>6. [payload |-> p, isScript |-> a = 1] \in Payload /\ [payload |-> q, isScript |-> b = 1] \in Payload
  BY <1>2, BytesArePayload
<1>7. i \in BaseInfos
  BY <1>2, <1>3, <1>5, <1>6 DEF BaseInfos
<1>8. FromCardanoAddressInfo(i) = <<16 * a + 32 * b + n>> \o p \o q \o x
  <2>1. i.type = "Base"
    BY <1>5
  <2>2. FromCardanoAddressInfo(i)
          = <<16 * ToByte(i.payment.isScript) + 32 * ToByte(i.stake.isScript) + (i.network % 16)>>
              \o i.payment.payload \o i.stake.payload \o i.extra
    BY ONLY <2>1 DEF FromCardanoAddressInfo
  <2>3. /\ i.payment.isScript = (a = 1) /\ i.stake.isScript = (b = 1) /\ i.network = n
        /\ i.payment.payload = p /\ i.stake.payload = q /\ i.extra = x
    BY ONLY <1>5
  <2>4. ToByte(i.payment.isScript) = a /\ ToByte(i.stake.isScript) = b
    BY <1>3, <2>3, BitAgain
  <2> QED
    BY <1>3, <2>2, <2>3, <2>4
<1> QED
  BY <1>2, <1>4, <1>7, <1>8 DEF TwoHashes, BaseByte

\* The bytes of an enterprise address are built again of what is read from them.
LEMMA EnterpriseRead ==
  ASSUME NEW raw \in Seq(Byte), raw # <<>>, GetAddressTypeFromHeader(raw[1]) = "Enterprise", IsValid("Enterprise", raw),
         NEW i, i = ToCardanoAddressInfo("Enterprise", raw)
  PROVE  i \in EnterpriseInfos /\ FromCardanoAddressInfo(i) = raw
<1>1. Len(raw) = KeyHashSize + 1
  BY DEF IsValid
<1> PICK h, p, x : h = raw[1] /\ p = Part(raw, 1) /\ x = After(raw, 1)
  OBVIOUS
<1>2. p \in Seq(Byte) /\ Len(p) = KeyHashSize /\ x \in Seq(Byte) /\ h \in Byte /\ raw = OneHash(h, p, x)
  <2>1. Len(raw) >= 1 + KeyHashSize
    BY <1>1, AddressAssumption
  <2> QED
    BY <2>1, PartsAreAll
<1> PICK a, n : a = ((h \div 16) \div 1) % 2 /\ n = h % 16
  OBVIOUS
<1>3. a \in 0..1 /\ n \in 0..15 /\ n % 16 = n
  BY <1>2, HeaderOfByte
<1>4. h = EnterpriseByte(a, n)
  BY <1>2, EnterpriseHeader
<1>5. i = [type |-> "Enterprise", network |-> n, payment |-> [payload |-> p, isScript |-> a = 1], extra |-> x]
  <2>1. ToCardanoAddressInfo("Enterprise", raw)
          = [type |-> "Enterprise", network |-> raw[1] % 16,
             payment |-> [payload |-> Part(raw, 1), isScript |-> ((raw[1] \div 16) \div 1) % 2 = 1],
             extra |-> After(raw, 1)]
    BY ONLY DEF ToCardanoAddressInfo
  <2> QED
    BY <2>1
<1>6. [payload |-> p, isScript |-> a = 1] \in Payload
  BY <1>2, BytesArePayload
<1>7. i \in EnterpriseInfos
  BY <1>2, <1>3, <1>5, <1>6 DEF EnterpriseInfos
<1>8. FromCardanoAddressInfo(i) = <<96 + 16 * a + n>> \o p \o x
  <2>1. i.type = "Enterprise"
    BY <1>5
  <2>2. FromCardanoAddressInfo(i)
          = <<96 + 16 * ToByte(i.payment.isScript) + (i.network % 16)>> \o i.payment.payload \o i.extra
    BY ONLY <2>1 DEF FromCardanoAddressInfo
  <2>3. i.payment.isScript = (a = 1) /\ i.network = n /\ i.payment.payload = p /\ i.extra = x
    BY ONLY <1>5
  <2>4. ToByte(i.payment.isScript) = a
    BY <1>3, <2>3, BitAgain
  <2> QED
    BY <1>3, <2>2, <2>3, <2>4
<1> QED
  BY <1>2, <1>4, <1>7, <1>8 DEF OneHash, EnterpriseByte

\* The bytes of a reward address are built again of what is read from them.
LEMMA RewardRead ==
  ASSUME NEW raw \in Seq(Byte), raw # <<>>, GetAddressTypeFromHeader(raw[1]) = "Reward", IsValid("Reward", raw),
         NEW i, i = ToCardanoAddressInfo("Reward", raw)
  PROVE  i \in RewardInfos /\ FromCardanoAddressInfo(i) = raw
<1>1. Len(raw) = KeyHashSize + 1
  BY DEF IsValid
<1> PICK h, p, x : h = raw[1] /\ p = Part(raw, 1) /\ x = After(raw, 1)
  OBVIOUS
<1>2. p \in Seq(Byte) /\ Len(p) = KeyHashSize /\ x \in Seq(Byte) /\ h \in Byte /\ raw = OneHash(h, p, x)
  <2>1. Len(raw) >= 1 + KeyHashSize
    BY <1>1, AddressAssumption
  <2> QED
    BY <2>1, PartsAreAll
<1> PICK a, n : a = ((h \div 16) \div 1) % 2 /\ n = h % 16
  OBVIOUS
<1>3. a \in 0..1 /\ n \in 0..15 /\ n % 16 = n
  BY <1>2, HeaderOfByte
<1>4. h = RewardByte(a, n)
  BY <1>2, RewardHeader
<1>5. i = [type |-> "Reward", network |-> n, stake |-> [payload |-> p, isScript |-> a = 1], extra |-> x]
  <2>1. ToCardanoAddressInfo("Reward", raw)
          = [type |-> "Reward", network |-> raw[1] % 16,
             stake |-> [payload |-> Part(raw, 1), isScript |-> ((raw[1] \div 16) \div 1) % 2 = 1],
             extra |-> After(raw, 1)]
    BY ONLY DEF ToCardanoAddressInfo
  <2> QED
    BY <2>1
<1>6. [payload |-> p, isScript |-> a = 1] \in Payload
  BY <1>2, BytesArePayload
<1>7. i \in RewardInfos
  BY <1>2, <1>3, <1>5, <1>6 DEF RewardInfos
<1>8. FromCardanoAddressInfo(i) = <<224 + 16 * a + n>> \o p \o x
  <2>1. i.type = "Reward"
    BY <1>5
  <2>2. FromCardanoAddressInfo(i)
          = <<224 + 16 * ToByte(i.stake.isScript) + (i.network % 16)>> \o i.stake.payload \o i.extra
    BY ONLY <2>1 DEF FromCardanoAddressInfo
  <2>3. i.stake.isScript = (a = 1) /\ i.network = n /\ i.stake.payload = p /\ i.extra = x
    BY ONLY <1>5
  <2>4. ToByte(i.stake.isScript) = a
    BY <1>3, <2>3, BitAgain
  <2>5. n % 16 = n
    BY <1>3
  <2> QED
    BY ONLY <2>2, <2>3, <2>4, <2>5
<1>9. FromCardanoAddressInfo(i) = OneHash(h, p, x)
  BY ONLY <1>4, <1>8 DEF OneHash, RewardByte
<1> QED
  BY ONLY <1>2, <1>7, <1>9

\* An address is no longer than another when its tail is no longer.
LEMMA NoLonger ==
  ASSUME NEW g \in Byte, NEW h \in Byte, NEW p \in Seq(Byte), Len(p) = KeyHashSize,
         NEW y \in Seq(Byte), NEW x \in Seq(Byte), Len(y) <= Len(x), Len(y) >= 3
  PROVE  Len(OneHash(g, p, y)) <= Len(OneHash(h, p, x)) /\ Len(OneHash(g, p, y)) >= KeyHashSize + 4
<1> PICK k, lx, ly : k = KeyHashSize /\ lx = Len(x) /\ ly = Len(y)
  OBVIOUS
<1>1. k \in Nat /\ lx \in Nat /\ ly \in Nat /\ ly >= 3 /\ ly <= lx
  BY AddressAssumption, LenProperties
<1>2. Len(OneHash(g, p, y)) = 1 + KeyHashSize + Len(y)
  BY OneHashParts
<1>3. Len(OneHash(h, p, x)) = 1 + KeyHashSize + Len(x)
  BY OneHashParts
<1>4. 1 + k + ly <= 1 + k + lx /\ 1 + k + ly >= k + 4
  BY ONLY <1>1
<1> QED
  BY <1>2, <1>3, <1>4

\* What is read from a pointer address is written in a pointer address that is no longer.
LEMMA PointerRead ==
  ASSUME NEW raw \in Seq(Byte), raw # <<>>, GetAddressTypeFromHeader(raw[1]) = "Pointer", IsValid("Pointer", raw),
         NEW i, i = ToCardanoAddressInfo("Pointer", raw)
  PROVE  /\ i \in PointerInfos /\ FromCardanoAddressInfo(i) \in Seq(Byte)
         /\ IsValid("Pointer", FromCardanoAddressInfo(i))
         /\ Len(FromCardanoAddressInfo(i)) <= Len(raw)
<1>1. Len(raw) >= KeyHashSize + 4 /\ HasStakePointer(After(raw, 1))
  BY DEF IsValid
<1> PICK h, p, x : h = raw[1] /\ p = Part(raw, 1) /\ x = After(raw, 1)
  OBVIOUS
<1>0. KeyHashSize \in Nat /\ Len(raw) \in Nat
  BY AddressAssumption, LenProperties
<1>2. p \in Seq(Byte) /\ Len(p) = KeyHashSize /\ x \in Seq(Byte) /\ h \in Byte /\ raw = OneHash(h, p, x)
  <2>1. Len(raw) >= 1 + KeyHashSize
    BY <1>1, <1>0
  <2> QED
    BY <2>1, PartsAreAll
<1> PICK a, n, sp : a = ((h \div 16) \div 1) % 2 /\ n = h % 16 /\ sp = getStakePointer(x)
  OBVIOUS
<1>3. a \in 0..1 /\ n \in 0..15 /\ n % 16 = n
  BY <1>2, HeaderOfByte
<1>5. i = [type |-> "Pointer", network |-> n, payment |-> [payload |-> p, isScript |-> a = 1],
           stakePointer |-> sp, extra |-> <<>>]
  <2>1. ToCardanoAddressInfo("Pointer", raw)
          = [type |-> "Pointer", network |-> raw[1] % 16,
             payment |-> [payload |-> Part(raw, 1), isScript |-> ((raw[1] \div 16) \div 1) % 2 = 1],
             stakePointer |-> getStakePointer(After(raw, 1)), extra |-> <<>>]
    BY ONLY DEF ToCardanoAddressInfo
  <2> QED
    BY <2>1
<1>6. [payload |-> p, isScript |-> a = 1] \in Payload
  BY <1>2, BytesArePayload
<1>9. HasStakePointer(x)
  BY <1>1
<1>10. /\ sp \in StakePointer /\ Size(sp.slot, sp.txIndex, sp.certIndex) <= Len(x)
  BY <1>2, <1>9, StakePointerType
<1>11. <<>> \in Seq(Byte)
  OBVIOUS
<1>7. i \in PointerInfos
  <2> PICK pay : pay = [payload |-> p, isScript |-> a = 1]
    OBVIOUS
  <2>1. i = [type |-> "Pointer", network |-> n, payment |-> pay, stakePointer |-> sp, extra |-> <<>>]
    BY <1>5
  <2>2. n \in 0..15 /\ pay \in Payload /\ sp \in StakePointer
    BY <1>3, <1>6, <1>10
  <2> QED
    BY ONLY <1>11, <2>1, <2>2 DEF PointerInfos
<1> PICK y : y = Numbers(sp, <<>>)
  OBVIOUS
<1>12. y \in Seq(Byte) /\ HasStakePointer(y) /\ Len(y) = Size(sp.slot, sp.txIndex, sp.certIndex)
  BY ONLY <1>10, <1>11, y = Numbers(sp, <<>>), NumbersAreRead
<1>13. Len(y) >= 3
  <2>1. PICK z : z = getStakePointer(y)
    OBVIOUS
  <2> QED
    BY <1>12, <2>1, StakePointerType
<1>14. FromCardanoAddressInfo(i) = OneHash(PointerByte(a, n), p, y)
  <2>1. FromCardanoAddressInfo(i)
          = OneHash(PointerByte(ToByte(i.payment.isScript), i.network), i.payment.payload,
                     Numbers(i.stakePointer, i.extra))
    BY <1>7, PointerRaw
  <2>2. /\ i.payment.isScript = (a = 1) /\ i.network = n /\ i.payment.payload = p
        /\ i.stakePointer = sp /\ i.extra = <<>>
    BY ONLY <1>5
  <2>3. ToByte(i.payment.isScript) = a
    BY <1>3, <2>2, BitAgain
  <2> QED
    BY <2>1, <2>2, <2>3
<1> PICK g : g = PointerByte(a, n)
  OBVIOUS
<1>15. g \in Byte
  BY <1>3, PointerHeader
<1> PICK o : o = OneHash(g, p, y)
  OBVIOUS
<1>16. o \in Seq(Byte) /\ After(o, 1) = y
  BY ONLY <1>15, <1>2, <1>12, o = OneHash(g, p, y), OneHashParts
<1>19. Len(y) <= Len(x)
  BY <1>10, <1>12
<1>20. Len(o) <= Len(raw) /\ Len(o) >= KeyHashSize + 4
  <2>1. Len(OneHash(g, p, y)) <= Len(OneHash(h, p, x)) /\ Len(OneHash(g, p, y)) >= KeyHashSize + 4
    BY <1>2, <1>12, <1>13, <1>15, <1>19, NoLonger
  <2> QED
    BY <1>2, <2>1
<1>21. IsValid("Pointer", o)
  BY <1>12, <1>16, <1>20 DEF IsValid
<1> QED
  BY <1>7, <1>14, <1>16, <1>20, <1>21

-----------------------------------------------------------------------------
(* The address on its way *)

\* The parts of every address are found in its bytes.
LEMMA InfoIsFaithful == ASSUME NEW i \in CardanoAddressInfo PROVE Faithful(i)
<1>1. i \in BaseInfos \/ i \in PointerInfos \/ i \in EnterpriseInfos \/ i \in RewardInfos
        \/ \E b \in ByronAddresses : HasParts(b) /\ i = ByronInfo(b)
  BY DEF CardanoAddressInfo, BaseInfos, PointerInfos, EnterpriseInfos, RewardInfos
<1> QED
  BY <1>1, BaseFaithful, PointerFaithful, EnterpriseFaithful, RewardFaithful, ByronFaithful

\* A header names a type, or none that is supported.
LEMMA TypeOfHeader == \A h : GetAddressTypeFromHeader(h) \in Types \/ GetAddressTypeFromHeader(h) = "Unsupported"
BY DEF GetAddressTypeFromHeader, Types

\* What an address is.
LEMMA AddressOfBytes ==
  ASSUME NEW raw, NewCardanoAddress(raw).ok
  PROVE  LET type == GetAddressTypeFromHeader(raw[1])
         IN  /\ raw # <<>> /\ type \in Types /\ IsValid(type, raw)
             /\ NewCardanoAddress(raw) = [ok |-> TRUE, type |-> type, raw |-> raw, cachedStr |-> <<>>]
<1> PICK type : type = GetAddressTypeFromHeader(raw[1])
  OBVIOUS
<1>1. raw # <<>> /\ type # "Unsupported" /\ IsValid(type, raw)
  BY DEF NewCardanoAddress, NoAddress
<1>2. NewCardanoAddress(raw) = [ok |-> TRUE, type |-> type, raw |-> raw, cachedStr |-> <<>>]
  BY <1>1 DEF NewCardanoAddress
<1> QED
  BY <1>1, <1>2, TypeOfHeader

\* Valid bytes of a type make an address.
LEMMA BytesOfAddress ==
  ASSUME NEW raw, raw # <<>>, NEW type \in Types, GetAddressTypeFromHeader(raw[1]) = type, IsValid(type, raw)
  PROVE  NewCardanoAddress(raw) = [ok |-> TRUE, type |-> type, raw |-> raw, cachedStr |-> <<>>]
<1>1. type # "Unsupported"
  BY DEF Types
<1> QED
  BY <1>1 DEF NewCardanoAddress

\* An address that is built of parts has these parts, and is an address of its bytes.
LEMMA BuiltOfParts ==
  ASSUME NEW i \in CardanoAddressInfo, ToCardanoAddress(i).ok, NEW a, a = ToCardanoAddress(i)
  PROVE  a.raw \in Seq(Byte) /\ a = NewCardanoAddress(a.raw) /\ GetInfo(a) = i
<1> PICK raw, type : raw = FromCardanoAddressInfo(i) /\ type = GetAddressTypeFromHeader(raw[1])
  OBVIOUS
<1>1. a = NewCardanoAddress(raw) /\ NewCardanoAddress(raw).ok
  BY DEF ToCardanoAddress, NoAddress
<1>2. IsValid(type, raw) /\ a = [ok |-> TRUE, type |-> type, raw |-> raw, cachedStr |-> <<>>]
  BY <1>1, AddressOfBytes
<1>3. raw \in Seq(Byte) /\ type = i.type /\ (IsValid(i.type, raw) => ToCardanoAddressInfo(i.type, raw) = i)
  BY InfoIsFaithful DEF Faithful
<1>4. ToCardanoAddressInfo(type, raw) = i
  BY <1>2, <1>3
<1>5. a.raw = raw /\ a.type = type
  BY <1>2
<1> QED
  BY <1>1, <1>3, <1>4, <1>5 DEF GetInfo

\* Bytes with parts in them: all that pass for an address, but for some of Byron.
Meaningful(type, raw) == type = "Byron" => HasParts(ByronOf(raw))

\* The bytes of a Byron address are those of the table.
LEMMA ByronBytes ==
  ASSUME NEW raw, IsValid("Byron", raw)
  PROVE  /\ ByronOf(raw) \in ByronAddresses /\ ByronOf(raw).raw = raw
         /\ ToCardanoAddressInfo("Byron", raw) = ByronInfo(ByronOf(raw))
<1>1. PICK b \in ByronAddresses : b.raw = raw
  BY DEF IsValid
<1>2. ByronOf(raw) = b
  BY <1>1, ByronAssumption DEF ByronOf
<1>3. ToCardanoAddressInfo("Byron", raw) = ByronInfo(ByronOf(raw))
  BY ONLY DEF ToCardanoAddressInfo
<1> QED
  BY ONLY <1>1, <1>2, <1>3

\* The bytes of an address are built again from their parts, up to a stake pointer.
LEMMA BuiltAgain ==
  ASSUME NEW raw \in Seq(Byte), NewCardanoAddress(raw).ok, NEW type, type = GetAddressTypeFromHeader(raw[1]),
         Meaningful(type, raw), NEW i, i = ToCardanoAddressInfo(type, raw)
  PROVE  /\ i \in CardanoAddressInfo /\ i.type = type /\ IsValid(type, FromCardanoAddressInfo(i))
         /\ \/ FromCardanoAddressInfo(i) = raw
            \/ type = "Pointer" /\ Len(FromCardanoAddressInfo(i)) <= Len(raw)
<1>1. raw # <<>> /\ type \in Types /\ IsValid(type, raw)
  BY AddressOfBytes
<1>2. CASE type = "Base"
  <2>1. i \in BaseInfos /\ FromCardanoAddressInfo(i) = raw
    BY <1>1, <1>2, BaseRead
  <2> QED
    BY <1>1, <1>2, <2>1 DEF CardanoAddressInfo, BaseInfos
<1>3. CASE type = "Enterprise"
  <2>1. i \in EnterpriseInfos /\ FromCardanoAddressInfo(i) = raw
    BY <1>1, <1>3, EnterpriseRead
  <2> QED
    BY <1>1, <1>3, <2>1 DEF CardanoAddressInfo, EnterpriseInfos
<1>4. CASE type = "Reward"
  <2>1. i \in RewardInfos /\ FromCardanoAddressInfo(i) = raw
    BY <1>1, <1>4, RewardRead
  <2> QED
    BY <1>1, <1>4, <2>1 DEF CardanoAddressInfo, RewardInfos
<1>5. CASE type = "Pointer"
  <2>1. /\ i \in PointerInfos /\ IsValid("Pointer", FromCardanoAddressInfo(i))
        /\ Len(FromCardanoAddressInfo(i)) <= Len(raw)
    BY <1>1, <1>5, PointerRead
  <2> QED
    BY <1>5, <2>1 DEF CardanoAddressInfo, PointerInfos
<1>6. CASE type = "Byron"
  <2> PICK b : b = ByronOf(raw)
    OBVIOUS
  <2>1. b \in ByronAddresses /\ b.raw = raw /\ i = ByronInfo(b)
    BY <1>1, <1>6, ByronBytes
  <2>2. HasParts(b)
    BY <1>6 DEF Meaningful
  <2>3. FromCardanoAddressInfo(i) = raw /\ i.type = "Byron"
    BY <2>1, <2>2, ByronFaithful
  <2>4. i \in CardanoAddressInfo
    BY <2>1, <2>2 DEF CardanoAddressInfo
  <2> QED
    BY <1>1, <1>6, <2>3, <2>4
<1> QED
  BY <1>1, <1>2, <1>3, <1>4, <1>5, <1>6 DEF Types

-----------------------------------------------------------------------------
\* The address is what its bytes make, and the parts are what it was built of.
MadeOfBytes ==
  made.ok => made.raw \in Seq(Byte) /\ made = NewCardanoAddress(made.raw) /\ GetInfo(made) = info

\* Bytes with parts keep their meaning.
LEMMA MeaningfulBuiltAgain ==
  ASSUME NEW raw \in Seq(Byte), NewCardanoAddress(raw).ok, Meaningful(GetAddressTypeFromHeader(raw[1]), raw),
         NEW a, a = NewCardanoAddress(raw), NEW again, again = ToCardanoAddress(GetInfo(a))
  PROVE  /\ again.ok /\ GetInfo(again) = GetInfo(a)
         /\ again.raw # a.raw => a.type = "Pointer" /\ Len(again.raw) <= Len(a.raw)
<1> PICK type : type = GetAddressTypeFromHeader(raw[1])
  OBVIOUS
<1> PICK i : i = ToCardanoAddressInfo(type, raw)
  OBVIOUS
<1> PICK raw2 : raw2 = FromCardanoAddressInfo(i)
  OBVIOUS
<1>1. a = [ok |-> TRUE, type |-> type, raw |-> raw, cachedStr |-> <<>>] /\ type \in Types
  BY AddressOfBytes
<1>2. /\ i \in CardanoAddressInfo /\ i.type = type /\ IsValid(type, raw2)
      /\ raw2 = raw \/ (type = "Pointer" /\ Len(raw2) <= Len(raw))
  BY BuiltAgain
<1>3. /\ raw2 # <<>> /\ GetAddressTypeFromHeader(raw2[1]) = type /\ ToCardanoAddressInfo(type, raw2) = i
  BY <1>2, InfoIsFaithful DEF Faithful
<1>4. NewCardanoAddress(raw2) = [ok |-> TRUE, type |-> type, raw |-> raw2, cachedStr |-> <<>>]
  BY <1>1, <1>2, <1>3, BytesOfAddress
<1>5. GetInfo(a) = i
  BY <1>1 DEF GetInfo
<1>6. again = [ok |-> TRUE, type |-> type, raw |-> raw2, cachedStr |-> <<>>]
  BY <1>1, <1>2, <1>4, <1>5 DEF ToCardanoAddress
<1>7. GetInfo(again) = i
  BY <1>3, <1>6 DEF GetInfo
<1>8. again.ok /\ again.raw = raw2 /\ a.raw = raw /\ a.type = type
  BY ONLY <1>1, <1>6
<1> QED
  BY ONLY <1>2, <1>5, <1>7, <1>8

\* An address can be built again from its parts when there are any.
LEMMA MadeKeepsMeaning == MadeOfBytes => BytesKeepTheirMeaning
<1> SUFFICES ASSUME made.ok, MadeOfBytes
             PROVE  LET again == ToCardanoAddress(GetInfo(made))
                    IN  /\ again.ok <=> (made.type = "Byron" => HasParts(ByronOf(made.raw)))
                        /\ again.ok =>
                             /\ GetInfo(again) = GetInfo(made)
                             /\ again.raw # made.raw =>
                                  made.type = "Pointer" /\ Len(again.raw) <= Len(made.raw)
  BY DEF BytesKeepTheirMeaning
<1> PICK raw, type, again : /\ raw = made.raw /\ type = GetAddressTypeFromHeader(raw[1])
                            /\ again = ToCardanoAddress(GetInfo(made))
  OBVIOUS
<1>1. raw \in Seq(Byte) /\ made = NewCardanoAddress(raw) /\ NewCardanoAddress(raw).ok
  BY DEF MadeOfBytes
<1>2. made = [ok |-> TRUE, type |-> type, raw |-> raw, cachedStr |-> <<>>] /\ IsValid(type, raw)
  BY <1>1, AddressOfBytes
<1>3. made.type = type /\ made.raw = raw
  BY ONLY <1>2
<1>4. CASE Meaningful(type, raw)
  <2>1. /\ again.ok /\ GetInfo(again) = GetInfo(made)
        /\ again.raw # made.raw => made.type = "Pointer" /\ Len(again.raw) <= Len(made.raw)
    BY <1>1, <1>4, MeaningfulBuiltAgain
  <2> QED
    BY ONLY <1>3, <1>4, <2>1, again = ToCardanoAddress(GetInfo(made)) DEF Meaningful
<1>5. CASE ~Meaningful(type, raw)
  <2>1. type = "Byron" /\ ~HasParts(ByronOf(raw))
    BY ONLY <1>5 DEF Meaningful
  <2>2. ByronOf(raw) \in ByronAddresses /\ ToCardanoAddressInfo(type, raw) = ByronInfo(ByronOf(raw))
    BY ONLY <1>2, <2>1, ByronBytes
  <2>3. GetInfo(made) = ByronInfo(ByronOf(raw))
    BY ONLY <1>3, <2>2 DEF GetInfo
  <2>4. ~again.ok
    BY ONLY <2>1, <2>2, <2>3, NothingBuilt, again = ToCardanoAddress(GetInfo(made))
  <2> QED
    BY ONLY <1>3, <2>1, <2>4, again = ToCardanoAddress(GetInfo(made))
<1> QED
  BY ONLY <1>4, <1>5

\* The address on its way is what its bytes make, and keeps its parts.
LEMMA MadeInvariant == AddressSpec => []MadeOfBytes
<1>1. AddressInit => MadeOfBytes
  BY DEF AddressInit, MadeOfBytes, NoAddress
<1>2. MadeOfBytes /\ [AddressNext]_addressVars => MadeOfBytes'
  <2> SUFFICES ASSUME MadeOfBytes, [AddressNext]_addressVars PROVE MadeOfBytes'
    OBVIOUS
  <2>1. ASSUME NEW i \in Infos, Build(i) PROVE MadeOfBytes'
    <3>1. info' = i /\ made' = ToCardanoAddress(i) /\ i \in CardanoAddressInfo
      BY <2>1, AddressAssumption DEF Build
    <3>2. ASSUME made'.ok PROVE made'.raw \in Seq(Byte) /\ made' = NewCardanoAddress(made'.raw) /\ GetInfo(made') = i
      BY <3>1, <3>2, BuiltOfParts
    <3> QED
      BY <3>1, <3>2 DEF MadeOfBytes
  <2>2. ASSUME NEW raw \in Raws, Parse(raw) PROVE MadeOfBytes'
    <3>1. made' = NewCardanoAddress(raw) /\ raw \in Seq(Byte) /\ (made'.ok => info' = GetInfo(made'))
      BY <2>2, AddressAssumption DEF Parse
    <3>2. ASSUME made'.ok PROVE made'.raw = raw
      BY <3>1, <3>2, AddressOfBytes
    <3> QED
      BY <3>1, <3>2 DEF MadeOfBytes
  <2>3. CASE UNCHANGED <<info, made>>
    BY <2>3 DEF MadeOfBytes
  <2>4. Show \/ (\E hrp \in {Addr, Addr \o Test, Stake, Stake \o Test} : ShowForeign(hrp)) \/ Mistype \/ Read
          \/ UNCHANGED addressVars => UNCHANGED <<info, made>>
    BY DEF Show, ShowForeign, Mistype, Read, addressVars
  <2> QED
    BY <2>1, <2>2, <2>3, <2>4 DEF AddressNext
<1> QED
  BY <1>1, <1>2, PTL DEF AddressSpec

\* Bytes that pass for an address mean the same when the address is built again
\* of its parts (FromCardanoAddressInfo after ToCardanoAddressInfo), for keys of every
\* length, every word and every bytes; and this fails just for Byron bytes that have
\* the tag and the checksum of an address but no parts in them.
THEOREM MeaningCorrect == AddressSpec => []BytesKeepTheirMeaning
BY MadeInvariant, MadeKeepsMeaning, PTL

-----------------------------------------------------------------------------
(* Bits *)

\* The value of every beginning of a sequence of bits.
Values(bits) ==
  CHOOSE g : g = [k \in 0..Len(bits) |-> IF k = 0 THEN 0 ELSE 2 * g[k - 1] + bits[k]]

\* The value of a sequence of bits is built bit by bit.
LEMMA ValuesSteps ==
  ASSUME NEW bits \in Seq({0, 1})
  PROVE  /\ ValueOf(bits) = Values(bits)[Len(bits)]
         /\ Values(bits)[0] = 0
         /\ \A k \in 0..Len(bits) : Values(bits)[k] \in Nat
         /\ \A k \in 1..Len(bits) : Values(bits)[k] = 2 * Values(bits)[k - 1] + bits[k]
<1> DEFINE n == Len(bits)
           N == Nat
           R == [k \in 1..n |-> [v \in N |-> 2 * v + bits[k]]]
           f == ForLoop(n, 0, R)
<1>1. n \in Nat /\ \A k \in 1..n : bits[k] \in {0, 1}
  BY LenProperties, ElementOfSeq
<1>2. \A k \in 1..n, v \in N : R[k][v] = 2 * v + bits[k] /\ R[k][v] \in N
  BY <1>1
<1>3. 0 \in N
  OBVIOUS
<1> HIDE DEF R, N, n
<1>4. \A k \in 0..n : f[k] \in N
  BY <1>1, <1>2, <1>3, LoopStays
<1>5. DOMAIN f = 0..n /\ f[0] = 0 /\ \A k \in 1..n : f[k] = R[k][f[k - 1]]
  BY <1>1, LoopSteps
<1>6. f = [k \in 0..n |-> f[k]]
  BY <1>1, LoopSteps
<1> HIDE DEF f
<1>7. ASSUME NEW k \in 0..n PROVE f[k] = IF k = 0 THEN 0 ELSE 2 * f[k - 1] + bits[k]
  <2>1. CASE k # 0
    <3>1. k \in 1..n /\ k - 1 \in 0..n
      BY <1>1, <2>1
    <3> QED
      BY <1>2, <1>4, <1>5, <2>1, <3>1
  <2> QED
    BY <1>5, <2>1
<1>8. f = [k \in 0..n |-> IF k = 0 THEN 0 ELSE 2 * f[k - 1] + bits[k]]
  BY <1>6, <1>7
<1> DEFINE g == Values(bits)
<1>9. g = [k \in 0..n |-> IF k = 0 THEN 0 ELSE 2 * g[k - 1] + bits[k]]
  BY <1>8 DEF Values, n
<1> HIDE DEF g
<1>10. g[0] = 0 /\ \A k \in 1..n : g[k] = 2 * g[k - 1] + bits[k]
  BY <1>1, <1>9
<1>11. \A k \in 1..n : g[k - 1] \in N => g[k] = R[k][g[k - 1]]
  BY <1>2, <1>10
<1>12. \A k \in 0..n : g[k] \in N
  <2>1. g[0] \in N /\ n \in Nat /\ \A k \in 1..n, v \in N : R[k][v] \in N
    BY <1>1, <1>2, <1>3, <1>10
  <2> QED
    BY <1>11, <2>1, LoopType
<1>13. ValueOf(bits) = g[n]
  BY DEF ValueOf, Values, g, n
<1> QED
  BY <1>1, <1>10, <1>12, <1>13 DEF g, n, N

\* The value of five bits.
LEMMA ValueOfFive ==
  ASSUME NEW bits \in Seq({0, 1}), Len(bits) = 5
  PROVE  /\ ValueOf(bits) = 16 * bits[1] + 8 * bits[2] + 4 * bits[3] + 2 * bits[4] + bits[5]
         /\ \A k \in 1..5 : bits[k] \in {0, 1}
<1> DEFINE v == Values(bits)
<1>1. \A k \in 1..5 : bits[k] \in {0, 1}
  BY ElementOfSeq
<1>2. ValueOf(bits) = v[5] /\ v[0] = 0 /\ \A k \in 1..5 : v[k] = 2 * v[k - 1] + bits[k]
  BY ValuesSteps
<1> HIDE DEF v
<1>3. /\ v[1] = 2 * v[0] + bits[1] /\ v[2] = 2 * v[1] + bits[2] /\ v[3] = 2 * v[2] + bits[3]
      /\ v[4] = 2 * v[3] + bits[4] /\ v[5] = 2 * v[4] + bits[5]
  BY <1>2
<1> QED
  BY <1>1, <1>2, <1>3

\* Four more bits.
FourMore(v, a, b, c, d) ==
  v \in Int /\ a \in Int /\ b \in Int /\ c \in Int /\ d \in Int =>
    2 * (2 * (2 * (2 * v + a) + b) + c) + d = 16 * v + 8 * a + 4 * b + 2 * c + d

\* Four steps of the value are one step of sixteen.
LEMMA FourMoreBits ==
  ASSUME NEW v, NEW a, NEW b, NEW c, NEW d PROVE FourMore(v, a, b, c, d)
<1>1. \A p, q, r, s, t \in Int :
        2 * (2 * (2 * (2 * p + q) + r) + s) + t = 16 * p + 8 * q + 4 * r + 2 * s + t
  OBVIOUS
<1> QED
  BY <1>1 DEF FourMore

\* The value of eight bits.
LEMMA ValueOfEight ==
  ASSUME NEW bits \in Seq({0, 1}), Len(bits) = 8
  PROVE  /\ ValueOf(bits) = 128 * bits[1] + 64 * bits[2] + 32 * bits[3] + 16 * bits[4]
                               + 8 * bits[5] + 4 * bits[6] + 2 * bits[7] + bits[8]
         /\ \A k \in 1..8 : bits[k] \in {0, 1}
<1> DEFINE v == Values(bits)
<1>1. \A k \in 1..8 : bits[k] \in {0, 1}
  BY ElementOfSeq
<1>2. /\ ValueOf(bits) = v[8] /\ v[0] = 0
      /\ \A k \in 1..8 : v[k] = 2 * v[k - 1] + bits[k]
  BY ValuesSteps
<1> HIDE DEF v
<1>3. /\ v[1] = 2 * v[0] + bits[1] /\ v[2] = 2 * v[1] + bits[2] /\ v[3] = 2 * v[2] + bits[3]
      /\ v[4] = 2 * v[3] + bits[4] /\ v[5] = 2 * v[4] + bits[5] /\ v[6] = 2 * v[5] + bits[6]
      /\ v[7] = 2 * v[6] + bits[7] /\ v[8] = 2 * v[7] + bits[8]
  BY <1>2
<1>4. \A k \in 1..8 : bits[k] \in Int
  BY <1>1
<1>5. v[4] = 16 * 0 + 8 * bits[1] + 4 * bits[2] + 2 * bits[3] + bits[4]
  <2>1. FourMore(0, bits[1], bits[2], bits[3], bits[4])
    BY FourMoreBits
  <2>2. 2 * (2 * (2 * (2 * 0 + bits[1]) + bits[2]) + bits[3]) + bits[4]
          = 16 * 0 + 8 * bits[1] + 4 * bits[2] + 2 * bits[3] + bits[4]
    BY <1>4, <2>1 DEF FourMore
  <2>3. v[4] = 2 * (2 * (2 * (2 * 0 + bits[1]) + bits[2]) + bits[3]) + bits[4]
    BY ONLY <1>2, <1>3
  <2> QED
    BY ONLY <2>2, <2>3, Zenon
<1>6. v[4] \in Int
  <2>1. \A p, q, r, s \in Int : 16 * 0 + 8 * p + 4 * q + 2 * r + s \in Int
    OBVIOUS
  <2>2. bits[1] \in Int /\ bits[2] \in Int /\ bits[3] \in Int /\ bits[4] \in Int
    BY ONLY <1>4
  <2>3. 16 * 0 + 8 * bits[1] + 4 * bits[2] + 2 * bits[3] + bits[4] \in Int
    BY ONLY <2>1, <2>2
  <2> QED
    BY ONLY <1>5, <2>3, Zenon
<1>7. v[8] = 16 * v[4] + 8 * bits[5] + 4 * bits[6] + 2 * bits[7] + bits[8]
  <2>1. FourMore(v[4], bits[5], bits[6], bits[7], bits[8])
    BY FourMoreBits
  <2>2. 2 * (2 * (2 * (2 * v[4] + bits[5]) + bits[6]) + bits[7]) + bits[8]
          = 16 * v[4] + 8 * bits[5] + 4 * bits[6] + 2 * bits[7] + bits[8]
    BY <1>4, <1>6, <2>1 DEF FourMore
  <2> QED
    BY <1>3, <2>2
<1> QED
  BY <1>1, <1>2, <1>5, <1>7

\* The powers of two that bits are worth.
LEMMA Powers ==
  /\ 2^0 = 1 /\ 2^1 = 2 /\ 2^2 = 4 /\ 2^3 = 8 /\ 2^4 = 16 /\ 2^5 = 32 /\ 2^6 = 64 /\ 2^7 = 128
OBVIOUS

\* The bits of a group of five.
LEMMA BitsOfFive ==
  ASSUME NEW x
  PROVE  /\ Bit(x, 5, 1) = (x \div 16) % 2 /\ Bit(x, 5, 2) = (x \div 8) % 2
         /\ Bit(x, 5, 3) = (x \div 4) % 2 /\ Bit(x, 5, 4) = (x \div 2) % 2
         /\ Bit(x, 5, 5) = (x \div 1) % 2
<1>1. 5 - 1 = 4 /\ 5 - 2 = 3 /\ 5 - 3 = 2 /\ 5 - 4 = 1 /\ 5 - 5 = 0
  OBVIOUS
<1> QED
  BY <1>1, Powers DEF Bit

\* The bits of a byte.
LEMMA BitsOfEight ==
  ASSUME NEW x
  PROVE  /\ Bit(x, 8, 1) = (x \div 128) % 2 /\ Bit(x, 8, 2) = (x \div 64) % 2
         /\ Bit(x, 8, 3) = (x \div 32) % 2 /\ Bit(x, 8, 4) = (x \div 16) % 2
         /\ Bit(x, 8, 5) = (x \div 8) % 2 /\ Bit(x, 8, 6) = (x \div 4) % 2
         /\ Bit(x, 8, 7) = (x \div 2) % 2 /\ Bit(x, 8, 8) = (x \div 1) % 2
<1>1. 8 - 1 = 7 /\ 8 - 2 = 6 /\ 8 - 3 = 5 /\ 8 - 4 = 4 /\ 8 - 5 = 3 /\ 8 - 6 = 2 /\ 8 - 7 = 1 /\ 8 - 8 = 0
  OBVIOUS
<1> QED
  BY <1>1, Powers DEF Bit

\* A group of five bits is the value of its bits.
LEMMA FiveIsItsBits ==
  ASSUME NEW x \in Five
  PROVE  /\ x = 16 * Bit(x, 5, 1) + 8 * Bit(x, 5, 2) + 4 * Bit(x, 5, 3) + 2 * Bit(x, 5, 4) + Bit(x, 5, 5)
         /\ \A k \in 1..5 : Bit(x, 5, k) \in {0, 1}
<1>1. x \in 0..31
  BY DEF Five
<1>2. x = 16 * ((x \div 16) % 2) + 8 * ((x \div 8) % 2) + 4 * ((x \div 4) % 2) + 2 * ((x \div 2) % 2) + ((x \div 1) % 2)
  <2>1. \A y \in 0..31 :
          y = 16 * ((y \div 16) % 2) + 8 * ((y \div 8) % 2) + 4 * ((y \div 4) % 2) + 2 * ((y \div 2) % 2) + ((y \div 1) % 2)
    OBVIOUS
  <2> QED
    BY <1>1, <2>1
<1>3. /\ (x \div 16) % 2 \in {0, 1} /\ (x \div 8) % 2 \in {0, 1} /\ (x \div 4) % 2 \in {0, 1}
      /\ (x \div 2) % 2 \in {0, 1} /\ (x \div 1) % 2 \in {0, 1}
  BY <1>1
<1>4. /\ Bit(x, 5, 1) \in {0, 1} /\ Bit(x, 5, 2) \in {0, 1} /\ Bit(x, 5, 3) \in {0, 1}
      /\ Bit(x, 5, 4) \in {0, 1} /\ Bit(x, 5, 5) \in {0, 1}
  BY <1>3, BitsOfFive
<1>5. \A k \in 1..5 : Bit(x, 5, k) \in {0, 1}
  BY <1>4
<1> QED
  BY <1>2, <1>5, BitsOfFive

\* A byte is the value of its bits.
LEMMA ByteIsItsBits ==
  ASSUME NEW x \in Byte
  PROVE  /\ x = 128 * Bit(x, 8, 1) + 64 * Bit(x, 8, 2) + 32 * Bit(x, 8, 3) + 16 * Bit(x, 8, 4)
                  + 8 * Bit(x, 8, 5) + 4 * Bit(x, 8, 6) + 2 * Bit(x, 8, 7) + Bit(x, 8, 8)
         /\ \A k \in 1..8 : Bit(x, 8, k) \in {0, 1}
<1>1. x \in 0..255
  BY DEF Byte
<1>2. x = 128 * ((x \div 128) % 2) + 64 * ((x \div 64) % 2) + 32 * ((x \div 32) % 2)
            + 16 * ((x \div 16) % 2) + 8 * ((x \div 8) % 2) + 4 * ((x \div 4) % 2) + 2 * ((x \div 2) % 2) + ((x \div 1) % 2)
  <2>1. \A y \in 0..255 :
          y = 128 * ((y \div 128) % 2) + 64 * ((y \div 64) % 2) + 32 * ((y \div 32) % 2)
              + 16 * ((y \div 16) % 2) + 8 * ((y \div 8) % 2) + 4 * ((y \div 4) % 2) + 2 * ((y \div 2) % 2) + ((y \div 1) % 2)
    OBVIOUS
  <2> QED
    BY <1>1, <2>1
<1>3. /\ (x \div 128) % 2 \in {0, 1} /\ (x \div 64) % 2 \in {0, 1} /\ (x \div 32) % 2 \in {0, 1}
      /\ (x \div 16) % 2 \in {0, 1} /\ (x \div 8) % 2 \in {0, 1} /\ (x \div 4) % 2 \in {0, 1}
      /\ (x \div 2) % 2 \in {0, 1} /\ (x \div 1) % 2 \in {0, 1}
  BY <1>1
<1>4. /\ Bit(x, 8, 1) \in {0, 1} /\ Bit(x, 8, 2) \in {0, 1} /\ Bit(x, 8, 3) \in {0, 1} /\ Bit(x, 8, 4) \in {0, 1}
      /\ Bit(x, 8, 5) \in {0, 1} /\ Bit(x, 8, 6) \in {0, 1} /\ Bit(x, 8, 7) \in {0, 1} /\ Bit(x, 8, 8) \in {0, 1}
  BY <1>3, BitsOfEight
<1>5. \A k \in 1..8 : Bit(x, 8, k) \in {0, 1}
  BY <1>4
<1> QED
  BY <1>2, <1>5, BitsOfEight

\* Five bits are the bits of their value.
FiveOf(a, b, c, d, e) == 16 * a + 8 * b + 4 * c + 2 * d + e

\* Five bits are the bits of their value.
LEMMA BitsAreFive ==
  ASSUME NEW a \in {0, 1}, NEW b \in {0, 1}, NEW c \in {0, 1}, NEW d \in {0, 1}, NEW e \in {0, 1}
  PROVE  /\ FiveOf(a, b, c, d, e) \in Five
         /\ Bit(FiveOf(a, b, c, d, e), 5, 1) = a /\ Bit(FiveOf(a, b, c, d, e), 5, 2) = b
         /\ Bit(FiveOf(a, b, c, d, e), 5, 3) = c /\ Bit(FiveOf(a, b, c, d, e), 5, 4) = d
         /\ Bit(FiveOf(a, b, c, d, e), 5, 5) = e
<1> PICK x : x = FiveOf(a, b, c, d, e)
  OBVIOUS
<1>1. x = 16 * a + 8 * b + 4 * c + 2 * d + e
  BY DEF FiveOf
<1>2. x \in 0..31
  BY <1>1
<1>3. (x \div 16) % 2 = a /\ (x \div 8) % 2 = b /\ (x \div 4) % 2 = c /\ (x \div 2) % 2 = d /\ (x \div 1) % 2 = e
  BY <1>1
<1> QED
  BY <1>2, <1>3, BitsOfFive DEF Five

-----------------------------------------------------------------------------
(* The checksum *)

\* Two groups of five bits are the same when their bits are.
LEMMA SameBits ==
  ASSUME NEW x \in Five, NEW y \in Five, \A k \in 1..5 : Bit(x, 5, k) = Bit(y, 5, k)
  PROVE  x = y
<1>1. /\ Bit(x, 5, 1) = Bit(y, 5, 1) /\ Bit(x, 5, 2) = Bit(y, 5, 2) /\ Bit(x, 5, 3) = Bit(y, 5, 3)
      /\ Bit(x, 5, 4) = Bit(y, 5, 4) /\ Bit(x, 5, 5) = Bit(y, 5, 5)
  OBVIOUS
<1>2. x = 16 * Bit(x, 5, 1) + 8 * Bit(x, 5, 2) + 4 * Bit(x, 5, 3) + 2 * Bit(x, 5, 4) + Bit(x, 5, 5)
  BY FiveIsItsBits
<1>3. y = 16 * Bit(y, 5, 1) + 8 * Bit(y, 5, 2) + 4 * Bit(y, 5, 3) + 2 * Bit(y, 5, 4) + Bit(y, 5, 5)
  BY FiveIsItsBits
<1> QED
  BY <1>1, <1>2, <1>3

\* The bits of a sum without carry.
LEMMA XorBits ==
  ASSUME NEW a \in Five, NEW b \in Five
  PROVE  /\ Xor5[a][b] \in Five
         /\ \A k \in 1..5 : Bit(Xor5[a][b], 5, k) = (Bit(a, 5, k) + Bit(b, 5, k)) % 2
<1> DEFINE s == [k \in 1..5 |-> (Bit(a, 5, k) + Bit(b, 5, k)) % 2]
<1>1. \A k \in 1..5 : Bit(a, 5, k) \in {0, 1} /\ Bit(b, 5, k) \in {0, 1}
  BY FiveIsItsBits
<1>2. \A k \in 1..5 : s[k] = (Bit(a, 5, k) + Bit(b, 5, k)) % 2 /\ s[k] \in {0, 1}
  BY <1>1
<1>3. s \in Seq({0, 1}) /\ Len(s) = 5
  BY <1>2, IsASeq
<1>4. Xor5[a][b] = ValueOf(s)
  BY DEF Xor5
<1> HIDE DEF s
<1>5. ValueOf(s) = 16 * s[1] + 8 * s[2] + 4 * s[3] + 2 * s[4] + s[5]
  BY <1>3, ValueOfFive
<1>6. s[1] \in {0, 1} /\ s[2] \in {0, 1} /\ s[3] \in {0, 1} /\ s[4] \in {0, 1} /\ s[5] \in {0, 1}
  BY <1>2
<1> PICK x : x = Xor5[a][b]
  OBVIOUS
<1>7. x = FiveOf(s[1], s[2], s[3], s[4], s[5])
  BY <1>4, <1>5 DEF FiveOf
<1>8. x \in Five
  BY ONLY <1>6, <1>7, BitsAreFive
<1>9. Bit(x, 5, 1) = s[1] /\ Bit(x, 5, 2) = s[2] /\ Bit(x, 5, 3) = s[3] /\ Bit(x, 5, 4) = s[4] /\ Bit(x, 5, 5) = s[5]
  BY ONLY <1>6, <1>7, BitsAreFive
<1>10. ASSUME NEW k \in 1..5 PROVE Bit(x, 5, k) = s[k]
  BY <1>9
<1> QED
  BY <1>2, <1>8, <1>10

\* Sums without carry: of three in either order, with nothing, with itself.
LEMMA XorIsAssociative ==
  ASSUME NEW a \in Five, NEW b \in Five, NEW c \in Five
  PROVE  Xor5[Xor5[a][b]][c] = Xor5[a][Xor5[b][c]]
<1> PICK u, v, x, y : u = Xor5[a][b] /\ v = Xor5[b][c] /\ x = Xor5[u][c] /\ y = Xor5[a][v]
  OBVIOUS
<1>1. u \in Five /\ v \in Five
  BY XorBits
<1>2. x \in Five /\ y \in Five
  BY <1>1, XorBits
<1>3. ASSUME NEW k \in 1..5 PROVE Bit(x, 5, k) = Bit(y, 5, k)
  <2>1. Bit(a, 5, k) \in {0, 1} /\ Bit(b, 5, k) \in {0, 1} /\ Bit(c, 5, k) \in {0, 1}
    BY FiveIsItsBits
  <2>2. /\ Bit(u, 5, k) = (Bit(a, 5, k) + Bit(b, 5, k)) % 2
        /\ Bit(v, 5, k) = (Bit(b, 5, k) + Bit(c, 5, k)) % 2
    BY XorBits
  <2>3. /\ Bit(x, 5, k) = (Bit(u, 5, k) + Bit(c, 5, k)) % 2
        /\ Bit(y, 5, k) = (Bit(a, 5, k) + Bit(v, 5, k)) % 2
    BY <1>1, XorBits
  <2>4. \A p, q, r \in {0, 1} : (((p + q) % 2) + r) % 2 = (p + ((q + r) % 2)) % 2
    OBVIOUS
  <2> QED
    BY <2>1, <2>2, <2>3, <2>4
<1> QED
  BY <1>2, <1>3, SameBits

\* Exclusive or takes its groups in either order.
LEMMA XorIsCommutative ==
  ASSUME NEW a \in Five, NEW b \in Five
  PROVE  Xor5[a][b] = Xor5[b][a]
<1> PICK x, y : x = Xor5[a][b] /\ y = Xor5[b][a]
  OBVIOUS
<1>2. x \in Five /\ y \in Five
  BY XorBits
<1>3. ASSUME NEW k \in 1..5 PROVE Bit(x, 5, k) = Bit(y, 5, k)
  <2>1. Bit(a, 5, k) \in {0, 1} /\ Bit(b, 5, k) \in {0, 1}
    BY FiveIsItsBits
  <2>2. /\ Bit(x, 5, k) = (Bit(a, 5, k) + Bit(b, 5, k)) % 2
        /\ Bit(y, 5, k) = (Bit(b, 5, k) + Bit(a, 5, k)) % 2
    BY XorBits
  <2> QED
    BY <2>1, <2>2
<1> QED
  BY <1>2, <1>3, SameBits

\* Zero changes no group, and a group undoes itself.
LEMMA XorWithZero ==
  ASSUME NEW a \in Five
  PROVE  Xor5[a][0] = a /\ Xor5[a][a] = 0
<1>0. 0 \in Five
  BY DEF Five
<1> PICK x, y : x = Xor5[a][0] /\ y = Xor5[a][a]
  OBVIOUS
<1>2. x \in Five /\ y \in Five
  BY <1>0, XorBits
<1>3. \A k \in 1..5 : Bit(0, 5, k) = 0
  BY BitsOfFive
<1>4. ASSUME NEW k \in 1..5 PROVE Bit(x, 5, k) = Bit(a, 5, k) /\ Bit(y, 5, k) = Bit(0, 5, k)
  <2>1. Bit(a, 5, k) \in {0, 1}
    BY FiveIsItsBits
  <2>2. /\ Bit(x, 5, k) = (Bit(a, 5, k) + Bit(0, 5, k)) % 2
        /\ Bit(y, 5, k) = (Bit(a, 5, k) + Bit(a, 5, k)) % 2
    BY <1>0, XorBits
  <2> QED
    BY <1>3, <2>1, <2>2
<1> QED
  BY <1>0, <1>2, <1>4, SameBits

\* The register of the checksum.
Register == [1..6 -> Five]

\* A register is a sequence of six groups.
LEMMA RegisterIsSeq ==
  ASSUME NEW r \in Register
  PROVE  r \in Seq(Five) /\ Len(r) = 6 /\ \A j \in 1..6 : r[j] \in Five
<1>1. \A j \in 1..6 : r[j] \in Five
  BY DEF Register
<1>2. DOMAIN r = 1..6 /\ r = [j \in 1..6 |-> r[j]]
  BY DEF Register
<1>3. [j \in 1..6 |-> r[j]] \in Seq(Five) /\ Len([j \in 1..6 |-> r[j]]) = 6
  BY <1>1, IsASeq
<1> QED
  BY <1>1, <1>2, <1>3

\* A register that is shifted by one digit.
LEMMA ShiftedRegister ==
  ASSUME NEW r \in Register, NEW v \in Five
  PROVE  /\ Append(Tail(r), v) \in Register
         /\ \A j \in 1..5 : Append(Tail(r), v)[j] = r[j + 1]
         /\ Append(Tail(r), v)[6] = v
<1> PICK t : t = Tail(r)
  OBVIOUS
<1>1. r \in Seq(Five) /\ Len(r) = 6
  BY RegisterIsSeq
<1>2. r # <<>>
  BY <1>1, EmptySeq
<1>3. t \in Seq(Five) /\ Len(t) = Len(r) - 1 /\ \A j \in 1..Len(t) : t[j] = r[j + 1]
  BY ONLY <1>1, <1>2, t = Tail(r), HeadTailProperties
<1>4. Len(t) = 5 /\ \A j \in 1..5 : t[j] = r[j + 1]
  BY ONLY <1>1, <1>3
<1> PICK a : a = Append(t, v)
  OBVIOUS
<1>5. a \in Seq(Five) /\ Len(a) = Len(t) + 1 /\ (\A j \in 1..Len(t) : a[j] = t[j]) /\ a[Len(t) + 1] = v
  BY ONLY <1>3, v \in Five, a = Append(t, v), AppendProperties
<1>6. Len(a) = 6 /\ (\A j \in 1..5 : a[j] = t[j]) /\ a[6] = v
  BY ONLY <1>4, <1>5
<1>7. a \in [1..Len(a) -> Five]
  BY <1>5, LenProperties
<1>8. a \in Register
  BY ONLY <1>6, <1>7 DEF Register
<1> QED
  BY ONLY <1>4, <1>6, <1>8, t = Tail(r), a = Append(t, v)

\* Registers are added digit by digit, in any order.
LEMMA XorOfRegisters ==
  ASSUME NEW a \in Register, NEW b \in Register
  PROVE  XorDigits(a, b) \in Register /\ \A j \in 1..6 : XorDigits(a, b)[j] = Xor5[a[j]][b[j]]
<1>1. \A j \in 1..6 : a[j] \in Five /\ b[j] \in Five
  BY DEF Register
<1>2. \A j \in 1..6 : Xor5[a[j]][b[j]] \in Five
  BY <1>1, XorBits
<1> QED
  BY <1>2 DEF XorDigits, Register

\* Registers of the same digits are the same.
LEMMA SameDigits ==
  ASSUME NEW a \in Register, NEW b \in Register, \A j \in 1..6 : a[j] = b[j]
  PROVE  a = b
BY DEF Register

\* Six groups in a sequence are a register.
LEMMA SeqIsRegister ==
  ASSUME NEW r \in Seq(Five), Len(r) = 6
  PROVE  r \in Register
BY LenProperties DEF Register

\* The generators, one and the empty checksum are registers.
LEMMA GeneratorsAreRegisters ==
  /\ NilChecksum \in Register /\ One \in Register /\ \A k \in 1..5 : gen[k] \in Register
<1>1. NilChecksum \in Seq(Five) /\ Len(NilChecksum) = 6
  BY DEF NilChecksum, Five
<1>2. One \in Seq(Five) /\ Len(One) = 6
  BY DEF One, Five
<1>3. gen[1] \in Seq(Five) /\ Len(gen[1]) = 6
  BY DEF gen, Five
<1>4. gen[2] \in Seq(Five) /\ Len(gen[2]) = 6
  BY DEF gen, Five
<1>5. gen[3] \in Seq(Five) /\ Len(gen[3]) = 6
  BY DEF gen, Five
<1>6. gen[4] \in Seq(Five) /\ Len(gen[4]) = 6
  BY DEF gen, Five
<1>7. gen[5] \in Seq(Five) /\ Len(gen[5]) = 6
  BY DEF gen, Five
<1>8. \A r \in Seq(Five) : Len(r) = 6 => r \in Register
  BY SeqIsRegister
<1>9. NilChecksum \in Register /\ One \in Register /\ gen[1] \in Register /\ gen[2] \in Register
      /\ gen[3] \in Register /\ gen[4] \in Register /\ gen[5] \in Register
  BY ONLY <1>1, <1>2, <1>3, <1>4, <1>5, <1>6, <1>7, <1>8, Zenon
<1>10. ASSUME NEW k \in 1..5 PROVE gen[k] \in Register
  BY <1>9
<1> QED
  BY <1>9, <1>10

\* The sum of generators is a register.
LEMMA GenSumType == \A b \in Five : GenSum[b] \in Register
<1> SUFFICES ASSUME NEW b \in Five PROVE GenSum[b] \in Register
  OBVIOUS
<1> DEFINE V == Register
           n == 5
           R == [k \in 1..5 |-> [v \in V |-> IF Bit(b, 5, 6 - k) = 1 THEN XorDigits(v, gen[k]) ELSE v]]
           f == ForLoop(n, NilChecksum, R)
<1>1. \A k \in 1..5, v \in V : /\ R[k][v] = IF Bit(b, 5, 6 - k) = 1 THEN XorDigits(v, gen[k]) ELSE v
                               /\ R[k][v] \in V
  BY GeneratorsAreRegisters, XorOfRegisters
<1>2. NilChecksum \in V
  BY GeneratorsAreRegisters
<1>n. n \in Nat /\ \A k \in 1..n, v \in V : R[k][v] \in V
  BY <1>1
<1> HIDE DEF R, V, n
<1>3a. \A k \in 0..n : f[k] \in V
  BY <1>n, <1>2, LoopStays
<1>4a. DOMAIN f = 0..n /\ f[0] = NilChecksum /\ \A k \in 1..n : f[k] = R[k][f[k - 1]]
  BY <1>n, LoopSteps
<1>5a. f = [k \in 0..n |-> f[k]]
  BY <1>n, LoopSteps
<1> HIDE DEF f
<1>3. \A k \in 0..5 : f[k] \in V
  BY <1>3a DEF n
<1>4. f[0] = NilChecksum /\ \A k \in 1..5 : f[k] = R[k][f[k - 1]]
  BY <1>4a DEF n
<1>5. f = [k \in 0..5 |-> f[k]]
  BY <1>5a DEF n
<1>6. ASSUME NEW k \in 0..5
      PROVE  f[k] = IF k = 0 THEN NilChecksum
                    ELSE IF Bit(b, 5, 6 - k) = 1 THEN XorDigits(f[k - 1], gen[k]) ELSE f[k - 1]
  <2>1. CASE k # 0
    <3>1. k \in 1..5 /\ k - 1 \in 0..5
      BY <2>1
    <3> QED
      BY <1>1, <1>3, <1>4, <2>1, <3>1
  <2> QED
    BY <1>4, <2>1
<1> DEFINE Sums(g) == g = [k \in 0..5 |->
                        IF k = 0 THEN NilChecksum
                        ELSE IF Bit(b, 5, 6 - k) = 1 THEN XorDigits(g[k - 1], gen[k]) ELSE g[k - 1]]
           g == CHOOSE h : Sums(h)
<1>7. Sums(f)
  BY <1>5, <1>6
<1>8. Sums(g)
  <2> HIDE DEF Sums
  <2> QED
    BY <1>7
<1>9. GenSum[b] = g[5]
  BY DEF GenSum
<1> HIDE DEF g
<1>10. g[0] = NilChecksum
  BY <1>8
<1>11. \A k \in 1..5 : g[k] = IF Bit(b, 5, 6 - k) = 1 THEN XorDigits(g[k - 1], gen[k]) ELSE g[k - 1]
  BY <1>8
<1>12. \A k \in 1..5 : g[k - 1] \in V => g[k] = R[k][g[k - 1]]
  BY <1>1, <1>11
<1>13. \A k \in 0..5 : g[k] \in V
  <2>1. g[0] \in V /\ 5 \in Nat /\ \A k \in 1..5, v \in V : R[k][v] \in V
    BY <1>1, <1>2, <1>10
  <2> QED
    BY ONLY <1>12, <2>1, LoopType
<1> QED
  BY <1>9, <1>13 DEF V

\* One step of the register: it is shifted, and the generators of its first digit are added.
LEMMA StepOfRegister ==
  ASSUME NEW r \in Register, NEW v \in Five
  PROVE  /\ PolymodStep(r, v) \in Register
         /\ \A j \in 1..5 : PolymodStep(r, v)[j] = Xor5[r[j + 1]][GenSum[r[1]][j]]
         /\ PolymodStep(r, v)[6] = Xor5[v][GenSum[r[1]][6]]
<1> PICK s, g : s = Append(Tail(r), v) /\ g = GenSum[r[1]]
  OBVIOUS
<1>1. s \in Register /\ (\A j \in 1..5 : s[j] = r[j + 1]) /\ s[6] = v
  BY ShiftedRegister
<1>2. g \in Register
  BY GenSumType DEF Register
<1>3. XorDigits(s, g) \in Register /\ \A j \in 1..6 : XorDigits(s, g)[j] = Xor5[s[j]][g[j]]
  BY <1>1, <1>2, XorOfRegisters
<1>4. PolymodStep(r, v) = XorDigits(s, g)
  BY DEF PolymodStep
<1>5. \A j \in 1..5 : XorDigits(s, g)[j] = Xor5[r[j + 1]][g[j]]
  BY ONLY <1>1, <1>3
<1>6. XorDigits(s, g)[6] = Xor5[v][g[6]]
  BY ONLY <1>1, <1>3
<1> QED
  BY ONLY <1>3, <1>4, <1>5, <1>6, g = GenSum[r[1]]

\* The register takes every value.
LEMMA PolymodsSteps ==
  ASSUME NEW chk \in Register, NEW values \in Seq(Five)
  PROVE  /\ Polymods(chk, values)[0] = chk
         /\ \A k \in 0..Len(values) : Polymods(chk, values)[k] \in Register
         /\ \A k \in 1..Len(values) :
              Polymods(chk, values)[k] = PolymodStep(Polymods(chk, values)[k - 1], values[k])
<1> DEFINE n == Len(values)
           V == Register
           R == [k \in 1..n |-> [v \in V |-> PolymodStep(v, values[k])]]
           f == ForLoop(n, chk, R)
<1>1. n \in Nat /\ \A k \in 1..n : values[k] \in Five
  BY LenProperties, ElementOfSeq
<1>2. \A k \in 1..n, v \in V : R[k][v] = PolymodStep(v, values[k]) /\ R[k][v] \in V
  BY <1>1, StepOfRegister
<1>3. chk \in V
  OBVIOUS
<1> HIDE DEF R, V, n
<1>4. \A k \in 0..n : f[k] \in V
  BY <1>1, <1>2, <1>3, LoopStays
<1>5. DOMAIN f = 0..n /\ f[0] = chk /\ \A k \in 1..n : f[k] = R[k][f[k - 1]]
  BY <1>1, LoopSteps
<1>6. f = [k \in 0..n |-> f[k]]
  BY <1>1, LoopSteps
<1> HIDE DEF f
<1>7. ASSUME NEW k \in 0..n PROVE f[k] = IF k = 0 THEN chk ELSE PolymodStep(f[k - 1], values[k])
  <2>1. CASE k # 0
    <3>1. k \in 1..n /\ k - 1 \in 0..n
      BY <1>1, <2>1
    <3> QED
      BY <1>2, <1>4, <1>5, <2>1, <3>1
  <2> QED
    BY <1>5, <2>1
<1> DEFINE Is(g) == g = [k \in 0..n |-> IF k = 0 THEN chk ELSE PolymodStep(g[k - 1], values[k])]
           g == CHOOSE h : Is(h)
<1>8. Is(f)
  BY <1>6, <1>7
<1>9. Is(g)
  <2> HIDE DEF Is
  <2> QED
    BY <1>8
<1>10. Polymods(chk, values) = g
  BY DEF Polymods, n
<1> HIDE DEF g
<1>11. g[0] = chk /\ \A k \in 1..n : g[k] = PolymodStep(g[k - 1], values[k])
  BY <1>1, <1>9
<1>12. \A k \in 1..n : g[k - 1] \in V => g[k] = R[k][g[k - 1]]
  BY <1>2, <1>11
<1>13. \A k \in 0..n : g[k] \in V
  <2>1. g[0] \in V /\ n \in Nat /\ \A k \in 1..n, v \in V : R[k][v] \in V
    BY <1>1, <1>2, <1>3, <1>11
  <2> QED
    BY ONLY <1>12, <2>1, LoopType
<1> QED
  BY <1>10, <1>11, <1>13 DEF n, V

\* Values leave a register a register.
LEMMA PolymodType ==
  ASSUME NEW chk \in Register, NEW values \in Seq(Five)
  PROVE  Polymod(chk, values) \in Register
BY PolymodsSteps, LenProperties DEF Polymod

-----------------------------------------------------------------------------
(* The last six values *)

\* The difference of two registers that took the digits of c and zeros, k steps ago.
Lead(c, k, j) == IF j + k > 6 THEN c[j + k - 6] ELSE 0

\* After k of the six values of c, b is a with these values in its lowest digits.
Apart(a, b, c, k) == \A j \in 1..6 : b[j] = Xor5[a[j]][Lead(c, k, j)]

\* These values are groups.
LEMMA LeadType ==
  ASSUME NEW c \in Register, NEW k \in 0..6, NEW j \in 1..6
  PROVE  Lead(c, k, j) \in Five
<1>1. j + k > 6 => j + k - 6 \in 1..6
  OBVIOUS
<1>2. \A i \in 1..6 : c[i] \in Five
  BY DEF Register
<1>3. 0 \in Five
  BY DEF Five
<1> QED
  BY ONLY <1>1, <1>2, <1>3 DEF Lead

\* One more value keeps the two registers apart by the values alone.
LEMMA ApartStep ==
  ASSUME NEW a \in Register, NEW b \in Register, NEW c \in Register, NEW k \in 0..5, Apart(a, b, c, k)
  PROVE  Apart(PolymodStep(a, 0), PolymodStep(b, c[k + 1]), c, k + 1)
<1>1. 0 \in Five /\ (\A i \in 1..6 : c[i] \in Five) /\ (\A i \in 1..6 : a[i] \in Five) /\ k + 1 \in 1..6
  BY DEF Register, Five
<1> PICK v, s, t : v = c[k + 1] /\ s = PolymodStep(a, 0) /\ t = PolymodStep(b, v)
  OBVIOUS
<1>2. v \in Five
  BY <1>1
<1>3. b[1] = a[1]
  <2>1. b[1] = Xor5[a[1]][Lead(c, k, 1)]
    BY DEF Apart
  <2>2. Lead(c, k, 1) = 0
    BY DEF Lead
  <2> QED
    BY <1>1, <2>1, <2>2, XorWithZero
<1> PICK g : g = GenSum[a[1]]
  OBVIOUS
<1>4. g \in Register /\ \A i \in 1..6 : g[i] \in Five
  <2>1. g \in Register
    BY <1>1, GenSumType
  <2> QED
    BY <2>1 DEF Register
<1>5. (\A j \in 1..5 : s[j] = Xor5[a[j + 1]][g[j]]) /\ s[6] = Xor5[0][g[6]]
  BY <1>1, StepOfRegister
<1>6. (\A j \in 1..5 : t[j] = Xor5[b[j + 1]][g[j]]) /\ t[6] = Xor5[v][g[6]]
  <2>1. /\ \A j \in 1..5 : t[j] = Xor5[b[j + 1]][GenSum[b[1]][j]]
        /\ t[6] = Xor5[v][GenSum[b[1]][6]]
    BY <1>2, StepOfRegister
  <2> QED
    BY <1>3, <2>1
<1>7. ASSUME NEW j \in 1..5 PROVE t[j] = Xor5[s[j]][Lead(c, k + 1, j)]
  <2> PICK x, y, z : x = a[j + 1] /\ y = Lead(c, k, j + 1) /\ z = g[j]
    OBVIOUS
  <2>1. j + 1 \in 1..6 /\ j \in 1..6
    OBVIOUS
  <2>2. x \in Five /\ y \in Five /\ z \in Five
    BY <1>1, <1>4, <2>1, LeadType
  <2>3. b[j + 1] = Xor5[x][y]
    BY <2>1 DEF Apart
  <2>4. Lead(c, k + 1, j) = y
    <3>1. j + (k + 1) = (j + 1) + k
      OBVIOUS
    <3>2. \A p, q : p = q => (IF p > 6 THEN c[p - 6] ELSE 0) = (IF q > 6 THEN c[q - 6] ELSE 0)
      OBVIOUS
    <3> QED
      BY <3>1, <3>2 DEF Lead
  <2>5. Xor5[Xor5[x][y]][z] = Xor5[Xor5[x][z]][y]
    <3>1. Xor5[Xor5[x][y]][z] = Xor5[x][Xor5[y][z]] /\ Xor5[Xor5[x][z]][y] = Xor5[x][Xor5[z][y]]
      BY ONLY <2>2, XorIsAssociative
    <3>2. Xor5[y][z] = Xor5[z][y]
      BY ONLY <2>2, XorIsCommutative
    <3> QED
      BY ONLY <3>1, <3>2
  <2> QED
    BY ONLY <1>5, <1>6, <2>3, <2>4, <2>5, j \in 1..5, x = a[j + 1], y = Lead(c, k, j + 1), z = g[j]
<1>8. t[6] = Xor5[s[6]][Lead(c, k + 1, 6)]
  <2>1. Lead(c, k + 1, 6) = v
    <3>1. 6 + (k + 1) > 6 /\ 6 + (k + 1) - 6 = k + 1
      OBVIOUS
    <3> QED
      BY <3>1 DEF Lead
  <2> PICK z : z = g[6]
    OBVIOUS
  <2>2. z \in Five
    BY <1>4
  <2>3. Xor5[0][z] = z
    BY <1>1, <2>2, XorWithZero, XorIsCommutative
  <2>4. Xor5[v][z] = Xor5[z][v]
    BY <1>2, <2>2, XorIsCommutative
  <2> QED
    BY <1>5, <1>6, <2>1, <2>3, <2>4
<1> QED
  <2>1. ASSUME NEW j \in 1..6 PROVE t[j] = Xor5[s[j]][Lead(c, k + 1, j)]
    <3>1. j \in 1..5 \/ j = 6
      OBVIOUS
    <3> QED
      BY <1>7, <1>8, <3>1
  <2> QED
    BY <2>1 DEF Apart

\* Six values more than zeros are added to the register.
LEMMA SixValues ==
  ASSUME NEW r \in Register, NEW c \in Register
  PROVE  Polymod(r, c) = XorDigits(Polymod(r, NilChecksum), c)
<1> PICK z : z = NilChecksum
  OBVIOUS
<1>1. z \in Register /\ z \in Seq(Five) /\ Len(z) = 6 /\ c \in Seq(Five) /\ Len(c) = 6
  BY GeneratorsAreRegisters, RegisterIsSeq
<1>2. \A k \in 1..6 : z[k] = 0
  BY DEF NilChecksum
<1> PICK A, B : A = Polymods(r, z) /\ B = Polymods(r, c)
  OBVIOUS
<1>s. \A s \in Seq(Five) : Len(s) = 6 =>
        /\ Polymods(r, s)[0] = r /\ \A k \in 0..6 : Polymods(r, s)[k] \in Register
        /\ \A k \in 1..6 : Polymods(r, s)[k] = PolymodStep(Polymods(r, s)[k - 1], s[k])
  <2> SUFFICES ASSUME NEW s \in Seq(Five), Len(s) = 6
               PROVE  /\ Polymods(r, s)[0] = r /\ \A k \in 0..6 : Polymods(r, s)[k] \in Register
                      /\ \A k \in 1..6 : Polymods(r, s)[k] = PolymodStep(Polymods(r, s)[k - 1], s[k])
    OBVIOUS
  <2>1. /\ Polymods(r, s)[0] = r /\ (\A k \in 0..Len(s) : Polymods(r, s)[k] \in Register)
        /\ \A k \in 1..Len(s) : Polymods(r, s)[k] = PolymodStep(Polymods(r, s)[k - 1], s[k])
    BY PolymodsSteps
  <2> QED
    BY <2>1
<1>3. /\ A[0] = r /\ (\A k \in 0..6 : A[k] \in Register) /\ \A k \in 1..6 : A[k] = PolymodStep(A[k - 1], z[k])
  BY <1>1, <1>s
<1>4. /\ B[0] = r /\ (\A k \in 0..6 : B[k] \in Register) /\ \A k \in 1..6 : B[k] = PolymodStep(B[k - 1], c[k])
  BY <1>1, <1>s
<1> DEFINE P(k) == Apart(A[k], B[k], c, k)
<1>5. P(0)
  <2>1. ASSUME NEW j \in 1..6 PROVE r[j] = Xor5[r[j]][Lead(c, 0, j)]
    <3>1. Lead(c, 0, j) = 0 /\ r[j] \in Five
      BY DEF Lead, Register
    <3> QED
      BY <3>1, XorWithZero
  <2> QED
    BY <1>3, <1>4, <2>1 DEF Apart
<1>6. ASSUME NEW k \in 0..5, P(k) PROVE P(k + 1)
  <2>1. k + 1 \in 1..6 /\ (k + 1) - 1 = k /\ k \in 0..6
    OBVIOUS
  <2>2. A[k + 1] = PolymodStep(A[k], 0) /\ B[k + 1] = PolymodStep(B[k], c[k + 1])
    BY <1>2, <1>3, <1>4, <2>1
  <2>3. A[k] \in Register /\ B[k] \in Register
    BY <1>3, <1>4, <2>1
  <2> QED
    BY <1>6, <2>2, <2>3, ApartStep
<1>7. P(6)
  <2> HIDE DEF P
  <2>1. P(0 + 1)
    BY <1>5, <1>6
  <2>2. P(1 + 1)
    BY <1>6, <2>1
  <2>3. P(2 + 1)
    BY <1>6, <2>2
  <2>4. P(3 + 1)
    BY <1>6, <2>3
  <2>5. P(4 + 1)
    BY <1>6, <2>4
  <2>6. P(5 + 1)
    BY <1>6, <2>5
  <2> QED
    BY <2>6
<1> PICK x, y : x = A[6] /\ y = B[6]
  OBVIOUS
<1>8. x \in Register /\ y \in Register /\ x = Polymod(r, NilChecksum) /\ y = Polymod(r, c)
  BY <1>1, <1>3, <1>4 DEF Polymod
<1>9. ASSUME NEW j \in 1..6 PROVE y[j] = XorDigits(x, c)[j]
  <2>1. j + 6 > 6 /\ j + 6 - 6 = j
    OBVIOUS
  <2>2. Lead(c, 6, j) = c[j]
    BY <2>1 DEF Lead
  <2>3. y[j] = Xor5[x[j]][Lead(c, 6, j)]
    BY <1>7 DEF Apart
  <2> QED
    BY <1>8, <2>2, <2>3, XorOfRegisters
<1>10. XorDigits(x, c) \in Register
  BY <1>8, XorOfRegisters
<1> QED
  BY <1>8, <1>9, <1>10, SameDigits

\* Values with their checksum leave the register at one.
LEMMA ChecksumVerifies ==
  ASSUME NEW r \in Register
  PROVE  /\ XorDigits(Polymod(r, NilChecksum), One) \in Register
         /\ Polymod(r, XorDigits(Polymod(r, NilChecksum), One)) = One
<1> PICK x, c : x = Polymod(r, NilChecksum) /\ c = XorDigits(x, One)
  OBVIOUS
<1>1. x \in Register /\ One \in Register
  <2>1. NilChecksum \in Seq(Five) /\ One \in Register
    BY GeneratorsAreRegisters, RegisterIsSeq
  <2> QED
    BY <2>1, PolymodType
<1>2. c \in Register /\ \A j \in 1..6 : c[j] = Xor5[x[j]][One[j]]
  BY <1>1, XorOfRegisters
<1>3. Polymod(r, c) = XorDigits(x, c)
  BY <1>2, SixValues
<1>4. XorDigits(x, c) \in Register /\ \A j \in 1..6 : XorDigits(x, c)[j] = Xor5[x[j]][c[j]]
  BY <1>1, <1>2, XorOfRegisters
<1>5. ASSUME NEW j \in 1..6 PROVE XorDigits(x, c)[j] = One[j]
  <2> PICK p, q : p = x[j] /\ q = One[j]
    OBVIOUS
  <2>1. p \in Five /\ q \in Five /\ 0 \in Five
    BY <1>1 DEF Register, Five
  <2>2. Xor5[p][Xor5[p][q]] = Xor5[Xor5[p][p]][q]
    BY ONLY <2>1, XorIsAssociative
  <2>3. Xor5[p][p] = 0
    BY ONLY <2>1, XorWithZero
  <2>4. Xor5[0][q] = Xor5[q][0]
    BY ONLY <2>1, XorIsCommutative
  <2>5. Xor5[q][0] = q
    BY ONLY <2>1, XorWithZero
  <2> QED
    BY <1>2, <1>4, <2>2, <2>3, <2>4, <2>5
<1> QED
  BY <1>1, <1>2, <1>3, <1>4, <1>5, SameDigits

-----------------------------------------------------------------------------
(* The characters *)

\* The character of every group is printable, small and no separator.
LEMMA CharsOfGroups ==
  ASSUME NEW v \in Five
  PROVE  charset[v + 1] \in 33..126 /\ charset[v + 1] \notin 65..90 /\ charset[v + 1] # Separator
BY DEF Five, charset, Separator

\* Where the characters stand.
Place(c) ==
  IF c = 113 THEN 0 ELSE IF c = 112 THEN 1 ELSE IF c = 122 THEN 2 ELSE IF c = 114 THEN 3 ELSE
  IF c = 121 THEN 4 ELSE IF c = 57 THEN 5 ELSE IF c = 120 THEN 6 ELSE IF c = 56 THEN 7 ELSE
  IF c = 103 THEN 8 ELSE IF c = 102 THEN 9 ELSE IF c = 50 THEN 10 ELSE IF c = 116 THEN 11 ELSE
  IF c = 118 THEN 12 ELSE IF c = 100 THEN 13 ELSE IF c = 119 THEN 14 ELSE IF c = 48 THEN 15 ELSE
  IF c = 115 THEN 16 ELSE IF c = 51 THEN 17 ELSE IF c = 106 THEN 18 ELSE IF c = 110 THEN 19 ELSE
  IF c = 53 THEN 20 ELSE IF c = 52 THEN 21 ELSE IF c = 107 THEN 22 ELSE IF c = 104 THEN 23 ELSE
  IF c = 99 THEN 24 ELSE IF c = 101 THEN 25 ELSE IF c = 54 THEN 26 ELSE IF c = 109 THEN 27 ELSE
  IF c = 117 THEN 28 ELSE IF c = 97 THEN 29 ELSE IF c = 55 THEN 30 ELSE 31

\* The place of a character in the charset is found.
LEMMA PlaceOfChar ==
  ASSUME NEW v \in Five
  PROVE  Place(charset[v + 1]) = v
BY DEF Five, charset, Place

\* So a character of a group is read as the group.
LEMMA IndexOfChar ==
  ASSUME NEW v \in Five
  PROVE  CharsetIndex[charset[v + 1]] = v
<1> PICK c : c = charset[v + 1]
  OBVIOUS
<1>1. c \in 33..126
  BY CharsOfGroups
<1>2. \A u \in Five : charset[u + 1] = c => u = v
  BY PlaceOfChar
<1> DEFINE P(u) == charset[u + 1] = c
           i == CHOOSE u \in Five : P(u)
<1>3. \E u \in Five : P(u)
  OBVIOUS
<1>4. CharsetIndex[c] = i
  BY <1>1, <1>3 DEF CharsetIndex
<1>5. i \in Five /\ P(i)
  <2> HIDE DEF P
  <2> QED
    BY <1>3
<1> HIDE DEF i
<1> QED
  BY <1>2, <1>4, <1>5

\* Characters of a prefix: small letters, and marks above the capitals.
Small == 91..126

\* Such a prefix is its own lower case, and its halves are groups.
LEMMA SmallPrefix ==
  ASSUME NEW hrp \in Seq(Small)
  PROVE  /\ ToLower(hrp) = hrp /\ Len(hrp) \in Nat
         /\ \A k \in 1..Len(hrp) : hrp[k] \in Small
         /\ HighBits(hrp) \in Seq(Five) /\ LowBits(hrp) \in Seq(Five)
<1> PICK n : n = Len(hrp)
  OBVIOUS
<1>1. n \in Nat /\ DOMAIN hrp = 1..n /\ hrp = [k \in 1..n |-> hrp[k]]
  BY LenProperties
<1>2. \A k \in 1..n : hrp[k] \in Small
  BY ElementOfSeq
<1>0. \A x \in Small : x \notin 65..90 /\ x \div 32 \in Five /\ x % 32 \in Five
  BY DEF Small, Five
<1>3. ToLower(hrp) = hrp
  <2>1. ToLower(hrp) = [k \in 1..n |-> IF hrp[k] \in 65..90 THEN hrp[k] + 32 ELSE hrp[k]]
    BY ONLY <1>1 DEF ToLower
  <2>2. \A k \in 1..n : (IF hrp[k] \in 65..90 THEN hrp[k] + 32 ELSE hrp[k]) = hrp[k]
    BY ONLY <1>0, <1>2
  <2> QED
    BY ONLY <1>1, <2>1, <2>2
<1>4. \A k \in 1..n : hrp[k] \div 32 \in Five /\ hrp[k] % 32 \in Five
  BY ONLY <1>0, <1>2
<1> PICK h, l : h = HighBits(hrp) /\ l = LowBits(hrp)
  OBVIOUS
<1>5. h \in [1..n -> Five] /\ l \in [1..n -> Five]
  BY ONLY <1>1, <1>4, h = HighBits(hrp), l = LowBits(hrp) DEF HighBits, LowBits
<1>6. h \in Seq(Five) /\ l \in Seq(Five)
  BY ONLY <1>1, <1>5
<1> QED
  BY ONLY <1>1, <1>2, <1>3, <1>6, n = Len(hrp), h = HighBits(hrp), l = LowBits(hrp)

\* What the register takes before the checksum.
Taken(hrp, data) == HighBits(hrp) \o <<0>> \o LowBits(hrp) \o data

\* What the register takes are groups, and it stays a register.
LEMMA TakenType ==
  ASSUME NEW hrp \in Seq(Small), NEW data \in Seq(Five)
  PROVE  Taken(hrp, data) \in Seq(Five) /\ Polymod(One, Taken(hrp, data)) \in Register
<1> PICK a, b, c : a = HighBits(hrp) /\ b = <<0>> /\ c = LowBits(hrp)
  OBVIOUS
<1>1. a \in Seq(Five) /\ b \in Seq(Five) /\ c \in Seq(Five)
  BY SmallPrefix DEF Five
<1>2. a \o b \in Seq(Five)
  BY ONLY <1>1, ConcatProperties
<1>3. (a \o b) \o c \in Seq(Five)
  BY ONLY <1>1, <1>2, ConcatProperties
<1>4. ((a \o b) \o c) \o data \in Seq(Five)
  BY ONLY <1>3, data \in Seq(Five), ConcatProperties
<1>5. Taken(hrp, data) \in Seq(Five)
  BY <1>4 DEF Taken
<1> QED
  BY <1>5, GeneratorsAreRegisters, PolymodType

\* The checksum of data is a register, and data with it are accepted.
LEMMA ChecksumAccepted ==
  ASSUME NEW hrp \in Seq(Small), NEW data \in Seq(Five)
  PROVE  /\ bech32Checksum(hrp, data) \in Register
         /\ bech32Polymod(hrp, data, bech32Checksum(hrp, data)) = One
<1> PICK r : r = Polymod(One, Taken(hrp, data))
  OBVIOUS
<1>1. r \in Register
  BY TakenType
<1>2. bech32Checksum(hrp, data) = XorDigits(Polymod(r, NilChecksum), One)
  BY DEF bech32Checksum, bech32Polymod, Taken
<1>3. bech32Polymod(hrp, data, bech32Checksum(hrp, data)) = Polymod(r, bech32Checksum(hrp, data))
  BY DEF bech32Polymod, Taken
<1> QED
  BY <1>1, <1>2, <1>3, ChecksumVerifies

\* The payload with its checksum.
Whole(hrp, data) == data \o bech32Checksum(hrp, data)

\* The payload with its checksum is accepted.
LEMMA WholeAccepted ==
  ASSUME NEW hrp \in Seq(Small), NEW data \in Seq(Five)
  PROVE  /\ Whole(hrp, data) \in Seq(Five) /\ Len(Whole(hrp, data)) = Len(data) + 6
         /\ SubSeq(Whole(hrp, data), 1, Len(Whole(hrp, data)) - 6) = data
         /\ bech32VerifyChecksum(hrp, Whole(hrp, data))
<1> PICK c, w, n : c = bech32Checksum(hrp, data) /\ w = Whole(hrp, data) /\ n = Len(data)
  OBVIOUS
<1>1. c \in Seq(Five) /\ Len(c) = 6
  <2>1. c \in Register
    BY ChecksumAccepted
  <2> QED
    BY <2>1, RegisterIsSeq
<1>2. n \in Nat
  BY LenProperties
<1>3. w = data \o c
  BY DEF Whole
<1>4. /\ w \in Seq(Five) /\ Len(w) = n + 6
      /\ \A i \in 1..n + 6 : w[i] = IF i <= n THEN data[i] ELSE c[i - n]
  <2>1. /\ data \o c \in Seq(Five) /\ Len(data \o c) = Len(data) + Len(c)
        /\ \A i \in 1..Len(data) + Len(c) : (data \o c)[i] = IF i <= Len(data) THEN data[i] ELSE c[i - Len(data)]
    BY <1>1, ConcatProperties
  <2> QED
    BY ONLY <1>1, <1>3, <2>1, n = Len(data)
<1> PICK front, back : front = SubSeq(w, 1, n) /\ back = SubSeq(w, n + 1, n + 6)
  OBVIOUS
<1>5. front = data
  <2>1. \A i \in 1..n : w[i] \in Five /\ w[i] = data[i]
    <3>1. \A i \in 1..n : data[i] \in Five
      BY ElementOfSeq
    <3> QED
      BY <1>2, <1>4, <3>1
  <2>2. front \in Seq(Five) /\ Len(front) = n /\ \A i \in 1..n : front[i] = w[i]
    <3>1. /\ front \in Seq(Five) /\ Len(front) = IF 1 <= n THEN n - 1 + 1 ELSE 0
          /\ \A i \in 1..n - 1 + 1 : front[i] = w[1 + i - 1]
      BY <1>2, <2>1, SubSeqProperties
    <3> QED
      BY <1>2, <3>1
  <2>3. \A i \in 1..Len(front) : front[i] = data[i]
    BY <2>1, <2>2
  <2> QED
    BY <2>2, <2>3, SeqEqual
<1>6. back = c
  <2>1. \A i \in n + 1..n + 6 : w[i] \in Five
    <3>1. \A i \in 1..n + 6 : w[i] \in Five
      BY <1>4, ElementOfSeq
    <3> QED
      BY <1>2, <3>1
  <2>2. back \in Seq(Five) /\ Len(back) = 6 /\ \A i \in 1..6 : back[i] = w[n + i]
    <3>1. /\ back \in Seq(Five) /\ Len(back) = IF n + 1 <= n + 6 THEN n + 6 - (n + 1) + 1 ELSE 0
          /\ \A i \in 1..n + 6 - (n + 1) + 1 : back[i] = w[n + 1 + i - 1]
      BY <1>2, <2>1, SubSeqProperties
    <3>2. n + 6 - (n + 1) + 1 = 6 /\ \A i \in 1..6 : n + 1 + i - 1 = n + i
      BY <1>2
    <3> QED
      BY <1>2, <3>1, <3>2
  <2>3. \A i \in 1..6 : n + i \in 1..n + 6 /\ ~(n + i <= n) /\ n + i - n = i
    BY <1>2
  <2>4. ASSUME NEW i \in 1..6 PROVE back[i] = c[i]
    <3>1. back[i] = w[n + i]
      BY <2>2
    <3> PICK m : m = n + i
      OBVIOUS
    <3>2. m \in 1..n + 6 /\ ~(m <= n) /\ m - n = i
      BY <2>3
    <3>3. w[m] = IF m <= n THEN data[m] ELSE c[m - n]
      BY ONLY <1>4, <3>2
    <3> QED
      BY ONLY <3>1, <3>2, <3>3, m = n + i
  <2>5. Len(back) = Len(c) /\ \A i \in 1..Len(back) : back[i] = c[i]
    BY <1>1, <2>2, <2>4
  <2> QED
    BY ONLY <1>1, <2>2, <2>5, SeqEqual
<1>7. Len(w) - 6 = n /\ Len(w) - 5 = n + 1
  BY <1>2, <1>4
<1>8. SubSeq(w, 1, Len(w) - 6) = data /\ SubSeq(w, Len(w) - 5, Len(w)) = c
  BY ONLY <1>4, <1>5, <1>6, <1>7, front = SubSeq(w, 1, n), back = SubSeq(w, n + 1, n + 6)
<1>9. bech32VerifyChecksum(hrp, w)
  <2>1. bech32Polymod(hrp, data, c) = One
    BY ChecksumAccepted
  <2>2. bech32Polymod(hrp, SubSeq(w, 1, Len(w) - 6), SubSeq(w, Len(w) - 5, Len(w))) = One
    BY ONLY <1>8, <2>1
  <2> QED
    BY ONLY <2>2 DEF bech32VerifyChecksum
<1> QED
  BY <1>4, <1>8, <1>9

\* The characters a text is made of.
Printable == 33..126

\* A prefix, a separator and the characters of groups.
Written(hrp, groups) == hrp \o <<Separator>> \o ToChars(groups)

\* The characters of groups, and back.
LEMMA CharsAndBack ==
  ASSUME NEW g \in Seq(Five)
  PROVE  /\ ToChars(g) \in Seq(Printable) /\ Len(ToChars(g)) = Len(g)
         /\ \A k \in 1..Len(g) : ToChars(g)[k] \in Printable /\ ToChars(g)[k] \notin 65..90 /\ ToChars(g)[k] # Separator
         /\ toBytes(ToChars(g)) = g
<1> PICK n, c : n = Len(g) /\ c = ToChars(g)
  OBVIOUS
<1>1. n \in Nat /\ DOMAIN g = 1..n /\ g = [k \in 1..n |-> g[k]] /\ \A k \in 1..n : g[k] \in Five
  <2>1. g \in [1..n -> Five] /\ n \in Nat
    BY LenProperties
  <2> QED
    BY ONLY <2>1
<1>2. c = [k \in 1..n |-> charset[g[k] + 1]]
  BY ONLY <1>1, c = ToChars(g) DEF ToChars
<1>3. \A k \in 1..n : c[k] = charset[g[k] + 1]
  BY ONLY <1>2
<1>4. ASSUME NEW k \in 1..n
      PROVE  c[k] \in Printable /\ c[k] \notin 65..90 /\ c[k] # Separator /\ CharsetIndex[c[k]] = g[k]
  <2> PICK v : v = g[k]
    OBVIOUS
  <2>1. v \in Five /\ c[k] = charset[v + 1]
    BY ONLY <1>1, <1>3, k \in 1..n, v = g[k]
  <2>2. charset[v + 1] \in Printable /\ charset[v + 1] \notin 65..90 /\ charset[v + 1] # Separator
    BY ONLY <2>1, CharsOfGroups DEF Printable
  <2>3. CharsetIndex[charset[v + 1]] = v
    BY ONLY <2>1, IndexOfChar
  <2> QED
    BY ONLY <2>1, <2>2, <2>3, v = g[k]
<1>5. c \in [1..n -> Printable]
  BY ONLY <1>2, <1>3, <1>4
<1>6. c \in Seq(Printable) /\ Len(c) = n /\ DOMAIN c = 1..n
  BY ONLY <1>1, <1>5
<1>7. toBytes(c) = [k \in 1..n |-> CharsetIndex[c[k]]]
  BY ONLY <1>6 DEF toBytes
<1>8. toBytes(c) = g
  BY ONLY <1>1, <1>4, <1>7
<1> QED
  BY ONLY <1>4, <1>6, <1>8, n = Len(g), c = ToChars(g)

\* Such a text, letter by letter.
LEMMA WrittenText ==
  ASSUME NEW hrp \in Seq(Small), NEW g \in Seq(Five), NEW t, t = Written(hrp, g)
  PROVE  /\ t \in Seq(Printable) /\ Len(t) = Len(hrp) + 1 + Len(g)
         /\ \A k \in 1..Len(hrp) : t[k] = hrp[k]
         /\ t[Len(hrp) + 1] = Separator
         /\ \A k \in 1..Len(g) : t[Len(hrp) + 1 + k] = ToChars(g)[k]
<1> PICK c, u, s : c = ToChars(g) /\ s = <<Separator>> /\ u = hrp \o s
  OBVIOUS
<1>1. hrp \in Seq(Printable)
  <2>1. Small \subseteq Printable
    BY DEF Small, Printable
  <2> QED
    BY <2>1, SeqMonotonic
<1>2. s \in Seq(Printable) /\ Len(s) = 1 /\ s[1] = Separator
  <2>1. Separator \in Printable
    BY DEF Separator, Printable
  <2> QED
    BY <2>1
<1>3. c \in Seq(Printable) /\ Len(c) = Len(g)
  BY CharsAndBack
<1>4. /\ Len(hrp) \in Nat /\ u \in Seq(Printable) /\ Len(u) = Len(hrp) + Len(s)
      /\ (\A k \in 1..Len(hrp) : u[k] = hrp[k]) /\ \A k \in 1..Len(s) : u[Len(hrp) + k] = s[k]
  <2>1. /\ Len(hrp) \in Nat /\ hrp \o s \in Seq(Printable) /\ Len(hrp \o s) = Len(hrp) + Len(s)
        /\ (\A k \in 1..Len(hrp) : (hrp \o s)[k] = hrp[k]) /\ \A k \in 1..Len(s) : (hrp \o s)[Len(hrp) + k] = s[k]
    BY <1>1, <1>2, TwoParts
  <2> QED
    BY ONLY <2>1, u = hrp \o s, Zenon
<1>5. t = u \o c
  BY DEF Written
<1>6. /\ Len(c) \in Nat /\ t \in Seq(Printable) /\ Len(t) = Len(u) + Len(c)
      /\ (\A k \in 1..Len(u) : t[k] = u[k]) /\ \A k \in 1..Len(c) : t[Len(u) + k] = c[k]
  <2>1. /\ Len(c) \in Nat /\ u \o c \in Seq(Printable) /\ Len(u \o c) = Len(u) + Len(c)
        /\ (\A k \in 1..Len(u) : (u \o c)[k] = u[k]) /\ \A k \in 1..Len(c) : (u \o c)[Len(u) + k] = c[k]
    <3>1. u \in Seq(Printable) /\ c \in Seq(Printable)
      BY <1>3, <1>4
    <3> QED
      BY ONLY <3>1, TwoParts
  <2> QED
    BY ONLY <2>1, <1>5, Zenon
<1> PICK l, m : l = Len(hrp) /\ m = Len(g)
  OBVIOUS
<1>7. Len(u) = l + 1 /\ u[l + 1] = Separator /\ l \in Nat /\ Len(c) = m
  BY ONLY <1>2, <1>3, <1>4, l = Len(hrp), m = Len(g)
<1>8. Len(t) = l + 1 + m
  BY ONLY <1>6, <1>7
<1>9. \A k \in 1..l : t[k] = hrp[k]
  <2> TAKE k \in 1..l
  <2>1. k \in 1..l + 1
    BY <1>7
  <2> QED
    BY ONLY <1>4, <1>6, <1>7, <2>1, k \in 1..l, l = Len(hrp)
<1>10. t[l + 1] = Separator
  <2>1. l + 1 \in 1..l + 1
    BY <1>7
  <2> QED
    BY ONLY <1>6, <1>7, <2>1
<1>11. \A k \in 1..m : t[l + 1 + k] = c[k]
  BY ONLY <1>6, <1>7
<1> QED
  BY ONLY <1>6, <1>8, <1>9, <1>10, <1>11, l = Len(hrp), m = Len(g), c = ToChars(g)

\* A part of a sequence that is known letter by letter.
LEMMA PartIs ==
  ASSUME NEW S, NEW t, NEW p \in Seq(S), NEW i \in Nat,
         \A k \in 1..Len(p) : t[i + k] = p[k]
  PROVE  SubSeq(t, i + 1, i + Len(p)) = p
<1> PICK n, s : n = Len(p) /\ s = SubSeq(t, i + 1, i + n)
  OBVIOUS
<1>1. n \in Nat /\ \A k \in 1..n : p[k] \in S
  BY LenProperties, ElementOfSeq
<1>2. ASSUME NEW j \in i + 1..i + n PROVE t[j] \in S
  <2> PICK k : k = j - i
    OBVIOUS
  <2>1. k \in 1..n /\ j = i + k
    BY ONLY <1>1, i \in Nat, j \in i + 1..i + n, k = j - i
  <2> QED
    BY <1>1, <2>1
<1>3. /\ s \in Seq(S) /\ Len(s) = IF i + 1 <= i + n THEN i + n - (i + 1) + 1 ELSE 0
      /\ \A k \in 1..i + n - (i + 1) + 1 : s[k] = t[i + 1 + k - 1]
  BY <1>1, <1>2, SubSeqProperties
<1>4. i + n - (i + 1) + 1 = n /\ (IF i + 1 <= i + n THEN i + n - (i + 1) + 1 ELSE 0) = n
  BY <1>1
<1>5. ASSUME NEW k \in 1..n PROVE s[k] = p[k]
  <2>1. i + 1 + k - 1 = i + k
    OBVIOUS
  <2> QED
    BY <1>3, <1>4, <2>1
<1>6. Len(s) = Len(p) /\ \A k \in 1..Len(s) : s[k] = p[k]
  BY ONLY <1>3, <1>4, <1>5, n = Len(p)
<1> QED
  BY ONLY <1>3, <1>6, p \in Seq(S), n = Len(p), s = SubSeq(t, i + 1, i + n), SeqEqual

\* What is written is read.
LEMMA ReadWritten ==
  ASSUME NEW hrp \in Seq(Small), Len(hrp) >= 1, NEW g \in Seq(Five), Len(g) >= 6,
         NEW t, t = Written(hrp, g), Len(t) <= MaxBechStrLength, bech32VerifyChecksum(hrp, g)
  PROVE  Decode(t) = [ok |-> TRUE, hrp |-> hrp, data |-> SubSeq(g, 1, Len(g) - 6)]
<1> PICK l, m, c : l = Len(hrp) /\ m = Len(g) /\ c = ToChars(g)
  OBVIOUS
<1>1. l \in Nat /\ l >= 1 /\ m \in Nat /\ m >= 6
  BY LenProperties
<1>2. /\ t \in Seq(Printable) /\ Len(t) = l + 1 + m /\ (\A k \in 1..l : t[k] = hrp[k])
      /\ t[l + 1] = Separator /\ \A k \in 1..m : t[l + 1 + k] = c[k]
  BY WrittenText
<1>3. /\ c \in Seq(Printable) /\ Len(c) = m /\ toBytes(c) = g
      /\ \A k \in 1..m : c[k] \in Printable /\ c[k] \notin 65..90 /\ c[k] # Separator
  BY CharsAndBack
<1>4. \A k \in 1..l : hrp[k] \in Small
  BY ElementOfSeq
<1> PICK n : n = l + 1 + m
  OBVIOUS
<1>5. n \in Nat /\ Len(t) = n /\ DOMAIN t = 1..n /\ t = [k \in 1..n |-> t[k]]
  <2>1. DOMAIN t = 1..Len(t) /\ t \in [1..Len(t) -> Printable]
    BY <1>2, LenProperties
  <2>2. n \in Nat /\ Len(t) = n
    BY <1>1, <1>2
  <2> QED
    BY ONLY <2>1, <2>2
<1>6. ASSUME NEW k \in 1..n
      PROVE  k \in 1..l \/ k = l + 1 \/ \E j \in 1..m : k = l + 1 + j
  <2>1. k > l + 1 => k - (l + 1) \in 1..m /\ k = l + 1 + (k - (l + 1))
    BY <1>1
  <2>2. k > l + 1 => \E j \in 1..m : k = l + 1 + j
    BY ONLY <2>1
  <2> QED
    BY <1>1, <2>2
<1>7. ASSUME NEW k \in 1..n
      PROVE  t[k] \in 33..126 /\ t[k] \notin 65..90 /\ (t[k] = Separator => k <= l + 1)
  <2>1. CASE k \in 1..l
    <3>1. t[k] \in Small /\ k <= l + 1
      BY <1>1, <1>2, <1>4, <2>1
    <3>2. \A x \in Small : x \in 33..126 /\ x \notin 65..90
      BY DEF Small
    <3> QED
      BY ONLY <3>1, <3>2
  <2>2. CASE k = l + 1
    <3>1. t[k] = Separator /\ k <= l + 1
      BY <1>1, <1>2, <2>2
    <3>2. Separator \in 33..126 /\ Separator \notin 65..90
      BY DEF Separator
    <3> QED
      BY ONLY <3>1, <3>2
  <2>3. ASSUME NEW j \in 1..m, k = l + 1 + j PROVE t[k] \in Printable /\ t[k] \notin 65..90 /\ t[k] # Separator
    BY ONLY <1>2, <1>3, <2>3, j \in 1..m
  <2>4. CASE \E j \in 1..m : k = l + 1 + j
    BY <2>3, <2>4 DEF Printable
  <2> QED
    BY <1>6, <2>1, <2>2, <2>4
<1>8. ToLower(t) = t
  <2>1. ToLower(t) = [k \in 1..n |-> IF t[k] \in 65..90 THEN t[k] + 32 ELSE t[k]]
    BY ONLY <1>5 DEF ToLower
  <2>2. \A k \in 1..n : (IF t[k] \in 65..90 THEN t[k] + 32 ELSE t[k]) = t[k]
    BY ONLY <1>7
  <2> QED
    BY ONLY <1>5, <2>1, <2>2
<1>9. ~HasUpper(t) /\ ~\E k \in DOMAIN t : t[k] \notin 33..126
  <2>1. DOMAIN t = 1..n
    BY ONLY <1>5
  <2>2. ~\E k \in DOMAIN t : t[k] \notin 33..126
    BY ONLY <1>7, <2>1
  <2>3. ~\E k \in DOMAIN t : t[k] \in 65..90
    BY ONLY <1>7, <2>1
  <2> QED
    BY ONLY <2>2, <2>3 DEF HasUpper
<1>10. LastSeparator(t) = l + 1
  <2> DEFINE ones == {k \in DOMAIN t : t[k] = Separator}
             P(k) == \A j \in ones : j <= k
  <2>1. l + 1 \in ones /\ l + 1 \in Nat
    BY <1>1, <1>2, <1>5
  <2>2. \A j \in ones : j \in Nat /\ j <= l + 1
    BY <1>5, <1>7
  <2>3. LastSeparator(t) = IF ones = {} THEN 0 ELSE CHOOSE k \in ones : P(k)
    BY DEF LastSeparator
  <2> HIDE DEF ones
  <2>4. P(l + 1)
    BY <2>2
  <2>5. \A k \in ones : P(k) => k = l + 1
    <3> TAKE k \in ones
    <3>1. P(k) => l + 1 <= k
      BY <2>1
    <3> QED
      BY <2>1, <2>2, <3>1
  <2>6. (CHOOSE k \in ones : P(k)) = l + 1
    <3> HIDE DEF P
    <3> QED
      BY ONLY <2>1, <2>4, <2>5
  <2> QED
    BY <2>1, <2>3, <2>6
<1>11. SubSeq(t, 1, (l + 1) - 1) = hrp
  <2>1. \A k \in 1..Len(hrp) : t[0 + k] = hrp[k]
    BY <1>2
  <2>2. SubSeq(t, 0 + 1, 0 + Len(hrp)) = hrp
    BY <2>1, PartIs
  <2> QED
    BY <1>1, <2>2
<1>12. SubSeq(t, l + 1 + 1, Len(t)) = c
  <2>1. \A k \in 1..Len(c) : t[(l + 1) + k] = c[k]
    BY ONLY <1>2, <1>3
  <2>2. SubSeq(t, (l + 1) + 1, (l + 1) + Len(c)) = c
    BY <1>1, <1>3, <2>1, PartIs
  <2> QED
    BY ONLY <1>2, <1>3, <2>2
<1>13. ~\E k \in DOMAIN g : g[k] = 32
  <2>1. \A k \in DOMAIN g : g[k] \in Five
    BY LenProperties
  <2>2. 32 \notin Five
    BY DEF Five
  <2> QED
    BY ONLY <2>1, <2>2
<1>14. ~(Len(t) < 8) /\ ~(l + 1 < 2) /\ ~(l + 1 + 6 > Len(t))
  BY <1>1, <1>2
<1>15. DecodeNoLimit(t) = [ok |-> TRUE, hrp |-> hrp, data |-> SubSeq(g, 1, Len(g) - 6)]
  <2>1. /\ SubSeq(ToLower(t), 1, LastSeparator(ToLower(t)) - 1) = hrp
        /\ toBytes(SubSeq(ToLower(t), LastSeparator(ToLower(t)) + 1, Len(ToLower(t)))) = g
    <3>1. toBytes(c) = g
      BY ONLY <1>3
    <3>2. LastSeparator(ToLower(t)) = l + 1
      BY ONLY <1>8, <1>10
    <3>3. SubSeq(ToLower(t), 1, LastSeparator(ToLower(t)) - 1) = hrp
      BY ONLY <1>8, <1>11, <3>2
    <3>4. SubSeq(ToLower(t), LastSeparator(ToLower(t)) + 1, Len(ToLower(t))) = c
      BY ONLY <1>8, <1>12, <3>2
    <3> QED
      BY ONLY <3>1, <3>3, <3>4
  <2>2. /\ ~(Len(t) < 8) /\ ~(LastSeparator(ToLower(t)) < 2) /\ ~(LastSeparator(ToLower(t)) + 6 > Len(t))
    BY ONLY <1>8, <1>10, <1>14
  <2> QED
    BY ONLY <1>9, <1>13, <2>1, <2>2, bech32VerifyChecksum(hrp, g) DEF DecodeNoLimit
<1> QED
  <2>1. ~(Len(t) > MaxBechStrLength)
    BY <1>5, AddressAssumption
  <2> QED
    BY ONLY <1>15, <2>1 DEF Decode

\* A payload that is encoded under a prefix is decoded with it.
LEMMA DecodeOfEncode ==
  ASSUME NEW hrp \in Seq(Small), Len(hrp) >= 1, NEW data \in Seq(Five),
         Len(hrp) + Len(data) + 7 <= MaxBechStrLength
  PROVE  /\ Encode(hrp, data).text = Written(hrp, Whole(hrp, data))
         /\ Encode(hrp, data).text \in Seq(Printable)
         /\ Len(Encode(hrp, data).text) >= 1
         /\ \A k \in 1..Len(hrp) : Encode(hrp, data).text[k] = hrp[k]
         /\ Decode(Encode(hrp, data).text) = [ok |-> TRUE, hrp |-> hrp, data |-> data]
<1> PICK t, g : t = Encode(hrp, data).text /\ g = Whole(hrp, data)
  OBVIOUS
<1>1. ~\E k \in DOMAIN data : data[k] \notin Five
  BY LenProperties
<1>2. ToLower(hrp) = hrp /\ Len(hrp) \in Nat /\ Len(data) \in Nat
  BY SmallPrefix, LenProperties
<1>3. t = Written(hrp, g)
  <2>1. Encode(hrp, data).text = ToLower(hrp) \o <<Separator>>
                     \o ToChars(data \o bech32Checksum(ToLower(hrp), data))
    BY ONLY <1>1 DEF Encode
  <2> QED
    BY ONLY <1>2, <2>1, t = Encode(hrp, data).text, g = Whole(hrp, data) DEF Written, Whole
<1>4. g \in Seq(Five) /\ Len(g) = Len(data) + 6 /\ SubSeq(g, 1, Len(g) - 6) = data /\ bech32VerifyChecksum(hrp, g)
  BY WholeAccepted
<1>5. t \in Seq(Printable) /\ Len(t) = Len(hrp) + 1 + Len(g) /\ \A k \in 1..Len(hrp) : t[k] = hrp[k]
  BY <1>3, <1>4, WrittenText
<1>6. Len(g) >= 6 /\ Len(t) >= 1 /\ Len(t) <= MaxBechStrLength
  BY <1>2, <1>4, <1>5, AddressAssumption
<1>7. Decode(t) = [ok |-> TRUE, hrp |-> hrp, data |-> SubSeq(g, 1, Len(g) - 6)]
  BY <1>3, <1>4, <1>6, ReadWritten
<1> QED
  BY ONLY <1>3, <1>4, <1>5, <1>6, <1>7, t = Encode(hrp, data).text, g = Whole(hrp, data)

-----------------------------------------------------------------------------
(* From bytes to groups and back *)

\* A part of a sequence, by where it begins and how long it is.
LEMMA Slice ==
  ASSUME NEW S, NEW t \in Seq(S), NEW i \in Nat, NEW w \in Nat, i + w <= Len(t)
  PROVE  /\ SubSeq(t, i + 1, i + w) \in Seq(S) /\ Len(SubSeq(t, i + 1, i + w)) = w
         /\ \A j \in 1..w : SubSeq(t, i + 1, i + w)[j] = t[i + j]
<1> PICK s : s = SubSeq(t, i + 1, i + w)
  OBVIOUS
<1>1. \A j \in i + 1..i + w : t[j] \in S
  <2>1. \A j \in 1..Len(t) : t[j] \in S
    BY ElementOfSeq
  <2>2. Len(t) \in Nat
    BY LenProperties
  <2> QED
    BY <2>1, <2>2
<1>2. /\ s \in Seq(S) /\ Len(s) = IF i + 1 <= i + w THEN i + w - (i + 1) + 1 ELSE 0
      /\ \A j \in 1..i + w - (i + 1) + 1 : s[j] = t[i + 1 + j - 1]
  BY <1>1, SubSeqProperties
<1>3. i + w - (i + 1) + 1 = w /\ (IF i + 1 <= i + w THEN i + w - (i + 1) + 1 ELSE 0) = w
  OBVIOUS
<1>4. ASSUME NEW j \in 1..w PROVE s[j] = t[i + j]
  <2>1. i + 1 + j - 1 = i + j
    OBVIOUS
  <2> QED
    BY <1>2, <1>3, <2>1
<1> QED
  BY ONLY <1>2, <1>3, <1>4, s = SubSeq(t, i + 1, i + w)

\* Five bits of a longer sequence.
LEMMA FiveOfBits ==
  ASSUME NEW t \in Seq({0, 1}), NEW i \in Nat, i + 5 <= Len(t)
  PROVE  /\ ValueOf(SubSeq(t, i + 1, i + 5)) \in Five
         /\ \A j \in 1..5 : Bit(ValueOf(SubSeq(t, i + 1, i + 5)), 5, j) = t[i + j]
<1> PICK s, v : s = SubSeq(t, i + 1, i + 5) /\ v = ValueOf(s)
  OBVIOUS
<1>1. s \in Seq({0, 1}) /\ Len(s) = 5 /\ \A j \in 1..5 : s[j] = t[i + j]
  <2>1. 5 \in Nat
    OBVIOUS
  <2> QED
    BY <2>1, Slice
<1>2. v = 16 * s[1] + 8 * s[2] + 4 * s[3] + 2 * s[4] + s[5]
  BY <1>1, ValueOfFive
<1>3. s[1] \in {0, 1} /\ s[2] \in {0, 1} /\ s[3] \in {0, 1} /\ s[4] \in {0, 1} /\ s[5] \in {0, 1}
  <2>1. \A k \in 1..5 : s[k] \in {0, 1}
    BY <1>1, ValueOfFive
  <2> QED
    BY ONLY <2>1
<1>4. /\ v \in Five
      /\ Bit(v, 5, 1) = s[1] /\ Bit(v, 5, 2) = s[2] /\ Bit(v, 5, 3) = s[3] /\ Bit(v, 5, 4) = s[4] /\ Bit(v, 5, 5) = s[5]
  <2> PICK a, b, c, d, e : a = s[1] /\ b = s[2] /\ c = s[3] /\ d = s[4] /\ e = s[5]
    OBVIOUS
  <2>1. a \in {0, 1} /\ b \in {0, 1} /\ c \in {0, 1} /\ d \in {0, 1} /\ e \in {0, 1}
    BY ONLY <1>3, a = s[1], b = s[2], c = s[3], d = s[4], e = s[5]
  <2>2. v = FiveOf(a, b, c, d, e)
    BY ONLY <1>2, a = s[1], b = s[2], c = s[3], d = s[4], e = s[5] DEF FiveOf
  <2>3. v \in Five /\ Bit(v, 5, 1) = a /\ Bit(v, 5, 2) = b /\ Bit(v, 5, 3) = c /\ Bit(v, 5, 4) = d /\ Bit(v, 5, 5) = e
    BY ONLY <2>1, <2>2, BitsAreFive
  <2> QED
    BY ONLY <2>3, a = s[1], b = s[2], c = s[3], d = s[4], e = s[5]
<1>5. ASSUME NEW j \in 1..5 PROVE Bit(v, 5, j) = t[i + j]
  <2>1. Bit(v, 5, j) = s[j]
    BY ONLY <1>4, j \in 1..5
  <2> QED
    BY <1>1, <2>1
<1> QED
  BY <1>4, <1>5

\* Eight bits of a longer sequence, which are those of a byte.
LEMMA EightOfBits ==
  ASSUME NEW t \in Seq({0, 1}), NEW i \in Nat, i + 8 <= Len(t), NEW x \in Byte,
         \A j \in 1..8 : t[i + j] = Bit(x, 8, j)
  PROVE  ValueOf(SubSeq(t, i + 1, i + 8)) = x
<1> PICK s, v : s = SubSeq(t, i + 1, i + 8) /\ v = ValueOf(s)
  OBVIOUS
<1>1. s \in Seq({0, 1}) /\ Len(s) = 8 /\ \A j \in 1..8 : s[j] = t[i + j]
  <2>1. 8 \in Nat
    OBVIOUS
  <2> QED
    BY ONLY <2>1, t \in Seq({0, 1}), i \in Nat, i + 8 <= Len(t), s = SubSeq(t, i + 1, i + 8), Slice
<1>2. v = 128 * s[1] + 64 * s[2] + 32 * s[3] + 16 * s[4] + 8 * s[5] + 4 * s[6] + 2 * s[7] + s[8]
  BY <1>1, ValueOfEight
<1>3. \A j \in 1..8 : s[j] = Bit(x, 8, j)
  BY <1>1
<1>4. /\ s[1] = Bit(x, 8, 1) /\ s[2] = Bit(x, 8, 2) /\ s[3] = Bit(x, 8, 3) /\ s[4] = Bit(x, 8, 4)
      /\ s[5] = Bit(x, 8, 5) /\ s[6] = Bit(x, 8, 6) /\ s[7] = Bit(x, 8, 7) /\ s[8] = Bit(x, 8, 8)
  BY ONLY <1>3
<1>5. x = 128 * Bit(x, 8, 1) + 64 * Bit(x, 8, 2) + 32 * Bit(x, 8, 3) + 16 * Bit(x, 8, 4)
            + 8 * Bit(x, 8, 5) + 4 * Bit(x, 8, 6) + 2 * Bit(x, 8, 7) + Bit(x, 8, 8)
  BY ByteIsItsBits
<1> QED
  BY ONLY <1>2, <1>4, <1>5, s = SubSeq(t, i + 1, i + 8), v = ValueOf(s)

\* The bits of bytes.
LEMMA BitsOfBytes ==
  ASSUME NEW raw \in Seq(Byte)
  PROVE  /\ BitsOf(raw, 8) \in Seq({0, 1}) /\ Len(BitsOf(raw, 8)) = 8 * Len(raw)
         /\ \A k \in 1..Len(raw), j \in 1..8 : BitsOf(raw, 8)[8 * (k - 1) + j] = Bit(raw[k], 8, j)
<1> PICK n, b : n = Len(raw) /\ b = BitsOf(raw, 8)
  OBVIOUS
<1>1. n \in Nat /\ \A k \in 1..n : raw[k] \in Byte
  BY LenProperties, ElementOfSeq
<1>2. b = [i \in 1..n * 8 |-> Bit(raw[(i - 1) \div 8 + 1], 8, ((i - 1) % 8) + 1)]
  BY DEF BitsOf
<1>3. n * 8 \in Nat /\ n * 8 = 8 * n
  BY <1>1
<1>4. ASSUME NEW i \in 1..n * 8 PROVE Bit(raw[(i - 1) \div 8 + 1], 8, ((i - 1) % 8) + 1) \in {0, 1}
  <2>1. (i - 1) \div 8 + 1 \in 1..n /\ ((i - 1) % 8) + 1 \in 1..8
    BY <1>1, <1>3
  <2> PICK x, j : x = raw[(i - 1) \div 8 + 1] /\ j = ((i - 1) % 8) + 1
    OBVIOUS
  <2>2. x \in Byte /\ j \in 1..8
    BY <1>1, <2>1
  <2>3. Bit(x, 8, j) \in {0, 1}
    BY ONLY <2>2, ByteIsItsBits
  <2> QED
    BY ONLY <2>3, x = raw[(i - 1) \div 8 + 1], j = ((i - 1) % 8) + 1
<1>5. b \in [1..n * 8 -> {0, 1}]
  BY ONLY <1>2, <1>4
<1>6. b \in Seq({0, 1}) /\ Len(b) = 8 * n
  BY ONLY <1>3, <1>5
<1>7. ASSUME NEW k \in 1..n, NEW j \in 1..8 PROVE b[8 * (k - 1) + j] = Bit(raw[k], 8, j)
  <2> PICK i : i = 8 * (k - 1) + j
    OBVIOUS
  <2>1. i \in 1..n * 8 /\ (i - 1) \div 8 + 1 = k /\ ((i - 1) % 8) + 1 = j
    <3>1. k \in Nat /\ k >= 1 /\ k <= n /\ j \in Nat /\ j >= 1 /\ j <= 8
      BY <1>1
    <3> QED
      BY ONLY <1>1, <3>1, i = 8 * (k - 1) + j
  <2>2. b[i] = Bit(raw[(i - 1) \div 8 + 1], 8, ((i - 1) % 8) + 1)
    BY ONLY <1>2, <2>1
  <2> QED
    BY ONLY <2>1, <2>2, i = 8 * (k - 1) + j
<1> QED
  BY ONLY <1>6, <1>7, n = Len(raw), b = BitsOf(raw, 8)

\* The bits of bytes, filled up to groups of five: q groups, with p zeros.
Filled(raw, p) == BitsOf(raw, 8) \o [k \in 1..p |-> 0]

\* How many zeros fill up the bits of n bytes.
Filling(n) == IF (8 * n) % 5 > 0 THEN 5 - ((8 * n) % 5) ELSE 0

\* The bits with the zeros make whole groups, and no further byte.
LEMMA FillingFits ==
  ASSUME NEW n \in Nat
  PROVE  /\ Filling(n) \in 0..4 /\ (8 * n + Filling(n)) % 5 = 0
         /\ 8 * n + Filling(n) = 5 * ((8 * n + Filling(n)) \div 5)
         /\ (8 * n + Filling(n)) % 8 = Filling(n) /\ (8 * n + Filling(n)) \div 8 = n
         /\ (8 * n + Filling(n)) \div 5 = (8 * n + 4) \div 5
         /\ (8 * n + Filling(n)) \div 5 \in Nat
<1> PICK r, m, p : m = 8 * n /\ r = m % 5 /\ p = Filling(n)
  OBVIOUS
<1>1. m \in Nat /\ r \in 0..4 /\ p = (IF r > 0 THEN 5 - r ELSE 0)
  BY DEF Filling
<1>2. m = 5 * (m \div 5) + r /\ m \div 5 \in Nat
  BY <1>1
<1>3. p \in 0..4
  BY <1>1
<1>4. (m + p) % 5 = 0 /\ m + p = 5 * ((m + p) \div 5) /\ (m + p) \div 5 = (m + 4) \div 5 /\ (m + p) \div 5 \in Nat
  BY <1>1, <1>2
<1>5. (m + p) % 8 = p /\ (m + p) \div 8 = n
  BY ONLY <1>3, n \in Nat, m = 8 * n
<1> QED
  BY ONLY <1>3, <1>4, <1>5, m = 8 * n, p = Filling(n)

\* The filled bits, bit by bit.
LEMMA FilledBits ==
  ASSUME NEW raw \in Seq(Byte), NEW p \in 0..4
  PROVE  /\ Filled(raw, p) \in Seq({0, 1}) /\ Len(Filled(raw, p)) = 8 * Len(raw) + p
         /\ \A k \in 1..Len(raw), j \in 1..8 : Filled(raw, p)[8 * (k - 1) + j] = Bit(raw[k], 8, j)
         /\ \A j \in 1..p : Filled(raw, p)[8 * Len(raw) + j] = 0
         /\ p = 0 => Filled(raw, p) = BitsOf(raw, 8)
<1> PICK b, z, f, n : b = BitsOf(raw, 8) /\ z = [k \in 1..p |-> 0] /\ f = b \o z /\ n = Len(raw)
  OBVIOUS
<1>1. /\ b \in Seq({0, 1}) /\ Len(b) = 8 * n /\ n \in Nat
      /\ \A k \in 1..n, j \in 1..8 : b[8 * (k - 1) + j] = Bit(raw[k], 8, j)
  BY BitsOfBytes, LenProperties
<1>2. z \in Seq({0, 1}) /\ Len(z) = p /\ \A j \in 1..p : z[j] = 0
  OBVIOUS
<1>3. /\ f \in Seq({0, 1}) /\ Len(f) = Len(b) + Len(z)
      /\ (\A k \in 1..Len(b) : f[k] = b[k]) /\ \A k \in 1..Len(z) : f[Len(b) + k] = z[k]
  <2>1. b \in Seq({0, 1}) /\ z \in Seq({0, 1}) /\ f = b \o z
    BY <1>1, <1>2
  <2> QED
    BY ONLY <2>1, TwoParts
<1>4. ASSUME NEW k \in 1..n, NEW j \in 1..8 PROVE f[8 * (k - 1) + j] = Bit(raw[k], 8, j)
  <2> PICK i : i = 8 * (k - 1) + j
    OBVIOUS
  <2>1. i \in 1..Len(b)
    <3>1. k \in Nat /\ k >= 1 /\ k <= n /\ j \in Nat /\ j >= 1 /\ j <= 8
      <4>1. n \in Nat
        BY <1>1
      <4> QED
        BY ONLY <4>1, k \in 1..n, j \in 1..8
    <3> QED
      BY ONLY <1>1, <3>1, i = 8 * (k - 1) + j
  <2>2. f[i] = b[i]
    BY ONLY <1>3, <2>1
  <2>3. b[i] = Bit(raw[k], 8, j)
    BY ONLY <1>1, i = 8 * (k - 1) + j, k \in 1..n, j \in 1..8
  <2> QED
    BY ONLY <2>2, <2>3, i = 8 * (k - 1) + j
<1>5. \A j \in 1..p : f[8 * n + j] = 0
  BY ONLY <1>1, <1>2, <1>3
<1>6. p = 0 => f = b
  <2>1. p = 0 => z = <<>>
    <3>1. p = 0 => Len(z) = 0
      BY ONLY <1>2
    <3> QED
      BY ONLY <1>2, <3>1, EmptySeq
  <2>2. b \o <<>> = b
    BY ONLY <1>1, ConcatEmptySeq
  <2> QED
    BY ONLY <2>1, <2>2, f = b \o z
<1>7. f = Filled(raw, p)
  BY DEF Filled
<1> QED
  BY ONLY <1>1, <1>2, <1>3, <1>4, <1>5, <1>6, <1>7, b = BitsOf(raw, 8), n = Len(raw)

\* The groups of bits t.
Fives(t) == [k \in 1..Len(t) \div 5 |-> ValueOf(SubSeq(t, (k - 1) * 5 + 1, k * 5))]

\* The bytes of bits t.
Eights(t) == [k \in 1..Len(t) \div 8 |-> ValueOf(SubSeq(t, (k - 1) * 8 + 1, k * 8))]

\* What a conversion gives, to groups of five and to bytes.
LEMMA ToFives ==
  ASSUME NEW raw, NEW b, b = BitsOf(raw, 8), NEW t,
         t = IF Len(b) % 5 > 0 THEN b \o [k \in 1..5 - (Len(b) % 5) |-> 0] ELSE b
  PROVE  ConvertBits(raw, 8, 5, TRUE) = [ok |-> TRUE, groups |-> Fives(t)]
<1>1. 8 \in 1..8 /\ 5 \in 1..8
  OBVIOUS
<1> QED
  BY <1>1 DEF ConvertBits, Fives

\* The bits that fill no byte.
Lost(t) == SubSeq(t, Len(t) - (Len(t) % 8) + 1, Len(t))

\* The same from groups to bytes, if the bits that are lost are few and zero.
LEMMA ToEights ==
  ASSUME NEW g, NEW t, t = BitsOf(g, 5), ~(Len(t) % 8 > 4), ~\E k \in DOMAIN Lost(t) : Lost(t)[k] = 1
  PROVE  ConvertBits(g, 5, 8, FALSE) = [ok |-> TRUE, groups |-> Eights(t)]
<1>1. 8 \in 1..8 /\ 5 \in 1..8
  OBVIOUS
<1>2. ConvertBits(g, 5, 8, FALSE)
        = LET bits == BitsOf(g, 5)
              rest == Len(bits) % 8
              lost == SubSeq(bits, Len(bits) - rest + 1, Len(bits))
          IN  IF rest > 4 \/ \E k \in DOMAIN lost : lost[k] = 1
                THEN InvalidGroups
                ELSE [ok |-> TRUE,
                      groups |-> [k \in 1..Len(bits) \div 8 |-> ValueOf(SubSeq(bits, (k - 1) * 8 + 1, k * 8))]]
  BY ONLY <1>1 DEF ConvertBits
<1>3. ConvertBits(g, 5, 8, FALSE)
        = IF Len(BitsOf(g, 5)) % 8 > 4 \/ \E k \in DOMAIN Lost(BitsOf(g, 5)) : Lost(BitsOf(g, 5))[k] = 1
            THEN InvalidGroups ELSE [ok |-> TRUE, groups |-> Eights(BitsOf(g, 5))]
  BY ONLY <1>2 DEF Lost, Eights
<1> QED
  BY <1>3

\* The bits of the groups are the bits they were made of.
LEMMA FivesAndBack ==
  ASSUME NEW t \in Seq({0, 1}), NEW q \in Nat, Len(t) = 5 * q
  PROVE  /\ Fives(t) \in Seq(Five) /\ Len(Fives(t)) = q
         /\ BitsOf(Fives(t), 5) = t
<1> PICK g : g = Fives(t)
  OBVIOUS
<1>1. (5 * q) \div 5 = q
  OBVIOUS
<1>2. g = [k \in 1..q |-> ValueOf(SubSeq(t, (k - 1) * 5 + 1, k * 5))]
  BY ONLY <1>1, Len(t) = 5 * q, g = Fives(t) DEF Fives
<1>3. ASSUME NEW k \in 1..q
      PROVE  g[k] \in Five /\ \A j \in 1..5 : Bit(g[k], 5, j) = t[(k - 1) * 5 + j]
  <2> PICK i : i = (k - 1) * 5
    OBVIOUS
  <2>1. i \in Nat /\ i + 5 <= Len(t) /\ i + 5 = k * 5
    <3>1. k \in Nat /\ k >= 1 /\ k <= q
      OBVIOUS
    <3> QED
      BY ONLY <3>1, q \in Nat, Len(t) = 5 * q, i = (k - 1) * 5
  <2>2. g[k] = ValueOf(SubSeq(t, i + 1, i + 5))
    BY ONLY <1>2, <2>1, i = (k - 1) * 5, k \in 1..q
  <2>3. /\ ValueOf(SubSeq(t, i + 1, i + 5)) \in Five
        /\ \A j \in 1..5 : Bit(ValueOf(SubSeq(t, i + 1, i + 5)), 5, j) = t[i + j]
    BY <2>1, FiveOfBits
  <2> QED
    BY ONLY <2>2, <2>3, i = (k - 1) * 5
<1>4. g \in [1..q -> Five]
  BY ONLY <1>2, <1>3
<1>5. g \in Seq(Five) /\ Len(g) = q
  BY ONLY <1>4, q \in Nat
<1>6. BitsOf(g, 5) = [i \in 1..q * 5 |-> Bit(g[(i - 1) \div 5 + 1], 5, ((i - 1) % 5) + 1)]
  BY ONLY <1>5 DEF BitsOf
<1>7. ASSUME NEW i \in 1..q * 5 PROVE Bit(g[(i - 1) \div 5 + 1], 5, ((i - 1) % 5) + 1) = t[i]
  <2> PICK k, j : k = (i - 1) \div 5 + 1 /\ j = ((i - 1) % 5) + 1
    OBVIOUS
  <2>1. k \in 1..q /\ j \in 1..5 /\ (k - 1) * 5 + j = i
    <3>1. i \in Nat /\ i >= 1 /\ i <= q * 5
      OBVIOUS
    <3> QED
      BY ONLY <3>1, q \in Nat, k = (i - 1) \div 5 + 1, j = ((i - 1) % 5) + 1
  <2>2. Bit(g[k], 5, j) = t[(k - 1) * 5 + j]
    BY ONLY <1>3, <2>1
  <2> QED
    BY ONLY <2>1, <2>2, k = (i - 1) \div 5 + 1, j = ((i - 1) % 5) + 1
<1>8. t = [i \in 1..q * 5 |-> t[i]]
  <2>1. t \in [1..Len(t) -> {0, 1}]
    BY LenProperties
  <2>2. 5 * q = q * 5
    OBVIOUS
  <2> QED
    BY ONLY <2>1, <2>2, Len(t) = 5 * q
<1>9. BitsOf(g, 5) = t
  BY ONLY <1>6, <1>7, <1>8
<1> QED
  BY ONLY <1>5, <1>9, g = Fives(t)

\* The bytes of filled bits are the bytes they were made of.
LEMMA EightsOfFilled ==
  ASSUME NEW raw \in Seq(Byte), NEW p \in 0..4, (8 * Len(raw) + p) \div 8 = Len(raw)
  PROVE  Eights(Filled(raw, p)) = raw
<1> PICK n, t : n = Len(raw) /\ t = Filled(raw, p)
  OBVIOUS
<1>1. /\ t \in Seq({0, 1}) /\ Len(t) = 8 * n + p /\ n \in Nat
      /\ \A k \in 1..n, j \in 1..8 : t[8 * (k - 1) + j] = Bit(raw[k], 8, j)
  BY FilledBits, LenProperties
<1>2. Len(t) \div 8 = n
  BY <1>1
<1>3. Eights(t) = [k \in 1..n |-> ValueOf(SubSeq(t, (k - 1) * 8 + 1, k * 8))]
  BY ONLY <1>2 DEF Eights
<1>4. ASSUME NEW k \in 1..n PROVE ValueOf(SubSeq(t, (k - 1) * 8 + 1, k * 8)) = raw[k]
  <2> PICK i, x : i = (k - 1) * 8 /\ x = raw[k]
    OBVIOUS
  <2>1. i \in Nat /\ i + 8 <= Len(t) /\ i + 8 = k * 8 /\ i = 8 * (k - 1)
    <3>1. k \in Nat /\ k >= 1 /\ k <= n /\ p \in Nat /\ Len(t) = 8 * n + p /\ n \in Nat
      BY <1>1
    <3> QED
      BY ONLY <3>1, i = (k - 1) * 8
  <2>2. \A j \in 1..8 : t[i + j] = Bit(x, 8, j)
    BY ONLY <1>1, <2>1, x = raw[k], k \in 1..n
  <2>3. x \in Byte
    BY ElementOfSeq
  <2>4. ValueOf(SubSeq(t, i + 1, i + 8)) = x
    BY ONLY <1>1, <2>1, <2>2, <2>3, EightOfBits
  <2> QED
    BY ONLY <2>1, <2>4, i = (k - 1) * 8, x = raw[k]
<1>5. raw = [k \in 1..n |-> raw[k]]
  BY LenProperties
<1> QED
  BY ONLY <1>3, <1>4, <1>5, t = Filled(raw, p)

\* Bytes are converted to groups and back.
LEMMA ConvertAndBack ==
  ASSUME NEW raw \in Seq(Byte)
  PROVE  /\ ConvertBits(raw, 8, 5, TRUE).groups \in Seq(Five)
         /\ Len(ConvertBits(raw, 8, 5, TRUE).groups) = (8 * Len(raw) + 4) \div 5
         /\ ConvertBits(ConvertBits(raw, 8, 5, TRUE).groups, 5, 8, FALSE) = [ok |-> TRUE, groups |-> raw]
<1> PICK n, b, p, t, q, g :
       /\ n = Len(raw) /\ b = BitsOf(raw, 8) /\ p = Filling(n) /\ t = Filled(raw, p)
       /\ q = (8 * n + p) \div 5 /\ g = Fives(t)
  OBVIOUS
<1>1. n \in Nat /\ Len(b) = 8 * n
  BY BitsOfBytes, LenProperties
<1>2. /\ p \in 0..4 /\ 8 * n + p = 5 * q /\ (8 * n + p) % 8 = p /\ (8 * n + p) \div 8 = n
      /\ q = (8 * n + 4) \div 5 /\ q \in Nat
  BY <1>1, FillingFits
<1>3. /\ t \in Seq({0, 1}) /\ Len(t) = 8 * n + p /\ (\A j \in 1..p : t[8 * n + j] = 0) /\ (p = 0 => t = b)
  BY <1>2, FilledBits
<1>4. g \in Seq(Five) /\ Len(g) = q /\ BitsOf(g, 5) = t
  BY <1>2, <1>3, FivesAndBack
<1>5. ConvertBits(raw, 8, 5, TRUE) = [ok |-> TRUE, groups |-> g]
  <2> PICK r : r = Len(b) % 5
    OBVIOUS
  <2>1. r = (8 * n) % 5
    BY <1>1
  <2>2. p = IF r > 0 THEN 5 - r ELSE 0
    <3>1. Filling(n) = IF (8 * n) % 5 > 0 THEN 5 - ((8 * n) % 5) ELSE 0
      BY ONLY DEF Filling
    <3> PICK y : y = (8 * n) % 5
      OBVIOUS
    <3>2. Filling(n) = IF y > 0 THEN 5 - y ELSE 0
      BY ONLY <3>1, y = (8 * n) % 5
    <3>3. r = y
      BY ONLY <2>1, y = (8 * n) % 5
    <3> QED
      BY ONLY <3>2, <3>3, p = Filling(n)
  <2>3. r > 0 => t = b \o [k \in 1..5 - r |-> 0]
    BY ONLY <2>2, t = Filled(raw, p), b = BitsOf(raw, 8) DEF Filled
  <2>4. ~(r > 0) => t = b
    BY ONLY <1>3, <2>2
  <2>5. t = IF Len(b) % 5 > 0 THEN b \o [k \in 1..5 - (Len(b) % 5) |-> 0] ELSE b
    BY ONLY <2>3, <2>4, r = Len(b) % 5
  <2> QED
    BY ONLY <2>5, b = BitsOf(raw, 8), g = Fives(t), ToFives
<1>6. ConvertBits(g, 5, 8, FALSE) = [ok |-> TRUE, groups |-> raw]
  <2>1. Len(t) % 8 = p
    BY ONLY <1>2, <1>3
  <2>2. ~(Len(t) % 8 > 4)
    <3>1. p \in 0..4
      BY ONLY <1>2
    <3>2. ~(p > 4)
      BY ONLY <3>1
    <3> QED
      BY ONLY <2>1, <3>2
  <2> PICK i : i = 8 * n
    OBVIOUS
  <2>3. i \in Nat /\ p \in Nat /\ i + p <= Len(t) /\ Len(t) - p + 1 = i + 1 /\ Len(t) = i + p
    <3>1. n \in Nat /\ p \in 0..4 /\ Len(t) = 8 * n + p
      BY ONLY <1>1, <1>2, <1>3
    <3> QED
      BY ONLY <3>1, i = 8 * n
  <2>4. Lost(t) = SubSeq(t, i + 1, i + p)
    BY ONLY <2>1, <2>3 DEF Lost
  <2>5. Lost(t) \in Seq({0, 1}) /\ Len(Lost(t)) = p /\ \A j \in 1..p : Lost(t)[j] = t[i + j]
    BY ONLY <1>3, <2>3, <2>4, Slice
  <2>6. ~\E k \in DOMAIN Lost(t) : Lost(t)[k] = 1
    <3>1. DOMAIN Lost(t) = 1..p
      BY ONLY <2>5, LenProperties
    <3>2. \A j \in 1..p : Lost(t)[j] = 0
      BY ONLY <1>3, <2>5, i = 8 * n
    <3> QED
      BY ONLY <3>1, <3>2
  <2>7. ConvertBits(g, 5, 8, FALSE) = [ok |-> TRUE, groups |-> Eights(t)]
    BY ONLY <1>4, <2>2, <2>6, ToEights
  <2>8. Eights(t) = raw
    BY <1>2, EightsOfFilled
  <2> QED
    BY ONLY <2>7, <2>8
<1> PICK c : c = ConvertBits(raw, 8, 5, TRUE)
  OBVIOUS
<1>7. c.groups = g
  <2>1. c = [ok |-> TRUE, groups |-> g]
    BY <1>5
  <2> QED
    BY ONLY <2>1
<1> QED
  BY ONLY <1>2, <1>4, <1>6, <1>7, n = Len(raw), c = ConvertBits(raw, 8, 5, TRUE)

-----------------------------------------------------------------------------
(* Text under a prefix *)

\* The bytes fit in a text that a reader accepts: the longest prefix has ten letters.
Fits(raw) == 17 + (8 * Len(raw) + 4) \div 5 <= MaxBechStrLength

\* The prefixes of the two networks, and of reward addresses.
NetworkPrefixes == {Addr, Addr \o Test, Stake, Stake \o Test}

\* Every prefix is of small letters and begins like that of an address.
LEMMA PrefixShape ==
  ASSUME NEW hrp \in NetworkPrefixes
  PROVE  /\ hrp \in Seq(Small) /\ Len(hrp) \in 4..10
         /\ \/ \A k \in 1..4 : hrp[k] = Addr[k]
            \/ Len(hrp) >= 5 /\ \A k \in 1..5 : hrp[k] = Stake[k]
<1> PICK a, s, t : a = Addr /\ s = Stake /\ t = Test
  OBVIOUS
<1>1. a \in Seq(Small) /\ Len(a) = 4
  BY DEF Addr, Small
<1>2. s \in Seq(Small) /\ Len(s) = 5
  BY DEF Stake, Small
<1>3. t \in Seq(Small) /\ Len(t) = 5
  BY DEF Test, Small
<1>4. /\ a \o t \in Seq(Small) /\ Len(a \o t) = Len(a) + Len(t)
      /\ \A k \in 1..Len(a) : (a \o t)[k] = a[k]
  <2>1. a \in Seq(Small) /\ t \in Seq(Small)
    BY ONLY <1>1, <1>3
  <2> QED
    BY ONLY <2>1, TwoParts
<1>5. /\ s \o t \in Seq(Small) /\ Len(s \o t) = Len(s) + Len(t)
      /\ \A k \in 1..Len(s) : (s \o t)[k] = s[k]
  <2>1. s \in Seq(Small) /\ t \in Seq(Small)
    BY ONLY <1>2, <1>3
  <2> QED
    BY ONLY <2>1, TwoParts
<1>6. hrp = a \/ hrp = a \o t \/ hrp = s \/ hrp = s \o t
  BY DEF NetworkPrefixes
<1> DEFINE Shape(h) == /\ h \in Seq(Small) /\ Len(h) \in 4..10
                       /\ \/ \A k \in 1..4 : h[k] = a[k]
                          \/ Len(h) >= 5 /\ \A k \in 1..5 : h[k] = s[k]
<1>7. Shape(a)
  BY ONLY <1>1
<1>8. Shape(a \o t)
  BY ONLY <1>1, <1>3, <1>4
<1>9. Shape(s)
  BY ONLY <1>2
<1>10. Shape(s \o t)
  BY ONLY <1>2, <1>3, <1>5
<1>11. Shape(hrp)
  <2> HIDE DEF Shape
  <2> QED
    BY ONLY <1>6, <1>7, <1>8, <1>9, <1>10
<1> QED
  BY ONLY <1>11, a = Addr, s = Stake

\* A text that begins letter by letter with p.
LEMMA BeginsWith ==
  ASSUME NEW p \in Seq(Small), NEW t, Len(p) <= Len(t), \A k \in 1..Len(p) : t[k] = p[k]
  PROVE  IsPrefix(p, t)
<1>1. \A k \in 1..Len(p) : t[0 + k] = p[k]
  OBVIOUS
<1>2. SubSeq(t, 0 + 1, 0 + Len(p)) = p
  BY <1>1, PartIs
<1>3. \A k \in 1..Len(p) : p[0 + k] = p[k]
  OBVIOUS
<1>4. SubSeq(p, 0 + 1, 0 + Len(p)) = p
  BY <1>3, PartIs
<1>5. Len(p) \in Nat
  BY LenProperties
<1>6. SubSeq(t, 1, Len(p)) = p /\ SubSeq(p, 1, Len(p)) = p
  BY <1>2, <1>4, <1>5
<1> QED
  BY ONLY <1>6, Len(p) <= Len(t) DEF IsPrefix

\* A text under a prefix passes for an address.
LEMMA PrefixIsValid ==
  ASSUME NEW hrp \in NetworkPrefixes, NEW t \in Seq(Printable), Len(hrp) <= Len(t),
         \A k \in 1..Len(hrp) : t[k] = hrp[k]
  PROVE  IsAddressWithValidPrefix(t)
<1> PICK l, n : l = Len(hrp) /\ n = Len(t)
  OBVIOUS
<1>1. l \in 4..10 /\ n \in Nat /\ l <= n
  BY PrefixShape, LenProperties
<1>2. CASE \A k \in 1..4 : hrp[k] = Addr[k]
  <2>1. Addr \in Seq(Small) /\ Len(Addr) = 4
    BY DEF Addr, Small
  <2>2. Len(Addr) <= Len(t) /\ \A k \in 1..Len(Addr) : t[k] = Addr[k]
    <3>1. \A k \in 1..4 : k \in 1..l
      BY <1>1
    <3>2. 4 <= n
      BY <1>1
    <3> QED
      BY <1>2, <2>1, <3>1, <3>2
  <2> QED
    BY <2>1, <2>2, BeginsWith DEF IsAddressWithValidPrefix
<1>3. CASE l >= 5 /\ \A k \in 1..5 : hrp[k] = Stake[k]
  <2>1. Stake \in Seq(Small) /\ Len(Stake) = 5
    BY DEF Stake, Small
  <2>2. Len(Stake) <= Len(t) /\ \A k \in 1..Len(Stake) : t[k] = Stake[k]
    <3>1. \A k \in 1..5 : k \in 1..l
      BY <1>1, <1>3
    <3>2. 5 <= n
      BY <1>1, <1>3
    <3> QED
      BY <1>3, <2>1, <3>1, <3>2
  <2> QED
    BY <2>1, <2>2, BeginsWith DEF IsAddressWithValidPrefix
<1> QED
  BY <1>2, <1>3, PrefixShape

\* Bytes that are printed under a prefix are read again.
LEMMA BytesAndBack ==
  ASSUME NEW hrp \in NetworkPrefixes, NEW raw \in Seq(Byte), Fits(raw)
  PROVE  /\ EncodeFromBase256(hrp, raw).text # <<>>
         /\ IsAddressWithValidPrefix(EncodeFromBase256(hrp, raw).text)
         /\ DecodeToBase256(EncodeFromBase256(hrp, raw).text) = [ok |-> TRUE, hrp |-> hrp, data |-> raw]
<1> PICK g, t : g = ConvertBits(raw, 8, 5, TRUE).groups /\ t = EncodeFromBase256(hrp, raw).text
  OBVIOUS
<1>1. /\ g \in Seq(Five) /\ Len(g) = (8 * Len(raw) + 4) \div 5
      /\ ConvertBits(g, 5, 8, FALSE) = [ok |-> TRUE, groups |-> raw]
  BY ConvertAndBack
<1>2. hrp \in Seq(Small) /\ Len(hrp) \in 4..10
  BY PrefixShape
<1>3. t = Encode(hrp, g).text
  BY DEF EncodeFromBase256
<1>4. Len(hrp) >= 1 /\ Len(hrp) + Len(g) + 7 <= MaxBechStrLength
  <2> PICK l, m : l = Len(hrp) /\ m = Len(g)
    OBVIOUS
  <2>1. l \in 4..10 /\ m \in Nat /\ 17 + m <= MaxBechStrLength
    BY <1>1, <1>2, LenProperties DEF Fits
  <2>2. l >= 1 /\ l + m + 7 <= MaxBechStrLength
    BY ONLY <2>1, AddressAssumption
  <2> QED
    BY ONLY <2>2, l = Len(hrp), m = Len(g)
<1>5. /\ t = Written(hrp, Whole(hrp, g)) /\ t \in Seq(Printable) /\ Len(t) >= 1 /\ \A k \in 1..Len(hrp) : t[k] = hrp[k]
      /\ Decode(t) = [ok |-> TRUE, hrp |-> hrp, data |-> g]
  BY ONLY <1>1, <1>2, <1>3, <1>4, DecodeOfEncode
<1>6. t # <<>>
  BY ONLY <1>5
<1>7. Len(hrp) <= Len(t)
  <2>1. Whole(hrp, g) \in Seq(Five)
    BY <1>1, <1>2, WholeAccepted
  <2>2. Len(t) = Len(hrp) + 1 + Len(Whole(hrp, g)) /\ Len(hrp) \in Nat /\ Len(Whole(hrp, g)) \in Nat
    BY <1>2, <1>5, <2>1, WrittenText, LenProperties
  <2> QED
    BY ONLY <2>2
<1>8. IsAddressWithValidPrefix(t)
  BY ONLY <1>5, <1>7, hrp \in NetworkPrefixes, PrefixIsValid
<1>9. DecodeToBase256(t) = [ok |-> TRUE, hrp |-> hrp, data |-> raw]
  <2> PICK d, c : d = Decode(t) /\ c = ConvertBits(d.data, 5, 8, FALSE)
    OBVIOUS
  <2>1. d.ok /\ d.hrp = hrp /\ d.data = g
    BY ONLY <1>5, d = Decode(t)
  <2>2. c.ok /\ c.groups = raw
    <3>1. c = [ok |-> TRUE, groups |-> raw]
      BY ONLY <1>1, <2>1, c = ConvertBits(d.data, 5, 8, FALSE), Zenon
    <3> QED
      BY ONLY <3>1
  <2> QED
    BY ONLY <2>1, <2>2, d = Decode(t), c = ConvertBits(d.data, 5, 8, FALSE) DEF DecodeToBase256
<1> QED
  BY ONLY <1>6, <1>8, <1>9, t = EncodeFromBase256(hrp, raw).text

\* Bytes that are printed without a prefix pass for no address.
LEMMA NoPrefixNoAddress ==
  ASSUME NEW raw \in Seq(Byte)
  PROVE  /\ ~IsAddressWithValidPrefix(EncodeFromBase256(<<>>, raw).text)
         /\ \A b \in ByronAddresses : b.text # EncodeFromBase256(<<>>, raw).text
<1> PICK g, t, w, e : /\ g = ConvertBits(raw, 8, 5, TRUE).groups /\ t = EncodeFromBase256(<<>>, raw).text
                      /\ e = <<>> /\ w = Whole(e, g)
  OBVIOUS
<1>1. g \in Seq(Five) /\ e \in Seq(Small) /\ Len(e) = 0
  <2>1. g \in Seq(Five)
    BY ConvertAndBack
  <2>2. e \in Seq(Small) /\ Len(e) = 0
    BY ONLY e = <<>>
  <2> QED
    BY ONLY <2>1, <2>2
<1>2. w \in Seq(Five) /\ ToLower(e) = e
  BY <1>1, WholeAccepted, SmallPrefix
<1>3. t = Written(e, w)
  <2>1. ~\E k \in DOMAIN g : g[k] \notin Five
    BY ONLY <1>1, LenProperties
  <2>2. Encode(e, g).text = ToLower(e) \o <<Separator>> \o ToChars(g \o bech32Checksum(ToLower(e), g))
    BY ONLY <2>1 DEF Encode
  <2>3. t = Encode(e, g).text
    BY DEF EncodeFromBase256
  <2> QED
    BY ONLY <1>2, <2>2, <2>3, w = Whole(e, g) DEF Written, Whole
<1>4. t \in Seq(Printable) /\ Len(t) = Len(e) + 1 + Len(w) /\ t[Len(e) + 1] = Separator
  <2>1. e \in Seq(Small) /\ w \in Seq(Five)
    BY ONLY <1>1, <1>2
  <2> QED
    BY ONLY <1>3, <2>1, WrittenText
<1>5. Len(w) \in Nat
  BY <1>2, LenProperties
<1>6. Len(t) >= 1 /\ t[1] = Separator
  BY ONLY <1>1, <1>4, <1>5
<1>7. ASSUME NEW p \in Seq(Small), Len(p) >= 1, IsPrefix(p, t) PROVE p[1] = Separator
  <2> PICK n : n = Len(p)
    OBVIOUS
  <2>1. n \in Nat /\ n >= 1 /\ n <= Len(t) /\ SubSeq(p, 1, n) = SubSeq(t, 1, n)
    BY <1>7, LenProperties DEF IsPrefix
  <2>2. SubSeq(t, 0 + 1, 0 + n)[1] = t[0 + 1]
    BY ONLY <1>4, <2>1, Slice
  <2>3. SubSeq(p, 0 + 1, 0 + n)[1] = p[0 + 1]
    BY ONLY <2>1, p \in Seq(Small), n = Len(p), Slice
  <2> QED
    BY ONLY <1>6, <2>1, <2>2, <2>3
<1>8. ~IsAddressWithValidPrefix(t)
  <2>1. Addr \in Seq(Small) /\ Len(Addr) >= 1 /\ Addr[1] # Separator
    BY DEF Addr, Small, Separator
  <2>2. Stake \in Seq(Small) /\ Len(Stake) >= 1 /\ Stake[1] # Separator
    BY DEF Stake, Small, Separator
  <2> QED
    BY <1>7, <2>1, <2>2 DEF IsAddressWithValidPrefix
<1>9. \A b \in ByronAddresses : b.text # t
  BY ONLY <1>6, ByronAssumption
<1> QED
  BY ONLY <1>8, <1>9, t = EncodeFromBase256(<<>>, raw).text

-----------------------------------------------------------------------------
(* An address and its text *)

\* What a reader makes of the text of an address, printed by it or by another program.
ReadsBack(address, chars) ==
  LET reader == NewCardanoAddressFromString(chars)
  IN  reader.ok /\ reader.raw = address.raw /\ GetInfo(reader) = GetInfo(address) /\ String(reader) = chars

\* The text under any prefix is read as the same bytes.
LEMMA ForeignTextIsRead ==
  ASSUME NEW raw \in Seq(Byte), NewCardanoAddress(raw).ok, Fits(raw), NEW hrp \in NetworkPrefixes
  PROVE  /\ ReadsBack(NewCardanoAddress(raw), EncodeFromBase256(hrp, raw).text)
         /\ IsAddressWithValidPrefix(EncodeFromBase256(hrp, raw).text)
<1> PICK a, t, type, r : /\ a = NewCardanoAddress(raw) /\ t = EncodeFromBase256(hrp, raw).text
                         /\ type = GetAddressTypeFromHeader(raw[1]) /\ r = NewCardanoAddressFromString(t)
  OBVIOUS
<1>1. a = [ok |-> TRUE, type |-> type, raw |-> raw, cachedStr |-> <<>>]
  BY AddressOfBytes
<1>2. t # <<>> /\ IsAddressWithValidPrefix(t) /\ DecodeToBase256(t) = [ok |-> TRUE, hrp |-> hrp, data |-> raw]
  BY BytesAndBack
<1>3. r = [a EXCEPT !.cachedStr = t]
  <2> PICK d : d = DecodeToBase256(t)
    OBVIOUS
  <2>1. d.ok /\ d.data = raw
    BY ONLY <1>2, d = DecodeToBase256(t)
  <2>2. NewCardanoAddress(d.data) = a /\ a.ok
    BY ONLY <1>1, <2>1, a = NewCardanoAddress(raw)
  <2> QED
    BY ONLY <1>2, <2>1, <2>2, d = DecodeToBase256(t), r = NewCardanoAddressFromString(t)
       DEF NewCardanoAddressFromString
<1>4. r = [ok |-> TRUE, type |-> type, raw |-> raw, cachedStr |-> t]
  BY ONLY <1>1, <1>3
<1>5. r.ok /\ r.raw = a.raw /\ r.type = a.type /\ r.cachedStr = t
  BY ONLY <1>1, <1>4
<1>6. GetInfo(r) = GetInfo(a) /\ String(r) = t
  BY ONLY <1>2, <1>5 DEF GetInfo, String
<1> QED
  BY ONLY <1>2, <1>5, <1>6, a = NewCardanoAddress(raw), t = EncodeFromBase256(hrp, raw).text,
     r = NewCardanoAddressFromString(t) DEF ReadsBack

\* The text of a Byron address is read as the same address.
LEMMA ByronTextIsRead ==
  ASSUME ByronTextsStandOut,
         NEW raw, NewCardanoAddress(raw).ok, GetAddressTypeFromHeader(raw[1]) = "Byron"
  PROVE  ReadsBack(NewCardanoAddress(raw), ByronOf(raw).text)
<1> PICK a, b : a = NewCardanoAddress(raw) /\ b = ByronOf(raw)
  OBVIOUS
<1>1. a = [ok |-> TRUE, type |-> "Byron", raw |-> raw, cachedStr |-> <<>>] /\ IsValid("Byron", raw)
  BY AddressOfBytes
<1>2. b \in ByronAddresses /\ b.raw = raw
  BY <1>1, ByronBytes
<1>3. Base58Decode(b.text) = raw
  <2>1. (CHOOSE c \in ByronAddresses : c.text = b.text) = b
    BY <1>2, ByronAssumption
  <2> QED
    BY ONLY <1>2, <2>1 DEF Base58Decode
<1>4. a.ok /\ a.type = "Byron" /\ a.raw = raw /\ a.cachedStr = <<>>
  BY <1>1
<1>5. ~IsAddressWithValidPrefix(b.text)
  BY <1>2 DEF ByronTextsStandOut
<1>6. NewCardanoAddressFromString(b.text) = a
  BY ONLY <1>3, <1>4, <1>5, a = NewCardanoAddress(raw) DEF NewCardanoAddressFromString
<1>7. String(a) = b.text
  BY ONLY <1>4, b = ByronOf(raw) DEF String, AddressToString
<1> QED
  BY ONLY <1>4, <1>6, <1>7, a = NewCardanoAddress(raw), b = ByronOf(raw) DEF ReadsBack

\* The text of an address of another network is read by nobody.
LEMMA NoPrefixIsNotRead ==
  ASSUME NEW raw \in Seq(Byte), NEW t, t = EncodeFromBase256(<<>>, raw).text
  PROVE  ~IsAddressWithValidPrefix(t) /\ ~NewCardanoAddressFromString(t).ok
<1>1. ~IsAddressWithValidPrefix(t) /\ \A b \in ByronAddresses : b.text # t
  BY NoPrefixNoAddress
<1>2. Base58Decode(t) = <<>>
  BY ONLY <1>1 DEF Base58Decode
<1>3. ~NewCardanoAddress(<<>>).ok
  BY ONLY DEF NewCardanoAddress, NoAddress
<1>4. NewCardanoAddressFromString(t) = NoAddress
  BY ONLY <1>1, <1>2, <1>3 DEF NewCardanoAddressFromString
<1> QED
  BY ONLY <1>1, <1>4 DEF NoAddress

\* What an address prints, and whether it is read.
LEMMA OwnTextIsRead ==
  ASSUME ByronTextsStandOut, NEW raw \in Seq(Byte), NewCardanoAddress(raw).ok, Fits(raw),
         NEW a, a = NewCardanoAddress(raw)
  PROVE  IF a.type = "Byron" \/ GetInfo(a).network \in {0, 1}
           THEN ReadsBack(a, String(a))
           ELSE ~IsAddressWithValidPrefix(String(a)) /\ ~NewCardanoAddressFromString(String(a)).ok
<1> PICK type, n, t : type = GetAddressTypeFromHeader(raw[1]) /\ n = raw[1] % 16 /\ t = String(a)
  OBVIOUS
<1>1. a = [ok |-> TRUE, type |-> type, raw |-> raw, cachedStr |-> <<>>] /\ type \in Types
  BY AddressOfBytes
<1>2. a.type = type /\ a.raw = raw /\ a.cachedStr = <<>>
  BY ONLY <1>1
<1>3. t = AddressToString(type, raw)
  BY ONLY <1>2, t = String(a) DEF String
<1>4. CASE type = "Byron"
  <2>1. t = ByronOf(raw).text
    BY ONLY <1>3, <1>4 DEF AddressToString
  <2>2. ReadsBack(a, t)
    BY <1>4, <2>1, ByronTextIsRead
  <2> QED
    BY ONLY <1>2, <1>4, <2>2, t = String(a)
<1>5. CASE type # "Byron"
  <2> PICK prefix : prefix = IF type = "Reward" THEN Stake ELSE Addr
    OBVIOUS
  <2>1. t = EncodeFromBase256(ForNetwork(n, prefix), raw).text
    BY ONLY <1>3, <1>5, n = raw[1] % 16, prefix = IF type = "Reward" THEN Stake ELSE Addr
       DEF AddressToString, GetPrefix, GetStakePrefix
  <2>2. GetInfo(a).network = n
    <3>1. GetInfo(a) = ToCardanoAddressInfo(type, raw)
      BY ONLY <1>2 DEF GetInfo
    <3>2. type \in {"Base", "Pointer", "Enterprise", "Reward"}
      BY ONLY <1>1, <1>5 DEF Types
    <3>3. ToCardanoAddressInfo(type, raw).network = raw[1] % 16
      BY ONLY <3>2 DEF ToCardanoAddressInfo
    <3> QED
      BY ONLY <3>1, <3>3, n = raw[1] % 16
  <2>3. CASE n \in {0, 1}
    <3>1. ForNetwork(n, prefix) \in NetworkPrefixes
      BY ONLY <2>3, prefix = IF type = "Reward" THEN Stake ELSE Addr DEF ForNetwork, NetworkPrefixes
    <3>2. ReadsBack(a, t)
      BY <2>1, <3>1, ForeignTextIsRead
    <3> QED
      BY ONLY <1>2, <1>5, <2>2, <2>3, <3>2, t = String(a)
  <2>4. CASE n \notin {0, 1}
    <3>1. ForNetwork(n, prefix) = <<>>
      BY ONLY <2>4 DEF ForNetwork
    <3>2. t = EncodeFromBase256(<<>>, raw).text
      BY ONLY <2>1, <3>1
    <3>3. ~IsAddressWithValidPrefix(t) /\ ~NewCardanoAddressFromString(t).ok
      BY <3>2, NoPrefixIsNotRead
    <3> QED
      BY ONLY <1>2, <1>5, <2>2, <2>4, <3>3, t = String(a)
  <2> QED
    BY ONLY <2>3, <2>4
<1> QED
  BY ONLY <1>4, <1>5

\* What an address prints, or another program for it.
TextsOf(address) ==
  {String(address)} \cup {EncodeFromBase256(hrp, address.raw).text : hrp \in NetworkPrefixes}

\* A text is there only of an address, it is one of its texts until it is mistyped,
\* and what was read is what a reader makes of it.
OnItsWay ==
  /\ made.ok => Fits(made.raw)
  /\ text # <<>> => made.ok
  /\ edited \in BOOLEAN
  /\ text # <<>> /\ ~edited => text \in TextsOf(made)
  /\ read # Unread /\ ~edited => text # <<>> /\ read = NewCardanoAddressFromString(text)

\* An address that was made has parts.
LEMMA PartsOfMade == MadeOfBytes /\ made.ok => info # NoInfo
<1> SUFFICES ASSUME MadeOfBytes, made.ok PROVE info # NoInfo
  OBVIOUS
<1> PICK raw, type, i : /\ raw = made.raw /\ type = GetAddressTypeFromHeader(raw[1])
                        /\ i = ToCardanoAddressInfo(type, raw)
  OBVIOUS
<1>1. raw \in Seq(Byte) /\ made = NewCardanoAddress(raw) /\ GetInfo(made) = info
  BY DEF MadeOfBytes
<1>2. made = [ok |-> TRUE, type |-> type, raw |-> raw, cachedStr |-> <<>>] /\ type \in Types
  BY <1>1, AddressOfBytes
<1>3. info = i
  BY <1>1, <1>2 DEF GetInfo
<1>4. CASE Meaningful(type, raw)
  <2>1. i.type = type
    BY <1>1, <1>4, BuiltAgain
  <2> QED
    BY ONLY <1>2, <1>3, <2>1 DEF NoInfo, Types
<1>5. CASE ~Meaningful(type, raw)
  <2>1. type = "Byron" /\ ~HasParts(ByronOf(raw))
    BY ONLY <1>5 DEF Meaningful
  <2>2. ByronOf(raw) \in ByronAddresses /\ i = ByronInfo(ByronOf(raw))
    BY <1>1, <2>1, AddressOfBytes, ByronBytes
  <2>3. i.type \in {"Unsupported", "Panicked"}
    BY ONLY <2>1, <2>2, NothingBuilt
  <2> QED
    BY ONLY <1>3, <2>3 DEF NoInfo
<1> QED
  BY ONLY <1>4, <1>5

\* The bytes of what is built or offered fit.
LEMMA BytesFit ==
  ASSUME TextsFit
  PROVE  /\ \A raw \in Raws : NewCardanoAddress(raw).ok => Fits(NewCardanoAddress(raw).raw)
         /\ \A i \in Infos : ToCardanoAddress(i).ok => Fits(ToCardanoAddress(i).raw)
<1>1. ASSUME NEW raw, NewCardanoAddress(raw).ok PROVE NewCardanoAddress(raw).raw = raw
  BY <1>1, AddressOfBytes
<1>2. \A raw \in Raws : Fits(raw)
  BY DEF TextsFit, Fits
<1>3. \A i \in Infos : Fits(FromCardanoAddressInfo(i))
  BY DEF TextsFit, Fits
<1> QED
  BY ONLY <1>1, <1>2, <1>3 DEF ToCardanoAddress, NoAddress

\* Before there is a text.
LEMMA WayBegins == AddressInit => OnItsWay
<1> SUFFICES ASSUME AddressInit PROVE OnItsWay
  OBVIOUS
<1>1. text = <<>> /\ edited = FALSE /\ read = Unread /\ made = NoAddress
  BY DEF AddressInit
<1>2. ~made.ok
  BY ONLY <1>1 DEF NoAddress
<1> QED
  BY ONLY <1>1, <1>2 DEF OnItsWay

\* Every step keeps it.
LEMMA WayIsKept ==
  ASSUME TextsFit
  PROVE  MadeOfBytes /\ OnItsWay /\ [AddressNext]_addressVars => OnItsWay'
<1> SUFFICES ASSUME MadeOfBytes, OnItsWay, [AddressNext]_addressVars PROVE OnItsWay'
  OBVIOUS
<1>1. info = NoInfo => ~made.ok /\ text = <<>>
  BY PartsOfMade DEF OnItsWay
<1>2. ASSUME NEW i \in Infos, Build(i) PROVE OnItsWay'
  <2>1. text = <<>> /\ text' = text /\ edited' = edited /\ read' = read
    BY <1>1, <1>2 DEF Build
  <2>2. made' = ToCardanoAddress(i)
    BY <1>2 DEF Build
  <2>3. made'.ok => Fits(made'.raw)
    BY <2>2, BytesFit
  <2> QED
    BY ONLY <2>1, <2>3, OnItsWay DEF OnItsWay
<1>3. ASSUME NEW raw \in Raws, Parse(raw) PROVE OnItsWay'
  <2>1. text = <<>> /\ text' = text /\ edited' = edited /\ read' = read
    BY <1>1, <1>3 DEF Parse
  <2>2. made' = NewCardanoAddress(raw)
    BY <1>3 DEF Parse
  <2>3. made'.ok => Fits(made'.raw)
    BY <2>2, BytesFit
  <2> QED
    BY ONLY <2>1, <2>3, OnItsWay DEF OnItsWay
<1>4. CASE Show
  <2>1. made.ok /\ text = <<>> /\ text' = String(made) /\ made' = made /\ edited' = edited /\ read' = read
    BY <1>4 DEF Show
  <2>2. text' \in TextsOf(made')
    BY ONLY <2>1 DEF TextsOf
  <2> QED
    BY ONLY <2>1, <2>2, OnItsWay DEF OnItsWay
<1>5. ASSUME NEW hrp \in NetworkPrefixes, ShowForeign(hrp) PROVE OnItsWay'
  <2>1. /\ made.ok /\ text = <<>> /\ text' = EncodeFromBase256(hrp, made.raw).text
        /\ made' = made /\ edited' = edited /\ read' = read
    BY <1>5 DEF ShowForeign
  <2>2. text' \in TextsOf(made')
    BY ONLY <2>1, hrp \in NetworkPrefixes DEF TextsOf
  <2> QED
    BY ONLY <2>1, <2>2, OnItsWay DEF OnItsWay
<1>6. CASE Mistype
  BY <1>6 DEF Mistype, OnItsWay
<1>7. CASE Read
  BY <1>7 DEF Read, OnItsWay
<1>8. CASE UNCHANGED addressVars
  BY <1>8 DEF addressVars, OnItsWay
<1> QED
  BY <1>2, <1>3, <1>4, <1>5, <1>6, <1>7, <1>8 DEF AddressNext, NetworkPrefixes

\* On its way an address is read as itself.
LEMMA WayIsRoundTrip ==
  ASSUME ByronTextsStandOut
  PROVE  MadeOfBytes /\ OnItsWay => RoundTrip
<1> SUFFICES ASSUME MadeOfBytes, OnItsWay, made.ok, read # Unread, ~edited
             PROVE  IF made.type = "Byron" \/ info.network \in {0, 1} \/ IsAddressWithValidPrefix(text)
                      THEN read.ok /\ read.raw = made.raw /\ GetInfo(read) = info /\ String(read) = text
                      ELSE ~read.ok
  BY DEF MadeOfBytes, RoundTrip
<1> PICK raw : raw = made.raw
  OBVIOUS
<1>1. raw \in Seq(Byte) /\ made = NewCardanoAddress(raw) /\ NewCardanoAddress(raw).ok /\ GetInfo(made) = info /\ Fits(raw)
  BY DEF MadeOfBytes, OnItsWay
<1>2. text \in TextsOf(made) /\ read = NewCardanoAddressFromString(text)
  BY DEF OnItsWay
<1>3. ReadsBack(made, text) => read.ok /\ read.raw = made.raw /\ GetInfo(read) = info /\ String(read) = text
  BY ONLY <1>1, <1>2 DEF ReadsBack
<1>4. CASE text = String(made)
  <2>1. IF made.type = "Byron" \/ GetInfo(made).network \in {0, 1}
          THEN ReadsBack(made, String(made))
          ELSE ~IsAddressWithValidPrefix(String(made)) /\ ~NewCardanoAddressFromString(String(made)).ok
    BY ONLY <1>1, ByronTextsStandOut, OwnTextIsRead
  <2> QED
    BY ONLY <1>1, <1>2, <1>3, <1>4, <2>1
<1>5. ASSUME NEW hrp \in NetworkPrefixes, text = EncodeFromBase256(hrp, made.raw).text
      PROVE  ReadsBack(made, text) /\ IsAddressWithValidPrefix(text)
  BY <1>1, <1>5, ForeignTextIsRead
<1>6. text = String(made) \/ \E hrp \in NetworkPrefixes : text = EncodeFromBase256(hrp, made.raw).text
  BY ONLY <1>2 DEF TextsOf
<1> QED
  BY ONLY <1>3, <1>4, <1>5, <1>6

\* The parts of an address, its bytes and its text say the same.
THEOREM RoundTripCorrect ==
  ASSUME TextsFit, ByronTextsStandOut
  PROVE  AddressSpec => []RoundTrip
<1>1. MadeOfBytes /\ OnItsWay /\ [AddressNext]_addressVars => OnItsWay'
  BY WayIsKept
<1> QED
  BY <1>1, MadeInvariant, WayBegins, WayIsRoundTrip, PTL DEF AddressSpec
=============================================================================
