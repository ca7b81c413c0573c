---------------------------- MODULE TxSubmission ----------------------------
(***************************************************************************)
(* The submission of a signed transaction: TxSender.SubmitTx, which tries  *)
(* SubmitTx of the data provider again and again (common/retry.go), the    *)
(* providers, and a node that takes a transaction once and refuses it the  *)
(* second time.  Each caller submits a transaction of its own; with the    *)
(* gouroboros provider it shares a connection with the others' queries.    *)
(* "http" stands for Blockfrost, Demeter and Ogmios.  The transaction of   *)
(* caller p is called p.                                                   *)
(***************************************************************************)
EXTENDS GouroborosProvider

CONSTANT Providers, RetryCount

ASSUME SubmissionAssumption ==
  /\ RetryCount \in Nat
  /\ Providers \subseteq {"http", "cats", "cli", "gouroboros"}

VARIABLES provider,
          ctxDone,    \* by caller: its context is cancelled or its deadline passed
          subPc,      \* by caller
          count,      \* by caller: the tries that went before
          answer,     \* by caller: what the last try came back with
          result,     \* by caller: what SubmitTx returned, "nil" for success
          txFile,     \* tx.send of the cli provider
          inflight,   \* requests on their way to the node
          accepted    \* transactions the node has taken

nodeVars == <<inflight, accepted>>
subVars == <<provider, ctxDone, subPc, count, answer, result, txFile, nodeVars>>
allVars == <<vars, subVars>>

SubmissionInit ==
  /\ NewTxProviderGoUroBoros
  /\ provider \in Providers
  /\ ctxDone = [p \in Caller |-> FALSE]
  /\ subPc = [p \in Caller |-> "idle"]
  /\ count = [p \in Caller |-> 0]
  /\ answer = [p \in Caller |-> "none"]
  /\ result = [p \in Caller |-> "none"]
  /\ txFile = {}
  /\ inflight = {} /\ accepted = {}

-----------------------------------------------------------------------------
(* Steps of a submission *)

GoTo(p, place) == subPc' = [subPc EXCEPT ![p] = place]

Request(p, tx) == [from |-> p, try |-> count[p], tx |-> tx]

\* The try comes back.
Answered(p, what) ==
  /\ answer' = [answer EXCEPT ![p] = what]
  /\ GoTo(p, "answered")

Returns(p, what) ==
  /\ result' = [result EXCEPT ![p] = what]
  /\ GoTo(p, "returned")

SubmitTx(p) ==
  /\ subPc[p] = "idle" /\ callPc[p] = "idle"
  /\ \/ GoTo(p, "try") /\ UNCHANGED result
     \/ Returns(p, "unsigned")
  /\ UNCHANGED <<vars, provider, ctxDone, count, answer, txFile, nodeVars>>

\* The loop of ExecuteWithRetry is over.
RetriesEnd(p) ==
  /\ subPc[p] = "try" /\ count[p] >= RetryCount
  /\ Returns(p, "retries")
  /\ UNCHANGED <<vars, provider, ctxDone, count, answer, txFile, nodeVars>>

Tries(p) == subPc[p] = "try" /\ count[p] < RetryCount

Http == provider \in {"http", "cats"}

\* A request whose context is done is not sent; a dial may time out or be refused.
HttpNotSent(p) ==
  /\ Http /\ Tries(p)
  /\ \E what \in {"timeout", "refused"} \cup (IF ctxDone[p] THEN {"context"} ELSE {}) : Answered(p, what)
  /\ UNCHANGED <<vars, provider, ctxDone, count, result, txFile, nodeVars>>

HttpSend(p) ==
  /\ Http /\ Tries(p) /\ ~ctxDone[p]
  /\ inflight' = inflight \cup {Request(p, p)}
  /\ GoTo(p, "waiting")
  /\ UNCHANGED <<vars, provider, ctxDone, count, answer, result, txFile, accepted>>

\* A gateway answers in place of the node, whether or not it has passed the request
\* on: too many requests, an internal error, or a body that names no error.
Gateway(p) ==
  /\ Http /\ subPc[p] = "waiting"
  /\ \E what \in {"status 429", "status 500"} \cup (IF provider = "cats" THEN {"no error named"} ELSE {}) :
       Answered(p, what)
  /\ inflight' \in {inflight, inflight \ {Request(p, p)}}
  /\ UNCHANGED <<vars, provider, ctxDone, count, result, txFile, accepted>>

\* The client has no timeout of its own: only the context, or the network, ends it.
\* Mutant of HttpGivesUp: the request is made without the context.
HttpIgnoresContext(p) ==
  /\ Http /\ subPc[p] = "waiting"
  /\ FALSE
  /\ UNCHANGED <<vars, provider, ctxDone, count, result, txFile, nodeVars>>

HttpGivesUp(p) ==
  /\ Http /\ subPc[p] = "waiting" /\ ctxDone[p]
  /\ Answered(p, "context")
  /\ UNCHANGED <<vars, provider, ctxDone, count, result, txFile, nodeVars>>

\* The connection breaks, or times out, while the answer is awaited.
HttpBreaks(p) ==
  /\ Http /\ subPc[p] = "waiting"
  /\ \E what \in {"timeout", "refused"} : Answered(p, what)
  /\ UNCHANGED <<vars, provider, ctxDone, count, result, txFile, nodeVars>>

\* All submissions of a cli provider write the one file tx.send.
CliWrite(p) ==
  /\ provider = "cli" /\ Tries(p)
  /\ txFile' = {p}
  /\ GoTo(p, "written")
  /\ UNCHANGED <<vars, provider, ctxDone, count, answer, result, nodeVars>>

CliRun(p) ==
  /\ provider = "cli" /\ subPc[p] = "written"
  /\ \/ \E tx \in txFile : inflight' = inflight \cup {Request(p, tx)} /\ GoTo(p, "waiting")
          /\ UNCHANGED answer
     \/ Answered(p, "refused") /\ UNCHANGED inflight
  /\ UNCHANGED <<vars, provider, ctxDone, count, result, txFile, accepted>>

GouroborosSend(p) ==
  /\ provider = "gouroboros" /\ Tries(p)
  /\ GetSameConnection(p) \/ GetNewConnection(p)
  /\ callPc'[p] = "use"
  /\ inflight' = inflight \cup {Request(p, p)}
  /\ GoTo(p, "waiting")
  /\ UNCHANGED <<provider, ctxDone, count, answer, result, txFile, accepted>>

GouroborosNotSent(p) ==
  /\ provider = "gouroboros" /\ Tries(p)
  /\ \/ GetConnectionFails(p)
     \/ connection = Nil /\ NextConn = {} /\ UNCHANGED vars   \* the bound MaxConn
  /\ Answered(p, "refused")
  /\ UNCHANGED <<provider, ctxDone, count, result, txFile, nodeVars>>

\* The connection fails under the call, or the call fails it: txSubmitTimeout.  The
\* context is not looked at.
GouroborosBreaks(p) ==
  /\ provider = "gouroboros" /\ subPc[p] = "waiting"
  /\ connState' = [connState EXCEPT ![conn[p]] = "failed"]
  /\ errSignal' = [errSignal EXCEPT ![conn[p]] = IF @ = "quiet" THEN "error" ELSE @]
  /\ Return(p)
  /\ Answered(p, "refused")
  /\ inflight' \in {inflight, inflight \ {Request(p, p)}}
  /\ UNCHANGED <<connection, errChan, disposeVars, loopVars,
                 provider, ctxDone, count, result, txFile, accepted>>

-----------------------------------------------------------------------------
(* ExecuteWithRetry *)

\* A body that names no error is success for Cats, whatever the status code.
\* Mutant of Succeeds: the status code is not looked at.
SucceedsAnyStatus(what) == what \in {"accepted", "no error named", "status 429", "status 500"}

Succeeds(what) == what \in {"accepted", "no error named"}

\* IsRetryableError reads the text of the error: Blockfrost and Ogmios say "status code
\* 429", which is in its list, and Cats says "status code: 429", which is not.
IsRetryableError(what) ==
  \/ what = "timeout"
  \/ what \in {"status 429", "status 500"} /\ provider = "http"

Decide(p) ==
  /\ subPc[p] = "answered"
  /\ IF Succeeds(answer[p]) THEN Returns(p, "nil")
     ELSE IF IsRetryableError(answer[p]) THEN GoTo(p, "select") /\ UNCHANGED result
     ELSE Returns(p, answer[p])
  /\ UNCHANGED <<vars, provider, ctxDone, count, answer, txFile, nodeVars>>

\* Mutant of SelectTime: count is not moved on.
SelectTimeSameCount(p) ==
  /\ subPc[p] = "select"
  /\ GoTo(p, "try")
  /\ UNCHANGED <<vars, provider, ctxDone, count, answer, result, txFile, nodeVars>>

\* The wait is over; when the context is done too, select takes either.
SelectTime(p) ==
  /\ subPc[p] = "select"
  /\ count' = [count EXCEPT ![p] = @ + 1]
  /\ GoTo(p, "try")
  /\ UNCHANGED <<vars, provider, ctxDone, answer, result, txFile, nodeVars>>

SelectContext(p) ==
  /\ subPc[p] = "select" /\ ctxDone[p]
  /\ Returns(p, "context")
  /\ UNCHANGED <<vars, provider, ctxDone, count, answer, txFile, nodeVars>>

-----------------------------------------------------------------------------
(* The node and the application *)

\* The node takes a valid transaction once.  Its answer reaches the caller that still
\* waits for it, unless the connection of a gouroboros provider is gone.
NodeHandles(r) ==
  LET waits == subPc[r.from] = "waiting" /\ count[r.from] = r.try
      reached == provider = "gouroboros" /\ waits => connState[conn[r.from]] = "open"
  IN  /\ r \in inflight /\ reached
      /\ inflight' = inflight \ {r}
      /\ \E verdict \in {"accepted", "rejected"} :
           /\ verdict = "accepted" => r.tx \notin accepted
           /\ accepted' = IF verdict = "accepted" THEN accepted \cup {r.tx} ELSE accepted
           /\ IF waits THEN Answered(r.from, verdict) ELSE UNCHANGED <<answer, subPc>>
      /\ IF provider = "gouroboros" /\ waits
           THEN Return(r.from) /\ UNCHANGED <<dialVars, disposeVars, loopVars>>
           ELSE UNCHANGED vars
      /\ UNCHANGED <<provider, ctxDone, count, result, txFile>>

ContextEnds(p) ==
  /\ ~ctxDone[p] /\ subPc[p] \notin {"idle", "returned"}
  /\ ctxDone' = [ctxDone EXCEPT ![p] = TRUE]
  /\ UNCHANGED <<vars, provider, subPc, count, answer, result, txFile, nodeVars>>

\* The rest of the gouroboros provider: queries come before the submission.
ProviderNext ==
  /\ provider = "gouroboros"
  /\ \/ \E p \in Caller : subPc[p] = "idle" /\ CallNext(p)
     \/ Loop
     \/ Dispose
     \/ DisposeConnection
     \/ \E c \in Conn : ConnectionFails(c)
  /\ UNCHANGED subVars

\* What the goroutine of a submission does by itself.
SubmitStep(p) ==
  \/ RetriesEnd(p)
  \/ HttpNotSent(p) \/ HttpSend(p) \/ HttpGivesUp(p)
  \/ CliWrite(p) \/ CliRun(p)
  \/ GouroborosSend(p) \/ GouroborosNotSent(p) \/ GouroborosBreaks(p)
  \/ Decide(p) \/ SelectTime(p) \/ SelectContext(p)

SubmissionNext ==
  /\ \A p \in Caller : callPc[p] # "panicked"
  /\ \/ \E p \in Caller : SubmitTx(p) \/ SubmitStep(p) \/ ContextEnds(p)
     \/ \E p \in Caller : Gateway(p) \/ HttpBreaks(p)
     \/ \E r \in inflight : NodeHandles(r)
     \/ ProviderNext

SubmissionSpec == SubmissionInit /\ [][SubmissionNext]_allVars

\* Goroutines run, an entered select that is ready again and again takes closeCh at
\* last, and a gouroboros call ends when its timeout does.  The node and the network
\* need not answer, and the application need not call.
SubmissionFairSpec ==
  /\ SubmissionSpec
  /\ \A p \in Caller : WF_allVars(SubmitStep(p))
  /\ WF_allVars(provider = "gouroboros" /\ Loop /\ UNCHANGED subVars)
  /\ SF_allVars(provider = "gouroboros" /\ LoopQuits /\ UNCHANGED subVars)

-----------------------------------------------------------------------------
(* Properties *)

\* What a try comes back with.
Answers == {"none", "timeout", "refused", "context", "status 429", "status 500",
            "no error named", "accepted", "rejected"}

SubmissionTypeOK ==
  /\ TypeOK
  /\ provider \in Providers
  /\ ctxDone \in [Caller -> BOOLEAN]
  /\ subPc \in [Caller -> {"idle", "try", "written", "waiting", "answered", "select", "returned"}]
  /\ count \in [Caller -> 0..RetryCount]
  /\ answer \in [Caller -> Answers]
  /\ result \in [Caller -> Answers \cup {"nil", "unsigned", "retries"}]
  /\ txFile \subseteq Caller /\ accepted \subseteq Caller
  /\ inflight \subseteq [from : Caller, try : 0..RetryCount, tx : Caller]

Alone(p) == \A q \in Caller \ {p} : subPc[q] = "idle"

\* A submission that returns no error has been taken by the node, after any number of
\* retries, lost answers and late requests.  Not so with Cats when a body names no
\* error, nor when two submissions of one cli provider overlap: the file of the one is
\* then submitted in place of the other.
SubmittedMeansAccepted ==
  \A p \in Caller :
    result[p] = "nil" =>
      \/ p \in accepted
      \/ provider = "cats" /\ answer[p] = "no error named"
      \/ provider = "cli" /\ ~Alone(p)

\* A rejection that is returned for a transaction the node has taken is the answer to a
\* retry; the first try of a submission is never rejected on account of itself.
RejectedAfterRetry ==
  \A p \in Caller :
    result[p] = "rejected" /\ p \in accepted =>
      \/ count[p] > 0
      \/ provider = "cli" /\ ~Alone(p)

Panicked == \E p \in Caller : callPc[p] = "panicked"

\* A submission whose context is done returns, whatever the node does, unless it waits
\* for cardano-cli; with gouroboros it returns without a context as well.
SubmissionReturns ==
  \A p \in Caller :
    subPc[p] # "idle" /\ ((Http /\ ctxDone[p]) \/ provider = "gouroboros")
      ~> subPc[p] = "returned" \/ Panicked
=============================================================================
