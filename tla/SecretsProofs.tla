--------------------------- MODULE SecretsProofs ---------------------------
(***************************************************************************)
(* The promises of the secrets managers for every set of callers and       *)
(* values and any number of calls.                                         *)
(***************************************************************************)
EXTENDS Secrets, TLAPS

\* A change that nobody has overlapped is the only one under way.
Alone ==
  \A c, d \in Caller :
    Changing(c) /\ ~overlapped[c] /\ Changing(d) => d = c

\* It finds the store as its earlier steps have left it.
Undisturbed ==
  \A c \in Caller :
    op[c] = "set" /\ ~overlapped[c] =>
      /\ pc[c] = "write" => linked[c]
      /\ pc[c] = "add" => there /\ data = Empty

\* While a set is promised the changes under way are sets that have still to
\* meet the check that refuses them.
PromiseHolds ==
  promised # None =>
    /\ there
    /\ data = promised
    /\ \A c \in Caller : Changing(c) =>
         op[c] = "set" /\ pc[c] = "begun" /\ backend # "vault"

\* In a file that its owner may not write again at most one write is under
\* way, and it finds the file empty.
OneWriter ==
  backend = "local" /\ ~root =>
    \A c \in Caller : pc[c] = "write" /\ linked[c] =>
      /\ there
      /\ data = Empty
      /\ \A d \in Caller : pc[d] = "write" /\ linked[d] => d = c

\* Vault and AWS keep no name without a value.
WholeValues ==
  backend \in {"vault", "aws"} /\ there => data \in Value

IInv ==
  /\ TypeOK
  /\ Alone
  /\ Undisturbed
  /\ PromiseHolds
  /\ OneWriter
  /\ WholeValues

\* The invariant holds at the start.
LEMMA InitIInv == Init => IInv
<1> SUFFICES ASSUME Init PROVE IInv
  OBVIOUS
<1>1. TypeOK
  BY SecretsAssumption DEF Init, TypeOK, Pc, Op, Result, Outcome
<1>2. Alone /\ Undisturbed /\ OneWriter /\ WholeValues
  BY DEF Init, Alone, Undisturbed, OneWriter, WholeValues, Changing
<1>3. PromiseHolds
  BY DEF Init, PromiseHolds
<1> QED
  BY <1>1, <1>2, <1>3 DEF IInv

\* A new call preserves it.
LEMMA BeginIInv ==
  ASSUME IInv, NEW c \in Caller, NEW o \in Op, NEW v \in Value, Begin(c, o, v)
  PROVE  IInv'
<1> USE DEF IInv
<1>1. TypeOK'
  <2>1. overlapped' \in [Caller -> BOOLEAN]
    <3>1. \A d \in Caller :
            (\E e \in Caller \ {c} : Changing(e)) \in BOOLEAN
            /\ (overlapped[d] \/ Changing(d)) \in BOOLEAN
      OBVIOUS
    <3>2. \A d \in Caller : overlapped[d] \in BOOLEAN
      BY DEF TypeOK
    <3> QED
      BY <3>1, <3>2, Zenon DEF Begin
  <2>2. /\ pc' \in [Caller -> Pc]
        /\ op' \in [Caller -> Op]
        /\ value' \in [Caller -> Value]
        /\ calls' \in Nat
        /\ promised' \in Value \cup {None}
    BY DEF TypeOK, Begin, Pc
  <2> QED
    BY <2>1, <2>2 DEF TypeOK, Begin, store
<1>2. Alone'
  BY DEF Begin, Alone, TypeOK, Changing, Pc, Op
<1>3. Undisturbed'
  BY DEF Begin, Undisturbed, TypeOK, Changing, store
<1>4. PromiseHolds'
  BY DEF Begin, PromiseHolds, TypeOK, Changing, store, Op
<1>5. OneWriter'
  BY DEF Begin, OneWriter, TypeOK, store
<1>6. WholeValues'
  BY DEF Begin, WholeValues, store
<1> QED
  BY <1>1, <1>2, <1>3, <1>4, <1>5, <1>6

\* A call that goes on or returns keeps the types of what callers see.
CallerTypes ==
  /\ pc \in [Caller -> Pc]
  /\ result \in [Caller -> Result]
  /\ overlapped \in [Caller -> BOOLEAN]
  /\ promised \in Value \cup {None}

LEMMA ReturnTypes ==
  ASSUME TypeOK, NEW c \in Caller, NEW outcome \in Outcome,
         NEW v \in Value \cup {Empty, None}, Return(c, outcome, v)
  PROVE  CallerTypes'
BY DEF TypeOK, Return, CallerTypes, Pc, Result

LEMMA GotoTypes ==
  ASSUME TypeOK, NEW c \in Caller, NEW where \in Pc, Goto(c, where)
  PROVE  CallerTypes'
BY DEF TypeOK, Goto, CallerTypes

LEMMA AnswerIsOutcome == \A ok \in BOOLEAN : Answer(ok) \in Outcome
BY DEF Answer, Outcome

\* A step of a call keeps the types.
LEMMA StepTypeOK ==
  ASSUME TypeOK, NEW c \in Caller, Step(c)
  PROVE  TypeOK'
<1> DEFINE StoreTypes == /\ there \in BOOLEAN
                         /\ data \in Value \cup {Empty}
                         /\ knew \in [Caller -> BOOLEAN]
                         /\ linked \in [Caller -> BOOLEAN]
<1> USE SecretsAssumption, AnswerIsOutcome
<1>1. CallerTypes' /\ StoreTypes' => TypeOK'
  BY DEF Step, TypeOK, CallerTypes
<1>2. CASE LocalStep(c)
  <2>1. CASE LocalGet(c)
    <3>1. CallerTypes'
      BY <2>1, ReturnTypes, GotoTypes, AnswerIsOutcome DEF LocalGet, TypeOK, Pc, Outcome
    <3>2. StoreTypes'
      BY <2>1 DEF LocalGet, TypeOK, store, Store, Erase
    <3> QED
      BY <1>1, <3>1, <3>2
  <2>2. CASE LocalCheck(c)
    <3>1. CallerTypes'
      BY <2>2, ReturnTypes, GotoTypes, AnswerIsOutcome DEF LocalCheck, TypeOK, Pc, Outcome
    <3>2. StoreTypes'
      BY <2>2 DEF LocalCheck, TypeOK, store, Store, Erase
    <3> QED
      BY <1>1, <3>1, <3>2
  <2>3. CASE LocalStat(c)
    <3>1. CallerTypes'
      BY <2>3, ReturnTypes, GotoTypes, AnswerIsOutcome DEF LocalStat, TypeOK, Pc, Outcome
    <3>2. StoreTypes'
      BY <2>3 DEF LocalStat, TypeOK, store, Store, Erase
    <3> QED
      BY <1>1, <3>1, <3>2
  <2>4. CASE LocalExists(c)
    <3>1. CallerTypes'
      BY <2>4, ReturnTypes, GotoTypes, AnswerIsOutcome DEF LocalExists, TypeOK, Pc, Outcome
    <3>2. StoreTypes'
      BY <2>4 DEF LocalExists, TypeOK, store, Store, Erase
    <3> QED
      BY <1>1, <3>1, <3>2
  <2>5. CASE LocalOpen(c)
    <3>1. CallerTypes'
      BY <2>5, ReturnTypes, GotoTypes, AnswerIsOutcome DEF LocalOpen, TypeOK, Pc, Outcome
    <3>2. StoreTypes'
      BY <2>5 DEF LocalOpen, TypeOK, store, Store, Erase
    <3> QED
      BY <1>1, <3>1, <3>2
  <2>6. CASE LocalWrite(c)
    <3>1. CallerTypes'
      BY <2>6, ReturnTypes, GotoTypes, AnswerIsOutcome DEF LocalWrite, TypeOK, Pc, Outcome
    <3>2. StoreTypes'
      BY <2>6 DEF LocalWrite, TypeOK, store, Store, Erase
    <3> QED
      BY <1>1, <3>1, <3>2
  <2>7. CASE LocalWriteFails(c)
    <3>1. CallerTypes'
      BY <2>7, ReturnTypes, GotoTypes, AnswerIsOutcome DEF LocalWriteFails, TypeOK, Pc, Outcome
    <3>2. StoreTypes'
      BY <2>7 DEF LocalWriteFails, TypeOK, store, Store, Erase
    <3> QED
      BY <1>1, <3>1, <3>2
  <2>8. CASE LocalRemove(c)
    <3>1. CallerTypes'
      BY <2>8, ReturnTypes, GotoTypes, AnswerIsOutcome DEF LocalRemove, TypeOK, Pc, Outcome
    <3>2. StoreTypes'
      BY <2>8 DEF LocalRemove, TypeOK, store, Store, Erase
    <3> QED
      BY <1>1, <3>1, <3>2
  <2> QED
    BY <1>2, <2>1, <2>2, <2>3, <2>4, <2>5, <2>6, <2>7, <2>8 DEF LocalStep
<1>3. CASE ServiceStep(c)
  <2> SUFFICES ASSUME NEW sent \in BOOLEAN, NEW heard \in BOOLEAN,
                      NEW refused \in BOOLEAN,
                      \/ ServiceGet(c, heard) \/ ServiceCheckRemove(c, heard)
                      \/ VaultSet(c, sent, heard) \/ AwsSet(c, sent, heard)
                      \/ GcpCreate(c, sent, heard) \/ GcpAdd(c, sent, heard)
                      \/ ServiceDelete(c, sent, heard)
                      \/ GcpDelete(c, sent, heard, refused)
               PROVE  TypeOK'
    BY <1>3 DEF ServiceStep
  <2>1. CASE ServiceGet(c, heard)
    <3>1. CallerTypes'
      BY <2>1, ReturnTypes, GotoTypes, AnswerIsOutcome
      DEF ServiceGet, TypeOK, Pc, Outcome, Backend, Readable, Placeholder, Overwrite
    <3>2. StoreTypes'
      BY <2>1 DEF ServiceGet, TypeOK, store, Store, Erase
    <3> QED
      BY <1>1, <3>1, <3>2
  <2>2. CASE ServiceCheckRemove(c, heard)
    <3>1. CallerTypes'
      BY <2>2, ReturnTypes, GotoTypes, AnswerIsOutcome
      DEF ServiceCheckRemove, TypeOK, Pc, Outcome, Backend, Readable, Placeholder, Overwrite
    <3>2. StoreTypes'
      BY <2>2 DEF ServiceCheckRemove, TypeOK, store, Store, Erase
    <3> QED
      BY <1>1, <3>1, <3>2
  <2>3. CASE VaultSet(c, sent, heard)
    <3>1. CallerTypes'
      BY <2>3, ReturnTypes, GotoTypes, AnswerIsOutcome
      DEF VaultSet, TypeOK, Pc, Outcome, Backend, Readable, Placeholder, Overwrite
    <3>2. StoreTypes'
      BY <2>3 DEF VaultSet, TypeOK, store, Store, Erase
    <3> QED
      BY <1>1, <3>1, <3>2
  <2>4. CASE AwsSet(c, sent, heard)
    <3>1. CallerTypes'
      BY <2>4, ReturnTypes, GotoTypes, AnswerIsOutcome
      DEF AwsSet, TypeOK, Pc, Outcome, Backend, Readable, Placeholder, Overwrite
    <3>2. StoreTypes'
      BY <2>4 DEF AwsSet, TypeOK, store, Store, Erase
    <3> QED
      BY <1>1, <3>1, <3>2
  <2>5. CASE GcpCreate(c, sent, heard)
    <3>1. CallerTypes'
      BY <2>5, ReturnTypes, GotoTypes, AnswerIsOutcome
      DEF GcpCreate, TypeOK, Pc, Outcome, Backend, Readable, Placeholder, Overwrite
    <3>2. StoreTypes'
      BY <2>5 DEF GcpCreate, TypeOK, store, Store, Erase
    <3> QED
      BY <1>1, <3>1, <3>2
  <2>6. CASE GcpAdd(c, sent, heard)
    <3>1. CallerTypes'
      BY <2>6, ReturnTypes, GotoTypes, AnswerIsOutcome
      DEF GcpAdd, TypeOK, Pc, Outcome, Backend, Readable, Placeholder, Overwrite
    <3>2. StoreTypes'
      BY <2>6 DEF GcpAdd, TypeOK, store, Store, Erase
    <3> QED
      BY <1>1, <3>1, <3>2
  <2>7. CASE ServiceDelete(c, sent, heard)
    <3>1. CallerTypes'
      BY <2>7, ReturnTypes, GotoTypes, AnswerIsOutcome
      DEF ServiceDelete, TypeOK, Pc, Outcome, Backend, Readable, Placeholder, Overwrite
    <3>2. StoreTypes'
      BY <2>7 DEF ServiceDelete, TypeOK, store, Store, Erase
    <3> QED
      BY <1>1, <3>1, <3>2
  <2>8. CASE GcpDelete(c, sent, heard, refused)
    <3>1. CallerTypes'
      BY <2>8, ReturnTypes, GotoTypes, AnswerIsOutcome
      DEF GcpDelete, TypeOK, Pc, Outcome, Backend, Readable, Placeholder, Overwrite
    <3>2. StoreTypes'
      BY <2>8 DEF GcpDelete, TypeOK, store, Store, Erase
    <3> QED
      BY <1>1, <3>1, <3>2
  <2> QED
    BY <2>1, <2>2, <2>3, <2>4, <2>5, <2>6, <2>7, <2>8
<1>4. CASE Crash(c)
  <2>1. CallerTypes'
    BY <1>4, ReturnTypes DEF Crash, Outcome
  <2> QED
    BY <1>1, <1>4, <2>1 DEF Crash, TypeOK, store
<1> QED
  BY <1>2, <1>3, <1>4 DEF Step

\* The steps of one call, one by one.
StepCases(c, sent, heard, refused) ==
  \/ LocalGet(c) \/ LocalCheck(c) \/ LocalStat(c) \/ LocalExists(c)
  \/ LocalOpen(c) \/ LocalWrite(c) \/ LocalWriteFails(c) \/ LocalRemove(c)
  \/ ServiceGet(c, heard) \/ ServiceCheckRemove(c, heard)
  \/ VaultSet(c, sent, heard) \/ AwsSet(c, sent, heard)
  \/ GcpCreate(c, sent, heard) \/ GcpAdd(c, sent, heard)
  \/ ServiceDelete(c, sent, heard) \/ GcpDelete(c, sent, heard, refused)
  \/ Crash(c)

LEMMA StepIsACase ==
  ASSUME NEW c \in Caller, Step(c)
  PROVE  \E sent, heard, refused \in BOOLEAN : StepCases(c, sent, heard, refused)
<1>1. CASE LocalStep(c) \/ Crash(c)
  BY <1>1 DEF LocalStep, StepCases
<1>2. CASE ServiceStep(c)
  BY <1>2 DEF ServiceStep, StepCases
<1> QED
  BY <1>1, <1>2 DEF Step

\* A step goes on or returns, of its own call only.
LEMMA StepFrame ==
  ASSUME TypeOK, NEW c \in Caller, Step(c)
  PROVE  /\ pc[c] # "idle"
         /\ \A d \in Caller \ {c} : pc'[d] = pc[d]
         /\ UNCHANGED <<backend, root, op, value, overlapped>>
<1> PICK sent \in BOOLEAN, heard \in BOOLEAN, refused \in BOOLEAN :
        StepCases(c, sent, heard, refused)
  BY StepIsACase
<1>1. pc[c] # "idle"
  BY DEF StepCases, At, LocalGet, LocalCheck, LocalStat, LocalExists,
     LocalOpen, LocalWrite, LocalWriteFails, LocalRemove, ServiceGet,
     ServiceCheckRemove, VaultSet, AwsSet, GcpCreate, GcpAdd, ServiceDelete,
     GcpDelete, Crash
<1>2. (\E where \in Pc : Goto(c, where))
      \/ \E outcome, v : Return(c, outcome, v)
  BY DEF StepCases, LocalGet, LocalCheck, LocalStat, LocalExists,
     LocalOpen, LocalWrite, LocalWriteFails, LocalRemove, ServiceGet,
     ServiceCheckRemove, VaultSet, AwsSet, GcpCreate, GcpAdd, ServiceDelete,
     GcpDelete, Crash, Pc
<1>3. /\ \A d \in Caller \ {c} : pc'[d] = pc[d]
      /\ overlapped' = overlapped
  BY <1>2 DEF Goto, Return, TypeOK
<1> QED
  BY <1>1, <1>3 DEF Step

\* A step never makes a call a change.
LEMMA StepAlone ==
  ASSUME TypeOK, Alone, NEW c \in Caller, Step(c)
  PROVE  Alone'
BY StepFrame DEF Alone, Changing

\* A step disturbs no change that it does not overlap.
LEMMA StepUndisturbed ==
  ASSUME TypeOK, Alone, Undisturbed, NEW c \in Caller, Step(c)
  PROVE  Undisturbed'
<1> PICK sent \in BOOLEAN, heard \in BOOLEAN, refused \in BOOLEAN :
        StepCases(c, sent, heard, refused)
  BY StepIsACase
<1> USE StepFrame DEF Undisturbed, TypeOK, At, Goto, Return
<1>1. CASE UNCHANGED store /\ UNCHANGED linked /\ pc'[c] \notin {"write", "add"}
  BY <1>1 DEF store
<1>2. Changing(c) => \A d \in Caller \ {c} :
        op[d] = "set" /\ ~overlapped[d] => pc[d] = "idle"
  BY DEF Alone, Changing
<1>3. ASSUME Changing(c), pc'[c] \notin {"write", "add"} PROVE Undisturbed'
  BY <1>2, <1>3
<1>4. CASE LocalOpen(c)
  BY <1>2, <1>4 DEF LocalOpen, Changing, Store
<1>5. CASE GcpCreate(c, sent, heard)
  BY <1>2, <1>5 DEF GcpCreate, Changing, Store, Placeholder
<1>6. CASE ~LocalOpen(c) /\ ~GcpCreate(c, sent, heard)
  <2>1. pc'[c] \notin {"write", "add"}
    BY <1>6 DEF StepCases, LocalGet, LocalCheck, LocalStat, LocalExists,
     LocalWrite, LocalWriteFails, LocalRemove, ServiceGet,
     ServiceCheckRemove, VaultSet, AwsSet, GcpAdd, ServiceDelete,
     GcpDelete, Crash
  <2>2. CASE Changing(c)
    BY <1>3, <2>1, <2>2
  <2>3. CASE ~Changing(c)
    BY <1>1, <1>6, <2>1, <2>3 DEF Changing, StepCases, LocalGet, LocalCheck,
     LocalStat, LocalExists, LocalWrite, LocalWriteFails, LocalRemove,
     ServiceGet, ServiceCheckRemove, VaultSet, AwsSet, GcpAdd, ServiceDelete,
     GcpDelete, Crash
  <2> QED
    BY <2>2, <2>3
<1> QED
  BY <1>4, <1>5, <1>6

\* A promise is made by a set that nobody overlapped, and no step that is
\* possible while it lasts touches the store.
LEMMA StepPromise ==
  ASSUME IInv, NEW c \in Caller, Step(c)
  PROVE  PromiseHolds'
<1> PICK sent \in BOOLEAN, heard \in BOOLEAN, refused \in BOOLEAN :
        StepCases(c, sent, heard, refused)
  BY StepIsACase
<1> USE StepFrame DEF IInv
<1> DEFINE Kept == \/ promised' = None
                   \/ promised = promised' /\ UNCHANGED store
                        /\ (pc'[c] = "idle" \/ ~Changing(c))
           Made == /\ there' /\ data' = promised' /\ pc'[c] = "idle"
                   /\ op[c] = "set" /\ ~overlapped[c] /\ Changing(c)
<1>1. CASE Kept
  BY <1>1 DEF PromiseHolds, TypeOK, store, Changing
<1>2. CASE Made
  BY <1>2 DEF PromiseHolds, TypeOK, Alone, Changing
<1> USE DEF TypeOK, At, Goto, Return, Answer, store, PromiseHolds, Changing
<1>3. CASE LocalGet(c)
  BY <1>1, <1>3 DEF LocalGet
<1>4. CASE LocalCheck(c)
  BY <1>1, <1>4 DEF LocalCheck, Initialized
<1>5. CASE LocalStat(c)
  BY <1>1, <1>5 DEF LocalStat
<1>6. CASE LocalExists(c)
  BY <1>1, <1>6 DEF LocalExists
<1>7. CASE LocalOpen(c)
  BY <1>1, <1>7 DEF LocalOpen
<1>8. CASE LocalWrite(c)
  BY <1>1, <1>2, <1>8 DEF LocalWrite, Undisturbed, Store
<1>9. CASE LocalWriteFails(c)
  BY <1>1, <1>9 DEF LocalWriteFails
<1>10. CASE LocalRemove(c)
  BY <1>1, <1>10 DEF LocalRemove
<1>11. CASE ServiceGet(c, heard)
  BY <1>1, <1>11 DEF ServiceGet
<1>12. CASE ServiceCheckRemove(c, heard)
  BY <1>1, <1>12 DEF ServiceCheckRemove
<1>13. CASE VaultSet(c, sent, heard)
  BY <1>1, <1>2, <1>13 DEF VaultSet, Store
<1>14. CASE AwsSet(c, sent, heard)
  BY <1>1, <1>2, <1>14 DEF AwsSet, Overwrite, Store
<1>15. CASE GcpCreate(c, sent, heard)
  BY <1>1, <1>15 DEF GcpCreate, Placeholder
<1>16. CASE GcpAdd(c, sent, heard)
  BY <1>1, <1>2, <1>16 DEF GcpAdd, Undisturbed, Store
<1>17. CASE ServiceDelete(c, sent, heard)
  BY <1>1, <1>17 DEF ServiceDelete
<1>18. CASE GcpDelete(c, sent, heard, refused)
  BY <1>1, <1>18 DEF GcpDelete
<1>19. CASE Crash(c)
  BY <1>1, <1>19 DEF Crash
<1> QED
  BY <1>3, <1>4, <1>5, <1>6, <1>7, <1>8, <1>9, <1>10, <1>11, <1>12, <1>13,
     <1>14, <1>15, <1>16, <1>17, <1>18, <1>19 DEF StepCases

\* A step of the local manager changes the store only where it opens, writes
\* or removes the file.
LEMMA StepOneWriter ==
  ASSUME TypeOK, OneWriter, NEW c \in Caller, Step(c)
  PROVE  OneWriter'
<1> PICK sent \in BOOLEAN, heard \in BOOLEAN, refused \in BOOLEAN :
        StepCases(c, sent, heard, refused)
  BY StepIsACase
<1> SUFFICES ASSUME backend = "local", ~root
             PROVE  OneWriter'
  BY StepFrame DEF OneWriter
<1> USE StepFrame DEF OneWriter, TypeOK, At, Goto, Return, store
<1>1. CASE LocalOpen(c)
  BY <1>1 DEF LocalOpen, MayOpen, Store
<1>2. CASE LocalWrite(c)
  BY <1>2 DEF LocalWrite, Store
<1>3. CASE LocalRemove(c)
  BY <1>3 DEF LocalRemove, Erase
<1>4. CASE ~LocalOpen(c) /\ ~LocalWrite(c) /\ ~LocalRemove(c)
  <2>1. pc'[c] # "write" /\ UNCHANGED <<store, linked>>
    BY <1>4 DEF StepCases, LocalGet, LocalCheck, LocalStat, LocalExists,
       LocalWriteFails, ServiceGet, ServiceCheckRemove, VaultSet, AwsSet,
       GcpCreate, GcpAdd, ServiceDelete, GcpDelete, Crash, Services
  <2> QED
    BY <2>1
<1> QED
  BY <1>1, <1>2, <1>3, <1>4

\* Vault and AWS store a value at once.
LEMMA StepWholeValues ==
  ASSUME TypeOK, WholeValues, NEW c \in Caller, Step(c)
  PROVE  WholeValues'
<1> PICK sent \in BOOLEAN, heard \in BOOLEAN, refused \in BOOLEAN :
        StepCases(c, sent, heard, refused)
  BY StepIsACase
<1> SUFFICES ASSUME backend \in {"vault", "aws"}
             PROVE  WholeValues'
  BY StepFrame DEF WholeValues
<1> USE StepFrame DEF WholeValues, TypeOK, At, store
<1>1. CASE VaultSet(c, sent, heard) \/ AwsSet(c, sent, heard)
  BY <1>1 DEF VaultSet, AwsSet, Store, Overwrite
<1>2. CASE ServiceDelete(c, sent, heard)
  BY <1>2 DEF ServiceDelete, Erase
<1>3. CASE ~(VaultSet(c, sent, heard) \/ AwsSet(c, sent, heard)
             \/ ServiceDelete(c, sent, heard))
  BY <1>3 DEF StepCases, LocalGet, LocalCheck, LocalStat, LocalExists,
     LocalOpen, LocalWrite, LocalWriteFails, LocalRemove, ServiceGet,
     ServiceCheckRemove, GcpCreate, GcpAdd, GcpDelete, Crash
<1> QED
  BY <1>1, <1>2, <1>3

\* The invariant is inductive.
LEMMA NextIInv == IInv /\ [Next]_vars => IInv'
<1> SUFFICES ASSUME IInv, [Next]_vars PROVE IInv'
  OBVIOUS
<1>1. CASE UNCHANGED vars
  BY <1>1 DEF vars, store, caller, IInv, TypeOK, Alone, Undisturbed,
     PromiseHolds, OneWriter, WholeValues, Changing
<1>2. CASE Next
  <2> PICK c \in Caller : Step(c) \/ \E o \in Op, v \in Value : Begin(c, o, v)
    BY <1>2 DEF Next
  <2>1. CASE Step(c)
    BY <2>1, StepTypeOK, StepAlone, StepUndisturbed, StepPromise,
       StepOneWriter, StepWholeValues DEF IInv
  <2>2. CASE \E o \in Op, v \in Value : Begin(c, o, v)
    BY <2>2, BeginIInv
  <2> QED
    BY <2>1, <2>2
<1> QED
  BY <1>1, <1>2

LEMMA Invariance == Spec => []IInv
BY InitIInv, NextIInv, PTL DEF Spec

\* The state of every run has its types.
THEOREM TypeCorrect == Spec => []TypeOK
<1>1. IInv => TypeOK
  BY DEF IInv
<1> QED
  BY <1>1, Invariance, PTL

\* Whatever callers, crashes and failed calls there are, a secret reported
\* set by a set that ran alone is what the store holds until somebody asks to
\* remove it or, in Vault, to set it again.
THEOREM SetSecretIsKept == Spec => []KeepsWhatWasSet
<1>1. IInv => KeepsWhatWasSet
  BY DEF IInv, PromiseHolds, KeepsWhatWasSet
<1> QED
  BY <1>1, Invariance, PTL

\* AWS and GCP never replace a value, and neither does the local manager of a
\* user whom the mode of the file stops.
THEOREM ValueIsNeverReplaced == Spec => NeverReplaced
<1> DEFINE Kept == there /\ data \in Value /\ there' =>
             data' = data \/ backend = "vault" \/ (backend = "local" /\ root)
<1>1. ASSUME IInv, Next PROVE Kept
  <2> PICK c \in Caller : Step(c) \/ \E o \in Op, v \in Value : Begin(c, o, v)
    BY <1>1 DEF Next
  <2>1. CASE \E o \in Op, v \in Value : Begin(c, o, v)
    BY <2>1 DEF Begin, store
  <2>2. CASE Step(c)
    <3> PICK sent \in BOOLEAN, heard \in BOOLEAN, refused \in BOOLEAN :
            StepCases(c, sent, heard, refused)
      BY <2>2, StepIsACase
    <3>1. CASE LocalOpen(c) \/ LocalWrite(c) \/ LocalRemove(c)
      BY <1>1, <3>1, SecretsAssumption DEF LocalOpen, LocalWrite, LocalRemove,
         MayOpen, IInv, OneWriter, At, Erase, store
    <3>2. CASE VaultSet(c, sent, heard) \/ AwsSet(c, sent, heard)
               \/ GcpCreate(c, sent, heard) \/ GcpAdd(c, sent, heard)
      BY <3>2, SecretsAssumption DEF VaultSet, AwsSet, GcpCreate, GcpAdd,
         Overwrite, Placeholder, At, store
    <3>3. CASE ServiceDelete(c, sent, heard) \/ GcpDelete(c, sent, heard, refused)
      BY <3>3 DEF ServiceDelete, GcpDelete, Erase, store
    <3> QED
      BY <3>1, <3>2, <3>3 DEF StepCases, LocalGet, LocalCheck, LocalStat,
         LocalExists, LocalWriteFails, ServiceGet, ServiceCheckRemove, Crash,
         store
  <2> QED
    BY <2>1, <2>2
<1>2. IInv /\ [Next]_vars => [Kept]_vars
  BY <1>1
<1> QED
  BY <1>2, Invariance, PTL DEF Spec, NeverReplaced

\* What a failed local or GCP set has left stays as it is until a remove.
THEOREM HalfSetStays == Spec => HalfSetNeedsRemoval
<1> DEFINE Stays == HalfSet => HalfSet' \/ ~there'
<1>1. ASSUME IInv, Next PROVE Stays
  <2> SUFFICES ASSUME HalfSet PROVE HalfSet' \/ ~there'
    OBVIOUS
  <2> PICK c \in Caller : Step(c) \/ \E o \in Op, v \in Value : Begin(c, o, v)
    BY <1>1 DEF Next
  <2>1. CASE \E o \in Op, v \in Value : Begin(c, o, v)
    BY <1>1, <2>1 DEF Begin, store, HalfSet, PastCheck, IInv, TypeOK
  <2>2. CASE Step(c)
    <3> PICK sent \in BOOLEAN, heard \in BOOLEAN, refused \in BOOLEAN :
            StepCases(c, sent, heard, refused)
      BY <2>2, StepIsACase
    <3>1. (UNCHANGED store \/ ~there') /\ ~PastCheck(c)'
      BY <1>1, <2>2, SecretsAssumption DEF StepCases, LocalGet, LocalCheck,
         LocalStat, LocalExists, LocalOpen, LocalWrite, LocalWriteFails,
         LocalRemove, ServiceGet, ServiceCheckRemove, VaultSet, AwsSet,
         GcpCreate, GcpAdd, ServiceDelete, GcpDelete, Crash, At, Goto, Return,
         Erase, HalfSet, PastCheck, Initialized, Placeholder, Overwrite, IInv,
         TypeOK, WholeValues, Step, store
    <3> QED
      BY <1>1, <2>2, <3>1, StepFrame DEF HalfSet, PastCheck, store, IInv
  <2> QED
    BY <2>1, <2>2
<1>2. IInv /\ [Next]_vars => [Stays]_vars
  BY <1>1
<1> QED
  BY <1>2, Invariance, PTL DEF Spec, HalfSetNeedsRemoval
=============================================================================
