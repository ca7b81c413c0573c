------------------------------ MODULE Secrets ------------------------------
(***************************************************************************)
(* The four secrets managers (package secrets) behind one interface, seen  *)
(* through one name that several callers get, set, test and remove.  The   *)
(* local manager works on a file in several system calls of which its lock *)
(* covers only the look-up of the path; GCP sets a secret with two calls   *)
(* (the placeholder, then its version); Vault and AWS remove one with two. *)
(* A caller may stop between any two steps, a write to disk may fail, and  *)
(* a call to a service may fail before or after the service has done it.   *)
(*                                                                         *)
(* The owner of the file is the user the callers run as; values have equal *)
(* lengths, as keys of one kind do, so that a second write over the same   *)
(* file replaces the first.                                                *)
(***************************************************************************)
EXTENDS Naturals

CONSTANTS Caller,    \* goroutines or processes that share the name
          Value,     \* what they set
          Empty,     \* a file without contents, a placeholder without version
          None,      \* no value
          MaxCalls   \* bound: calls made

ASSUME SecretsAssumption ==
  /\ Empty \notin Value
  /\ None \notin Value \cup {Empty}
  /\ MaxCalls \in Nat

Backend == {"local", "vault", "aws", "gcp"}

VARIABLES
  backend,     \* the manager CreateSecretsManager made
  root,        \* whether the callers may write to a file of mode 0440
  there, data, \* whether the name exists in the store, and what it holds
  pc,          \* where the call of each caller is
  op, value,   \* the call it makes
  knew,        \* local: what os.Stat said before the write
  linked,      \* local: the file it has open still has its name
  result,      \* what the last call of each caller returned
  calls,       \* calls made
  overlapped,  \* history: another set or remove ran during its own
  promised     \* history: the value a set that ran alone has reported set

store == <<there, data>>
caller == <<op, value, knew, linked>>
vars == <<backend, root, store, pc, caller, result, calls, overlapped, promised>>

Op == {"get", "has", "set", "remove"}
Pc == {"idle", "begun", "stat", "exists", "open", "write", "add", "delete"}
Outcome == {"none", "ok", "error", "panic", "crash"}
Result == [outcome : Outcome, value : Value \cup {Empty, None}]

\* A call that may change the secret is under way.
Changing(c) == pc[c] # "idle" /\ op[c] \in {"set", "remove"}

Init ==
  /\ backend \in Backend
  /\ root \in BOOLEAN
  /\ there = FALSE
  /\ data = Empty
  /\ pc = [c \in Caller |-> "idle"]
  /\ op = [c \in Caller |-> "get"]
  /\ value \in [Caller -> Value]
  /\ knew = [c \in Caller |-> FALSE]
  /\ linked = [c \in Caller |-> FALSE]
  /\ result = [c \in Caller |-> [outcome |-> "none", value |-> None]]
  /\ calls = 0
  /\ overlapped = [c \in Caller |-> FALSE]
  /\ promised = None

\* A caller calls the manager.  A set that was reported set is given up by
\* a remove, and by a set of the one manager that overwrites.
Begin(c, o, v) ==
  /\ pc[c] = "idle"
  /\ calls < MaxCalls
  /\ calls' = calls + 1
  /\ pc' = [pc EXCEPT ![c] = "begun"]
  /\ op' = [op EXCEPT ![c] = o]
  /\ value' = [value EXCEPT ![c] = v]
  /\ overlapped' =
       [d \in Caller |->
          IF o \notin {"set", "remove"} THEN overlapped[d]
          ELSE IF d = c THEN \E e \in Caller \ {c} : Changing(e)
          ELSE overlapped[d] \/ Changing(d)]
  /\ promised' = IF o = "remove" \/ (o = "set" /\ backend = "vault")
                 THEN None ELSE promised
  /\ UNCHANGED <<backend, root, store, knew, linked, result>>

At(c, which, o, where) ==
  backend \in which /\ op[c] = o /\ pc[c] = where

\* The call goes on at its next step.
Goto(c, where) ==
  /\ pc' = [pc EXCEPT ![c] = where]
  /\ UNCHANGED <<result, overlapped, promised>>

\* The call returns.
Return(c, outcome, v) ==
  /\ pc' = [pc EXCEPT ![c] = "idle"]
  /\ result' = [result EXCEPT ![c] = [outcome |-> outcome, value |-> v]]
  /\ promised' = IF op[c] = "set" /\ outcome = "ok" /\ ~overlapped[c]
                 THEN value[c] ELSE promised
  /\ UNCHANGED overlapped

Answer(ok) == IF ok THEN "ok" ELSE "error"

Store(d) == there' = TRUE /\ data' = d
Erase == there' = FALSE /\ data' = Empty

-----------------------------------------------------------------------------
(* The local manager. *)

\* GetSecret, HasSecret: os.ReadFile; a file without contents is a secret.
LocalGet(c) ==
  /\ At(c, {"local"}, op[c], "begun")
  /\ op[c] \in {"get", "has"}
  /\ Return(c, Answer(there), IF there /\ op[c] = "get" THEN data ELSE None)
  /\ UNCHANGED <<store, knew, linked>>

\* FileExists at the check of SetSecret.
InitializedWithContents == there /\ data # Empty
Initialized == there

\* The lock was given up before the check: nothing holds the answer still.
LocalCheck(c) ==
  /\ At(c, {"local"}, "set", "begun")
  /\ IF Initialized THEN Return(c, "error", None) ELSE Goto(c, "stat")
  /\ UNCHANGED <<store, knew, linked>>

\* SaveFileSafe: os.Stat, whose error "does not exist" leaves no FileInfo.
LocalStat(c) ==
  /\ At(c, {"local"}, "set", "stat")
  /\ knew' = [knew EXCEPT ![c] = there]
  /\ Goto(c, "exists")
  /\ UNCHANGED <<store, linked>>

\* FileExists again: a file that has appeared since is verified by the
\* FileInfo that is nil, and the call panics; one of our own passes.
LocalExists(c) ==
  /\ At(c, {"local"}, "set", "exists")
  /\ IF there /\ ~knew[c] THEN Return(c, "panic", None) ELSE Goto(c, "open")
  /\ UNCHANGED <<store, knew, linked>>

\* The file has mode 0440: once it exists its owner cannot open it to write.
MayAlwaysOpen == TRUE
MayOpen == ~there \/ root

\* os.WriteFile creates the file or empties the one that is there.
LocalOpen(c) ==
  /\ At(c, {"local"}, "set", "open")
  /\ IF MayOpen
     THEN /\ Store(Empty)
          /\ linked' = [linked EXCEPT ![c] = TRUE]
          /\ Goto(c, "write")
     ELSE /\ Return(c, "error", None)
          /\ UNCHANGED <<store, linked>>
  /\ UNCHANGED knew

\* The contents reach the file it opened, whether or not that file still
\* has its name.
LocalWrite(c) ==
  /\ At(c, {"local"}, "set", "write")
  /\ IF linked[c] THEN Store(value[c]) ELSE UNCHANGED store
  /\ Return(c, "ok", None)
  /\ UNCHANGED <<knew, linked>>

\* The disk refuses them: the file stays as it is, without contents.
LocalWriteFails(c) ==
  /\ At(c, {"local"}, "set", "write")
  /\ Return(c, "error", None)
  /\ UNCHANGED <<store, knew, linked>>

\* RemoveSecret holds the lock that the writers of files do not hold.
LocalRemove(c) ==
  /\ At(c, {"local"}, "remove", "begun")
  /\ IF there
     THEN Erase /\ linked' = [d \in Caller |-> FALSE]
     ELSE UNCHANGED <<store, linked>>
  /\ Return(c, Answer(there), None)
  /\ UNCHANGED knew

-----------------------------------------------------------------------------
(* The managers of a service.  A call is sent or not, and if it was sent   *)
(* its answer is heard or not.                                             *)

Services == {"vault", "aws", "gcp"}

\* A placeholder has no version to read.
Readable == there /\ data \in Value

ServiceGet(c, heard) ==
  /\ At(c, Services, op[c], "begun")
  /\ op[c] \in {"get", "has"}
  /\ Return(c, Answer(heard /\ Readable),
            IF heard /\ Readable /\ op[c] = "get" THEN data ELSE None)
  /\ UNCHANGED <<store, knew, linked>>

\* Vault writes over what is there.
VaultSet(c, sent, heard) ==
  /\ At(c, {"vault"}, "set", "begun")
  /\ heard => sent
  /\ IF sent THEN Store(value[c]) ELSE UNCHANGED store
  /\ Return(c, Answer(heard), None)
  /\ UNCHANGED <<knew, linked>>

\* AWS is asked not to.
OverwriteAsked == TRUE
Overwrite == FALSE

AwsSet(c, sent, heard) ==
  /\ At(c, {"aws"}, "set", "begun")
  /\ heard => sent
  /\ IF sent /\ (Overwrite \/ ~there) THEN Store(value[c]) ELSE UNCHANGED store
  /\ Return(c, Answer(heard /\ (Overwrite \/ ~there)), None)
  /\ UNCHANGED <<knew, linked>>

\* GCP: CreateSecret, refused when the name exists ...
Placeholder == ~there

GcpCreate(c, sent, heard) ==
  /\ At(c, {"gcp"}, "set", "begun")
  /\ heard => sent
  /\ IF sent /\ Placeholder THEN Store(Empty) ELSE UNCHANGED store
  /\ IF heard /\ Placeholder THEN Goto(c, "add") ELSE Return(c, "error", None)
  /\ UNCHANGED <<knew, linked>>

\* ... and AddSecretVersion.  Only version 1 is ever read.
GcpAdd(c, sent, heard) ==
  /\ At(c, {"gcp"}, "set", "add")
  /\ heard => sent
  /\ IF sent /\ there /\ data = Empty THEN Store(value[c]) ELSE UNCHANGED store
  /\ Return(c, Answer(heard /\ there), None)
  /\ UNCHANGED <<knew, linked>>

\* RemoveSecret of Vault and AWS: GetSecret first ...
ServiceCheckRemove(c, heard) ==
  /\ At(c, {"vault", "aws"}, "remove", "begun")
  /\ IF heard /\ there THEN Goto(c, "delete") ELSE Return(c, "error", None)
  /\ UNCHANGED <<store, knew, linked>>

\* ... then the deletion; AWS refuses that of a name that has gone.
ServiceDelete(c, sent, heard) ==
  /\ At(c, {"vault", "aws"}, "remove", "delete")
  /\ heard => sent
  /\ IF sent THEN Erase ELSE UNCHANGED store
  /\ Return(c, Answer(heard /\ (there \/ backend = "vault")), None)
  /\ UNCHANGED <<knew, linked>>

\* GCP is given the name of a version to delete, which it may refuse.
GcpDelete(c, sent, heard, refused) ==
  /\ At(c, {"gcp"}, "remove", "begun")
  /\ heard => sent
  /\ IF sent /\ ~refused THEN Erase ELSE UNCHANGED store
  /\ Return(c, Answer(heard /\ ~refused /\ there), None)
  /\ UNCHANGED <<knew, linked>>

-----------------------------------------------------------------------------

\* The process of a caller ends between two steps of its call.
Crash(c) ==
  /\ pc[c] # "idle"
  /\ Return(c, "crash", None)
  /\ UNCHANGED <<store, knew, linked>>

LocalStep(c) ==
  \/ LocalGet(c) \/ LocalCheck(c) \/ LocalStat(c) \/ LocalExists(c)
  \/ LocalOpen(c) \/ LocalWrite(c) \/ LocalWriteFails(c) \/ LocalRemove(c)

ServiceStep(c) ==
  \E sent, heard \in BOOLEAN :
    \/ ServiceGet(c, heard) \/ ServiceCheckRemove(c, heard)
    \/ VaultSet(c, sent, heard) \/ AwsSet(c, sent, heard)
    \/ GcpCreate(c, sent, heard) \/ GcpAdd(c, sent, heard)
    \/ ServiceDelete(c, sent, heard)
    \/ \E refused \in BOOLEAN : GcpDelete(c, sent, heard, refused)

Step(c) ==
  /\ LocalStep(c) \/ ServiceStep(c) \/ Crash(c)
  /\ UNCHANGED <<backend, root, op, value, calls>>

Next ==
  \E c \in Caller :
    Step(c) \/ \E o \in Op, v \in Value : Begin(c, o, v)

Spec == Init /\ [][Next]_vars

-----------------------------------------------------------------------------

\* The state has its types.
TypeOK ==
  /\ backend \in Backend
  /\ root \in BOOLEAN
  /\ there \in BOOLEAN
  /\ data \in Value \cup {Empty}
  /\ pc \in [Caller -> Pc]
  /\ op \in [Caller -> Op]
  /\ value \in [Caller -> Value]
  /\ knew \in [Caller -> BOOLEAN]
  /\ linked \in [Caller -> BOOLEAN]
  /\ result \in [Caller -> Result]
  /\ calls \in Nat
  /\ overlapped \in [Caller -> BOOLEAN]
  /\ promised \in Value \cup {None}

\* A secret that a set of its own reported set stays what get reads, through
\* every other caller's gets, sets that are refused, failed calls and crashes,
\* until somebody asks to remove it (or, in Vault, to set it again): the
\* check of local SetSecret, the flag of AWS and the placeholder of GCP.
KeepsWhatWasSet ==
  promised # None => there /\ data = promised

\* One value takes the place of another only in Vault, which is asked to
\* overwrite, and in a file that root writes: two local sets that both passed
\* the check are kept apart by the mode of the file alone.
NeverReplaced ==
  [][(there /\ data \in Value /\ there') =>
       data' = data \/ backend = "vault" \/ (backend = "local" /\ root)]_vars

\* A set is past its check of the name.
PastCheck(c) ==
  op[c] = "set" /\ pc[c] \in {"stat", "exists", "open", "write", "add"}

\* A name without a value that no set is about to fill: what is left of a
\* local or GCP set that failed or crashed between its two halves.
HalfSet ==
  /\ there /\ data = Empty
  /\ \A c \in Caller : ~PastCheck(c)

\* No later set gets past its check to complete a half-set secret: the name
\* stays taken (and a local get answers with an empty secret) until it is
\* removed.
HalfSetNeedsRemoval ==
  [][HalfSet => HalfSet' \/ ~there']_vars

=============================================================================
