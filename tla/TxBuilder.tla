----------------------------- MODULE TxBuilder -----------------------------
(***************************************************************************)
(* wallet/transaction.go: the builder collects the parts of a transaction, *)
(* writes them to files of one directory, and has cardano-cli build, price *)
(* and sign it there.  The directory outlives the calls, and so do the     *)
(* files of a call that failed half-way.  cardano-cli is external: its     *)
(* result is the value of the files it is given, and it may fail, or write *)
(* its result and then complain (text on stderr is an error).              *)
(***************************************************************************)
EXTENDS SequencesExt, Integers

CONSTANTS Nil,
          Input, Key, OwnerOf,       \* OwnerOf[i] has to sign for input i
          Script, Height,            \* policy scripts with all their parts, and how deep they nest
          Pointer, ScriptOf,         \* *PolicyScript values and what they point to
          Slice,                     \* []TokenAmount values, shared by who holds them
          MintedToken, Certificate,
          StakeKey,                  \* has to sign for certificates and withdrawals
          OutputsGiven, MintsGiven, WithdrawalsGiven, SignersGiven,
          MaxSteps                   \* bound: calls of the builder

ASSUME TxBuilderAssumption ==
  /\ \A ps \in Script :
       /\ ps.scripts \in Seq(Script) /\ ps.required \in Int /\ Height[ps] \in Nat
       /\ \A k \in DOMAIN ps.scripts : Height[ps.scripts[k]] < Height[ps]
  /\ ScriptOf \in [Pointer -> Script]
  /\ OwnerOf \in [Input -> Key] /\ StakeKey \in Key
  /\ Nil \notin Pointer \cup {Certificate}
  /\ OutputsGiven \subseteq [addr : STRING, amount : Nat, tokens : Slice]
  /\ MintsGiven \subseteq Seq(Pointer)
  /\ \A w \in WithdrawalsGiven : w[2] \in Pointer \cup {Nil}
  /\ SignersGiven \subseteq Seq(Key)
  /\ MaxSteps \in Nat

VARIABLES b,        \* the fields of the builder
          amounts,  \* the token amounts in each slice
          files,    \* the directory
          built,    \* the transaction Build returned last
          last,     \* the last call of cardano-cli's operations and its result
          steps

builderVars == <<b, amounts, files, built, last, steps>>

NoCall == [op |-> "none"]

-----------------------------------------------------------------------------
(* Policy scripts: trees of "sig", "any", "all" and "atLeast" *)

Sig(key) == [type |-> "sig", keyHash |-> key, scripts |-> <<>>, required |-> 0]

NewPolicyScript(keys, n) ==
  [type |-> "atLeast", keyHash |-> Nil, required |-> n, scripts |-> [k \in DOMAIN keys |-> Sig(keys[k])]]

GetCount[ps \in Script] ==
  LET counts == [k \in DOMAIN ps.scripts |-> GetCount[ps.scripts[k]]]
  IN  CASE ps.type = "sig" -> 1
        [] ps.type = "any" -> Max(Range(counts) \cup {0})
        [] ps.type \in {"all", "atLeast"} -> SumFunction(counts)
        [] OTHER -> 0

\* What the ledger asks of the keys that sign.
Satisfying[ps \in Script] ==
  {keys \in SUBSET Key :
     LET good == {k \in DOMAIN ps.scripts : keys \in Satisfying[ps.scripts[k]]}
     IN  /\ ps.type = "sig" => ps.keyHash \in keys
         /\ ps.type = "any" => good # {}
         /\ ps.type = "all" => good = DOMAIN ps.scripts
         /\ ps.type = "atLeast" => Cardinality(good) >= ps.required}

-----------------------------------------------------------------------------
(* Setters *)

NewBuilder == [inputs |-> <<>>, outputs |-> <<>>, mints |-> [tokens |-> <<>>, policyScripts |-> <<>>],
               certificates |-> <<>>, metadata |-> Nil, protocolParameters |-> Nil, fee |-> 0,
               withdrawalData |-> [stakeAddress |-> Nil, rewardAmount |-> 0, policyScript |-> Nil]]

Set(fields) ==
  /\ steps' = steps + 1
  /\ b' = fields
  /\ last' = NoCall
  /\ UNCHANGED <<files, built>>

SetProtocolParameters == Set([b EXCEPT !.protocolParameters = "parameters"]) /\ UNCHANGED amounts
SetMetaData(metadata) == Set([b EXCEPT !.metadata = metadata]) /\ UNCHANGED amounts
SetFee(fee) == Set([b EXCEPT !.fee = fee]) /\ UNCHANGED amounts

WithScript(script, inputs) ==
  [k \in DOMAIN inputs |-> [txInput |-> inputs[k], policyScript |-> script]]

AddInputsWithScript(script, inputs) ==
  Set([b EXCEPT !.inputs = @ \o WithScript(script, inputs)]) /\ UNCHANGED amounts

AddInputs(inputs) == AddInputsWithScript(Nil, inputs)

\* Inputs without a partner in scripts are left out.
AddInputsWithScripts(inputs, scripts) ==
  LET cnt == IF Len(inputs) > Len(scripts) THEN Len(scripts) ELSE Len(inputs)
  IN  /\ Set([b EXCEPT !.inputs =
                @ \o [k \in 1..cnt |-> [txInput |-> inputs[k], policyScript |-> scripts[k]]]])
      /\ UNCHANGED amounts

AddOutputs(outputs) == Set([b EXCEPT !.outputs = @ \o outputs]) /\ UNCHANGED amounts

\* A negative index counts from the end.
Place(index) == IF index < 0 THEN Len(b.outputs) + index + 1 ELSE index + 1

ReplaceOutput(index, output) ==
  /\ Place(index) \in DOMAIN b.outputs
  /\ Set([b EXCEPT !.outputs[Place(index)] = output]) /\ UNCHANGED amounts

\* Mutant of UpdateOutputAmount: the token amounts go to the first output.
UpdateFirstOutput(index, amount, tokenAmounts) ==
  /\ Place(index) \in DOMAIN b.outputs
  /\ Set([b EXCEPT !.outputs[Place(index)].amount = amount])
  /\ LET slice == b.outputs[1].tokens
     IN  amounts' = [amounts EXCEPT ![slice] =
           [k \in DOMAIN @ |-> IF k \in DOMAIN tokenAmounts THEN tokenAmounts[k] ELSE @[k]]]

UpdateOutputAmount(index, amount, tokenAmounts) ==
  /\ Place(index) \in DOMAIN b.outputs
  /\ Set([b EXCEPT !.outputs[Place(index)].amount = amount])
  /\ LET slice == b.outputs[Place(index)].tokens
     IN  amounts' = [amounts EXCEPT ![slice] =
           [k \in DOMAIN @ |-> IF k \in DOMAIN tokenAmounts THEN tokenAmounts[k] ELSE @[k]]]

RemoveOutput(index) ==
  /\ Place(index) \in DOMAIN b.outputs
  /\ Set([b EXCEPT !.outputs = RemoveAt(@, Place(index))]) /\ UNCHANGED amounts

AddTokenMints(policyScripts, tokens) ==
  /\ Set([b EXCEPT !.mints = [tokens |-> @.tokens \o tokens,
                              policyScripts |-> @.policyScripts \o policyScripts]])
  /\ UNCHANGED amounts

SetWithdrawalData(stakeAddress, rewardAmount, policyScript) ==
  /\ Set([b EXCEPT !.withdrawalData = [stakeAddress |-> stakeAddress, rewardAmount |-> rewardAmount,
                                       policyScript |-> policyScript]])
  /\ UNCHANGED amounts

AddCertificates(script, certificates) ==
  /\ Set([b EXCEPT !.certificates =
            @ \o [k \in DOMAIN certificates |-> [certificate |-> certificates[k], policyScript |-> script]]])
  /\ UNCHANGED amounts

-----------------------------------------------------------------------------
(* Files *)

File(kind, i) == <<kind, i>>

Put(fs, name, content) ==
  [n \in DOMAIN fs \cup {name} |-> IF n = name THEN content ELSE fs[n]]

Single(name, content) == [n \in {name} |-> content]

\* Each of writes is what one step adds to the directory.
PutAll(fs, writes) ==
  LET Of(name) == {k \in DOMAIN writes : name \in DOMAIN writes[k]}
  IN  [name \in DOMAIN fs \cup UNION {DOMAIN writes[k] : k \in DOMAIN writes} |->
         IF Of(name) = {} THEN fs[name] ELSE writes[Max(Of(name))][name]]

NoFile == <<>>

ScriptFile(name, script) == IF script = Nil THEN NoFile ELSE Single(name, ScriptOf[script])

MetadataFile == IF b.metadata = Nil THEN NoFile ELSE Single(File("metadata", 0), b.metadata)

CertificateApply(cert, i) ==
  IF cert.certificate = Nil THEN <<NoFile, NoFile>>
  ELSE <<Single(File("certificate", i), cert.certificate), ScriptFile(File("cert_policy", i), cert.policyScript)>>

CertificatesApply(certificates) ==
  [k \in 1..2 * Len(certificates) |->
     LET i == (k + 1) \div 2 IN CertificateApply(certificates[i], i)[2 - (k % 2)]]

WithdrawalApply(data) ==
  IF data.stakeAddress = Nil THEN NoFile ELSE ScriptFile(File("policy_withdrawal", 0), data.policyScript)

MintsApply(mints) ==
  IF mints.tokens = <<>> THEN <<>>
  ELSE [i \in DOMAIN mints.policyScripts |-> Single(File("ps_mint", i), ScriptOf[mints.policyScripts[i]])]

InputsApply(inputs) == [i \in DOMAIN inputs |-> ScriptFile(File("ps", i), inputs[i].policyScript)]

\* The files of buildRawTx in the order they are written.
Writes ==
  <<MetadataFile>> \o CertificatesApply(b.certificates) \o <<WithdrawalApply(b.withdrawalData)>>
    \o MintsApply(b.mints) \o InputsApply(b.inputs)

-----------------------------------------------------------------------------
(* cardano-cli *)

\* An operation that writes no file can only succeed or fail.
Outcome == {"ok", "failed", "warned"}
Answer == {"ok", "failed"}

Draft == File("tx.draft", 0)

\* The transaction that the arguments name, its scripts as read by Content.
Body(fee, Content(_, _)) ==
  LET Read(name, script) == IF script = Nil THEN Nil ELSE Content(name, ScriptOf[script])
      certified == {i \in DOMAIN b.certificates : b.certificates[i].certificate # Nil}
  IN  [fee |-> fee,
       metadata |-> IF b.metadata = Nil THEN Nil ELSE Content(File("metadata", 0), b.metadata),
       certificates |-> [i \in certified |->
          <<Content(File("certificate", i), b.certificates[i].certificate),
            Read(File("cert_policy", i), b.certificates[i].policyScript)>>],
       withdrawal |-> IF b.withdrawalData.stakeAddress = Nil THEN Nil
          ELSE <<b.withdrawalData.stakeAddress, b.withdrawalData.rewardAmount,
                 Read(File("policy_withdrawal", 0), b.withdrawalData.policyScript)>>,
       mint |-> IF b.mints.tokens = <<>> THEN Nil
          ELSE <<b.mints.tokens, [i \in DOMAIN b.mints.policyScripts |->
                 Read(File("ps_mint", i), b.mints.policyScripts[i])]>>,
       inputs |-> [i \in DOMAIN b.inputs |->
          <<b.inputs[i].txInput, Read(File("ps", i), b.inputs[i].policyScript)>>],
       outputs |-> [i \in DOMAIN b.outputs |->
          <<b.outputs[i].addr, b.outputs[i].amount, amounts[b.outputs[i].tokens]>>]]

BodyInFiles(fee, fs) == Body(fee, LAMBDA name, content : fs[name])
BodyMeant(fee) == Body(fee, LAMBDA name, content : content)

\* The first n files are written; if that is all of them cardano-cli is run.
buildRawTx(fee, n, outcome) ==
  LET params == Put(files, File("protocol-parameters", 0), b.protocolParameters)
      fs == PutAll(params, SubSeq(Writes, 1, n))
  IN  IF n < Len(Writes) \/ outcome = "failed" THEN [ok |-> FALSE, files |-> fs]
      ELSE [ok |-> outcome = "ok", files |-> Put(fs, Draft, BodyInFiles(fee, fs))]

CheckOutputs == \A i \in DOMAIN b.outputs : b.outputs[i].amount # 0

Call(result) ==
  /\ steps' = steps + 1
  /\ last' = result
  /\ UNCHANGED <<b, amounts>>

Build(n, outcome, txid) ==
  LET raw == buildRawTx(b.fee, n, outcome)
      tx == raw.files[Draft]
      ok == raw.ok /\ txid = "ok"
  IN  IF b.protocolParameters = Nil \/ ~CheckOutputs
        THEN Call([op |-> "build", ok |-> FALSE]) /\ UNCHANGED <<files, built>>
        ELSE /\ files' = IF raw.ok THEN Put(raw.files, File("tx.tmp", 0), tx) ELSE raw.files
             /\ built' = IF ok THEN tx ELSE built
             /\ Call(IF ok THEN [op |-> "build", ok |-> TRUE, tx |-> tx, hash |-> files'[File("tx.tmp", 0)]]
                           ELSE [op |-> "build", ok |-> FALSE])

-----------------------------------------------------------------------------
(* The number of witnesses *)

InputWitnessCount(inp) ==
  IF inp.policyScript # Nil THEN GetCount[ScriptOf[inp.policyScript]] ELSE 1

CertificateWitnessCount(cert) ==
  IF cert.policyScript # Nil THEN GetCount[ScriptOf[cert.policyScript]]
  ELSE IF cert.certificate # Nil THEN 1 ELSE 0

WithdrawalWitnessCount(data) ==
  IF data.policyScript # Nil THEN GetCount[ScriptOf[data.policyScript]]
  ELSE IF data.stakeAddress # Nil THEN 1 ELSE 0

\* Mutant of getCertfificatesWitnessCount: only the first script is counted.
FirstScriptCount(certificates) ==
  SumFunction([i \in DOMAIN certificates |->
    IF \E j \in 1..i - 1 : certificates[i].policyScript # Nil /\ certificates[j].policyScript # Nil
      THEN 0 ELSE CertificateWitnessCount(certificates[i])])

\* A script is counted once however many certificates it is for.
getCertfificatesWitnessCount(certificates) ==
  SumFunction([i \in DOMAIN certificates |->
    IF \E j \in 1..i - 1 : /\ certificates[i].policyScript # Nil
                           /\ certificates[j].policyScript = certificates[i].policyScript
      THEN 0 ELSE CertificateWitnessCount(certificates[i])])

CountedWitnesses ==
  LET count == SumFunction([i \in DOMAIN b.inputs |-> InputWitnessCount(b.inputs[i])])
                 + getCertfificatesWitnessCount(b.certificates) + WithdrawalWitnessCount(b.withdrawalData)
  IN  IF count < 1 THEN 1 ELSE count

CalculateFee(witnessCount, n, outcome, priced) ==
  LET raw == buildRawTx(0, n, outcome)
      ok == raw.ok /\ priced = "ok"
      count == IF witnessCount = 0 THEN CountedWitnesses ELSE witnessCount
  IN  IF b.protocolParameters = Nil
        THEN Call([op |-> "fee", ok |-> FALSE]) /\ UNCHANGED <<files, built>>
        ELSE /\ files' = raw.files
             /\ built' = built
             /\ Call(IF ok THEN [op |-> "fee", ok |-> TRUE, tx |-> raw.files[Draft], given |-> witnessCount,
                                 witnesses |-> count]
                           ELSE [op |-> "fee", ok |-> FALSE])

CalculateMinUtxo(output, priced) ==
  IF b.protocolParameters = Nil
    THEN Call([op |-> "min", ok |-> FALSE]) /\ UNCHANGED <<files, built>>
    ELSE /\ files' = Put(files, File("protocol-parameters", 0), b.protocolParameters)
         /\ built' = built
         /\ Call([op |-> "min", ok |-> priced = "ok"])

-----------------------------------------------------------------------------
(* Signing *)

CreateTxWitness(tx, key, fs, outcome) ==
  LET given == Put(Put(fs, File("tx.raw", 0), tx), File("tx.skey", 0), key)
      witness == [tx |-> given[File("tx.raw", 0)], key |-> given[File("tx.skey", 0)]]
  IN  IF outcome = "failed" THEN [ok |-> FALSE, files |-> given]
      ELSE [ok |-> outcome = "ok", files |-> Put(given, File("tx.wit", 0), witness)]

\* Mutant of AssembleTxWitnesses: every witness goes to the same file.
AssembleInOneFile(tx, witnesses, fs, outcome) ==
  LET given == Put(PutAll(fs, [i \in DOMAIN witnesses |-> Single(File("witness", 1), witnesses[i])]),
                   File("tx.raw", 0), tx)
      signed == [tx |-> given[File("tx.raw", 0)],
                 witnesses |-> [i \in DOMAIN witnesses |-> given[File("witness", 1)]]]
  IN  IF outcome = "failed" THEN [ok |-> FALSE, files |-> given]
      ELSE [ok |-> outcome = "ok", files |-> Put(given, File("tx.sig", 0), signed)]

AssembleTxWitnesses(tx, witnesses, fs, outcome) ==
  LET given == Put(PutAll(fs, [i \in DOMAIN witnesses |-> Single(File("witness", i), witnesses[i])]),
                   File("tx.raw", 0), tx)
      signed == [tx |-> given[File("tx.raw", 0)],
                 witnesses |-> [i \in DOMAIN witnesses |-> given[File("witness", i)]]]
  IN  IF outcome = "failed" THEN [ok |-> FALSE, files |-> given]
      ELSE [ok |-> outcome = "ok", files |-> Put(given, File("tx.sig", 0), signed)]

\* After k signers; the first witness that cannot be made ends the call.
Witnessed(tx, signers, outcomes) ==
  LET made[k \in 0..Len(signers)] ==
        IF k = 0 THEN [ok |-> TRUE, files |-> files]
        ELSE IF made[k - 1].ok THEN CreateTxWitness(tx, signers[k], made[k - 1].files, outcomes[k])
        ELSE made[k - 1]
  IN  made

SignTx(tx, signers, outcomes, assembled) ==
  LET made == Witnessed(tx, signers, outcomes)
      witnessed == made[Len(signers)]
      witnesses == [k \in DOMAIN signers |-> made[k].files[File("tx.wit", 0)]]
      final == IF witnessed.ok THEN AssembleTxWitnesses(tx, witnesses, witnessed.files, assembled)
               ELSE witnessed
  IN  /\ files' = final.files
      /\ built' = built
      /\ Call(IF final.ok THEN [op |-> "sign", ok |-> TRUE, tx |-> tx, signers |-> signers,
                                signed |-> final.files[File("tx.sig", 0)]]
                          ELSE [op |-> "sign", ok |-> FALSE])

-----------------------------------------------------------------------------

BuilderInit ==
  /\ b \in {NewBuilder, [NewBuilder EXCEPT !.protocolParameters = "parameters"]}
  /\ amounts = [s \in Slice |-> <<1>>]
  /\ files = <<>> /\ built = Nil /\ last = NoCall /\ steps = 0

Setters ==
  \/ SetProtocolParameters
  \/ \E m \in {"metadata", Nil} : SetMetaData(m)
  \/ \E fee \in {7} : SetFee(fee)
  \/ \E i \in Input : AddInputs(<<i>>)
  \/ \E i \in Input, script \in Pointer : AddInputsWithScript(script, <<i>>)
  \/ \E i, j \in Input, script \in Pointer : i # j /\ AddInputsWithScripts(<<i, j>>, <<script>>)
  \/ \E output \in OutputsGiven : AddOutputs(<<output>>)
  \/ \E output \in OutputsGiven, index \in {0, -1} : ReplaceOutput(index, output)
  \/ \E index \in {0, -1, -2} : UpdateOutputAmount(index, 2, <<3>>)
  \/ \E index \in {0, -1} : RemoveOutput(index)
  \/ \E mint \in MintsGiven : AddTokenMints(mint, <<MintedToken>>)
  \/ \E w \in WithdrawalsGiven : SetWithdrawalData(w[1], 1, w[2])
  \/ \E script \in Pointer \cup {Nil} : AddCertificates(script, <<Certificate>>)

Operations ==
  \/ \E n \in 0..Len(Writes), o \in Outcome, a \in Answer : Build(n, o, a)
  \/ \E n \in 0..Len(Writes), o \in Outcome, a \in Answer, count \in {0, 3} :
       CalculateFee(count, n, o, a)
  \/ \E output \in OutputsGiven, a \in Answer : CalculateMinUtxo(output, a)
  \/ \E signers \in SignersGiven, o \in Outcome : \E os \in [DOMAIN signers -> Outcome] :
       built # Nil /\ SignTx(built, signers, os, o)

BuilderNext == steps < MaxSteps /\ (Setters \/ Operations)

BuilderSpec == BuilderInit /\ [][BuilderNext]_builderVars

-----------------------------------------------------------------------------
(* Properties *)

\* The fields of a builder and the token slices that its outputs share.
BuilderTypeOK ==
  LET OptionalScript == Pointer \cup {Nil} IN
  /\ b \in [inputs : Seq([txInput : Input, policyScript : OptionalScript]),
           outputs : Seq([addr : STRING, amount : Nat, tokens : Slice]),
           mints : [tokens : Seq({MintedToken}), policyScripts : Seq(Pointer)],
           certificates : Seq([certificate : {Certificate}, policyScript : OptionalScript]),
           metadata : {"metadata", Nil}, protocolParameters : {"parameters", Nil}, fee : Nat,
           withdrawalData : [stakeAddress : {w[1] : w \in WithdrawalsGiven} \cup {Nil},
                             rewardAmount : Nat, policyScript : OptionalScript]]
  /\ amounts \in [Slice -> Seq(Nat)]
  /\ steps \in 0..MaxSteps

\* What Build, CalculateFee and SignTx return is made of the fields and arguments of
\* this call, every script with the input, certificate, mint or withdrawal it was
\* given for and every witness of the signer that was asked for it, whatever an
\* earlier call, or one that failed half-way, has left in the directory.
ResultIsOfThisCall ==
  last # NoCall => (last.ok =>
    /\ last.op = "build" => last.tx = BodyMeant(b.fee) /\ last.hash = last.tx
    /\ last.op = "fee" => last.tx = BodyMeant(0)
    /\ last.op = "sign" =>
         last.signed = [tx |-> last.tx,
                        witnesses |-> [i \in DOMAIN last.signers |->
                                         [tx |-> last.tx, key |-> last.signers[i]]]])

ScriptsToSatisfy ==
  LET given == {b.inputs[i].policyScript : i \in DOMAIN b.inputs}
                 \cup {b.certificates[i].policyScript : i \in DOMAIN b.certificates}
                 \cup {b.withdrawalData.policyScript}
  IN  {ScriptOf[p] : p \in given \ {Nil}}

KeysToSign ==
  {OwnerOf[b.inputs[i].txInput] : i \in {j \in DOMAIN b.inputs : b.inputs[j].policyScript = Nil}}
    \cup {StakeKey : i \in {j \in DOMAIN b.certificates : b.certificates[j].policyScript = Nil}}
    \cup (IF b.withdrawalData.stakeAddress # Nil /\ b.withdrawalData.policyScript = Nil
            THEN {StakeKey} ELSE {})

\* The fee pays for as many witnesses as the inputs, the certificates and the
\* withdrawal need, when the builder counts them itself and there are keys that
\* satisfy each script.  (A minting policy that needs
\* a key of its own is not counted: its witness is not paid for.)
FeePaysForWitnesses ==
  (last # NoCall /\ last.op = "fee") => (last.ok /\ last.given = 0 /\ {} \notin {Satisfying[ps] : ps \in ScriptsToSatisfy} =>
    \E keys \in SUBSET Key :
      /\ KeysToSign \subseteq keys
      /\ \A ps \in ScriptsToSatisfy : keys \in Satisfying[ps]
      /\ Cardinality(keys) <= last.witnesses)

Shown(output, held) == <<output.addr, output.amount, held[output.tokens]>>

\* A call touches one output: every other one keeps its place, its amount and its
\* tokens (when one is removed those behind it move up), unless it holds the same
\* slice of tokens as the one that is updated.
OtherOutputsKeep ==
  [][\E t \in 0..Len(b.outputs) : \A i \in DOMAIN b.outputs \ {t} :
       LET j == IF Len(b'.outputs) < Len(b.outputs) /\ i > t THEN i - 1 ELSE i
       IN  /\ j \in DOMAIN b'.outputs
           /\ \/ Shown(b'.outputs[j], amounts') = Shown(b.outputs[i], amounts)
              \/ t # 0 /\ b.outputs[i].tokens = b.outputs[t].tokens]_builderVars
=============================================================================
