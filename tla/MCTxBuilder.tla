---------------------------- MODULE MCTxBuilder ----------------------------
EXTENDS TxBuilder

CONSTANTS k1, k2, k3, i1, i2, p1, p2

MCOwnerOf == (i1 :> k1) @@ (i2 :> k2)

\* Both of two keys; and a third one alone or with one of the two.
MCScriptOf ==
  (p1 :> NewPolicyScript(<<k1, k2>>, 2)) @@
  (p2 :> [type |-> "any", keyHash |-> Nil, required |-> 0, scripts |->
            <<[type |-> "all", keyHash |-> Nil, required |-> 0, scripts |-> <<Sig(k2), Sig(k3)>>],
              Sig(k3)>>])

MCScript ==
  LET Parts(ps) == {ps.scripts[k] : k \in DOMAIN ps.scripts}
      top == {MCScriptOf[p1], MCScriptOf[p2]}
      middle == UNION {Parts(ps) : ps \in top}
  IN  top \cup middle \cup UNION {Parts(ps) : ps \in middle}
MCHeight[ps \in MCScript] == Max({0} \cup {MCHeight[ps.scripts[k]] + 1 : k \in DOMAIN ps.scripts})

MCOutputs == {[addr |-> "receiver", amount |-> 1, tokens |-> 1],
              [addr |-> "change", amount |-> 0, tokens |-> 2]}
MCMints == {<<p1>>, <<p2, p1>>}
MCWithdrawals == {<<"stake", p2>>, <<"stake", Nil>>}
MCSigners == {<<k1>>, <<k2, k3>>}
=============================================================================
