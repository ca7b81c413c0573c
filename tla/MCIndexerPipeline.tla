-------------------------- MODULE MCIndexerPipeline --------------------------
(***************************************************************************)
(* A node with two forks that part after a1:                               *)
(*                                                                         *)
(*   Genesis - a1 - a2 - a3 - a4                                           *)
(*                 \ b2 - b3 - b4 - b5                                     *)
(*                                                                         *)
(* a2 and b2 share slot 2 and transaction t2; a3 and b3 share slot 3.      *)
(***************************************************************************)
EXTENDS IndexerPipeline, TLC

CONSTANTS a1, a2, a3, a4, b2, b3, b4, b5,
          t0, t1, t2, t3, t4, alice, bob, carol

MCBlock == {a1, a2, a3, a4, b2, b3, b4, b5}

MCParent == a1 :> Genesis @@ a2 :> a1 @@ a3 :> a2 @@ a4 :> a3
              @@ b2 :> a1 @@ b3 :> b2 @@ b4 :> b3 @@ b5 :> b4

MCSlot == Genesis :> 0 @@ a1 :> 1 @@ a2 :> 2 @@ a3 :> 3 @@ a4 :> 5
            @@ b2 :> 2 @@ b3 :> 3 @@ b4 :> 4 @@ b5 :> 6

MCPathTo[p \in MCBlock \cup {Genesis}] ==
  IF p = Genesis THEN << >> ELSE Append(MCPathTo[MCParent[p]], p)

MCTx == {t0, t1, t2, t3, t4}

\* t3 spends the output that t2, of the same block, pays to alice.
MCTxsOf == a1 :> <<t1>> @@ a2 :> <<t2, t3>> @@ a3 :> << >> @@ a4 :> << >>
             @@ b2 :> <<t4, t2>> @@ b3 :> <<t3>> @@ b4 :> << >> @@ b5 :> << >>

MCIns == t0 :> {} @@ t1 :> {<<t0, 1>>} @@ t2 :> {<<t1, 1>>}
           @@ t3 :> {<<t2, 1>>} @@ t4 :> {<<t1, 2>>}

MCOuts == t0 :> <<alice>> @@ t1 :> <<alice, carol>> @@ t2 :> <<alice, bob>>
            @@ t3 :> <<carol>> @@ t4 :> <<bob, alice>>

MCAddress == {alice, bob, carol}
=============================================================================
