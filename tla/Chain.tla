------------------------------- MODULE Chain -------------------------------
(***************************************************************************)
(* The block tree that the Cardano node serves, as far as the indexer can  *)
(* see it.  A block point (slot, hash) is a member of Point: the hash      *)
(* identifies the block, and with it all of its ancestors, while different *)
(* blocks may share a slot.  Genesis is the zero BlockPoint{}.             *)
(***************************************************************************)
EXTENDS Integers, Sequences

CONSTANTS Block,      \* blocks, named by their hash
          Genesis,    \* the zero block point
          Parent,     \* the previous block
          Slot,       \* slot number
          PathTo,     \* the blocks from Genesis, excluded, to a point
          Tx,         \* transactions, named by their hash
          TxsOf,      \* the transactions of a block, in order
          Ins,        \* the outputs a transaction spends
          Outs,       \* the addresses of a transaction's outputs, in order
          Address     \* addresses

Point == Block \cup {Genesis}

\* An output is named by its transaction and its index, which counts from 1.
OutRef == Tx \X (Nat \ {0})

ASSUME BlockAssumption ==
  /\ Genesis \notin Block
  /\ Parent \in [Block -> Point]
  /\ Slot \in [Point -> Nat]
  /\ Slot[Genesis] = 0
  /\ \A b \in Block : Slot[Parent[b]] < Slot[b]

\* Every block has a finite path of ancestors down to Genesis.
ASSUME PathAssumption ==
  /\ PathTo \in [Point -> Seq(Block)]
  /\ PathTo[Genesis] = << >>
  /\ \A b \in Block : PathTo[b] = Append(PathTo[Parent[b]], b)

ASSUME TxAssumption ==
  /\ TxsOf \in [Block -> Seq(Tx)]
  /\ DOMAIN Ins = Tx /\ \A t \in Tx : Ins[t] \subseteq OutRef
  /\ Outs \in [Tx -> Seq(Address)]

On(p) == {PathTo[p][i] : i \in DOMAIN PathTo[p]}

\* The points a peer whose read pointer is at p can roll back to.
Ancestors(p) == On(p) \cup {Genesis}

\* s is a chain of blocks on top of p.
Linked(p, s) ==
  \A i \in DOMAIN s : Parent[s[i]] = IF i = 1 THEN p ELSE s[i - 1]

TipOf(p, s) == IF s = << >> THEN p ELSE s[Len(s)]

-----------------------------------------------------------------------------
(* The ledger, for the properties: what a path of blocks creates and spends. *)

TxsIn(b) == {TxsOf[b][i] : i \in DOMAIN TxsOf[b]}

TxsInBlocks(B) == UNION {TxsIn(b) : b \in B}

Created(B) ==
  UNION {{<<t, i>> : i \in DOMAIN Outs[t]} : t \in TxsInBlocks(B)}

Spent(B) == UNION {Ins[t] : t \in TxsInBlocks(B)}

AddressOf(ref) == Outs[ref[1]][ref[2]]

\* The node serves valid blocks: along a path no transaction comes twice, no
\* output is spent twice, and an output is spent after it was created.  A
\* transaction of no block stands for the funds that Genesis distributes.
ASSUME LedgerAssumption ==
  \A p \in Block :
    LET here == TxsOf[p]
        before == TxsInBlocks(On(Parent[p]))
    IN  \A i \in DOMAIN here :
          LET done == before \cup {here[j] : j \in 1..(i - 1)}
          IN  /\ here[i] \notin done
              /\ \A t \in done : Ins[t] \cap Ins[here[i]] = {}
              /\ \A ref \in Ins[here[i]] :
                   /\ ref[1] \in done \cup (Tx \ TxsInBlocks(Block))
                   /\ ref[2] \in DOMAIN Outs[ref[1]]
=============================================================================
