---------------------------- MODULE MCAddresses ----------------------------
EXTENDS Addresses

KeyA == <<13, 2, 255>>
KeyB == <<7, 128, 64>>

\* Of mainnet, of the public testnet, with a hash of a byte too many, of the testnet
\* whose attribute is one byte, with a hash of a byte too few, and with no address inside.
MCByron ==
  LET Bytes(n, decodes, hashed, network) ==
        [raw |-> <<130, 216, n>>, text |-> <<65, 101, 50, 48 + n>>,
         content |-> [decodes |-> decodes, hashed |-> hashed, network |-> network]]
  IN  {Bytes(1, TRUE, KeyA, <<>>), Bytes(2, TRUE, KeyB, <<26>> \o TestNetProtocolMagic),
       Bytes(3, TRUE, KeyA \o <<9>>, <<26, 0, 0, 0, 1>>), Bytes(4, TRUE, KeyB, <<1>>),
       Bytes(5, TRUE, <<7, 7>>, <<>>), Bytes(6, FALSE, <<>>, <<>>)}

MCInfos ==
  {BaseInfo(n, a, b, s) : n \in {0, 1}, a \in {KeyA, KeyB}, b \in {KeyA, KeyB}, s \in BOOLEAN}
    \cup {[BaseInfo(1, KeyA, KeyB, FALSE) EXCEPT !.extra = <<5, 1>>, !.stake.isScript = TRUE]}
    \cup {EnterpriseInfo(n, a, s) : n \in {0, 1, 2}, a \in {KeyA, KeyB}, s \in BOOLEAN}
    \cup {RewardInfo(n, a, s) : n \in {0, 1}, a \in {KeyA, KeyB}, s \in BOOLEAN}
    \cup {[type |-> "Pointer", network |-> n, payment |-> [payload |-> KeyA, isScript |-> s],
           extra |-> <<>>,
           stakePointer |-> [slot |-> a, txIndex |-> b, certIndex |-> c]] :
             n \in {0, 1}, s \in BOOLEAN, a \in {0, 127, 128, 255}, b \in {0, 200}, c \in {1, 129}}
    \cup {ByronInfo(b) : b \in {c \in MCByron : HasParts(c)}}

Headers == {16 * n + net : n \in 0..15, net \in {0, 1, 2}}

\* Tails of a pointer address: canonical numbers, a number written with a group too
\* many, one with bits above the word, one number too few, one too many, one cut off.
PointerTails == {<<1, 2, 3>>, <<128, 1, 2, 3>>, <<130, 129, 1, 2, 3>>, <<131, 1, 2, 3>>, <<1, 2>>, <<1, 2, 3, 4>>,
                 <<1, 2, 131>>}

MCRaws ==
  {<<>>} \cup {b.raw : b \in MCByron} \cup {<<h>> \o t : h \in Headers,
                 t \in {KeyA, KeyA \o <<9>>, KeyA \o <<1, 2>>, KeyA \o KeyB, KeyA \o KeyB \o <<0, 9>>}
                         \cup {KeyA \o p : p \in PointerTails}}

MCMistyped == {BaseInfo(1, KeyA, KeyB, FALSE), EnterpriseInfo(0, KeyA, TRUE),
               RewardInfo(1, KeyB, FALSE),
               [type |-> "Pointer", network |-> 1, payment |-> [payload |-> KeyA, isScript |-> FALSE],
                extra |-> <<>>, stakePointer |-> [slot |-> 128, txIndex |-> 0, certIndex |-> 1]]}

\* What the theorem of RoundTrip assumes of the texts holds here.
ASSUME MCTextsFit == TextsFit /\ ByronTextsStandOut

MCKeyboard == {charset[k] : k \in 1..32} \cup {Separator, 98, 32}
=============================================================================
