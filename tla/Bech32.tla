------------------------------- MODULE Bech32 -------------------------------
(***************************************************************************)
(* wallet/bech32: strings with a human-readable part, a payload of 5-bit   *)
(* groups and a checksum of six groups.  A string is a sequence of         *)
(* character codes.  The checksum register of 30 bits is written as six    *)
(* digits of 5 bits, the highest first.                                    *)
(***************************************************************************)
EXTENDS SequencesExt, Integers

CONSTANT MaxBechStrLength   \* 256 in the code

Five == 0..31

\* qpzry9x8gf2tvdw0s3jn54khce6mua7l
charset == <<113, 112, 122, 114, 121, 57, 120, 56, 103, 102, 50, 116, 118, 100, 119, 48,
             115, 51, 106, 110, 53, 52, 107, 104, 99, 101, 54, 109, 117, 97, 55, 108>>

Separator == 49

gen == << <<29, 22, 20, 21, 29, 18>>, <<19, 5, 1, 3, 19, 13>>, <<15, 10, 2, 6, 15, 26>>,
          <<30, 20, 4, 12, 30, 29>>, <<21, 1, 8, 24, 21, 19>> >>

-----------------------------------------------------------------------------
(* Bits *)

\* The k-th of the low n bits, the highest first.
Bit(x, n, k) == (x \div 2^(n - k)) % 2

\* The low n bits of every element.
BitsOf(data, n) ==
  [k \in 1..Len(data) * n |-> Bit(data[(k - 1) \div n + 1], n, ((k - 1) % n) + 1)]

ValueOf(bits) ==
  LET value[k \in 0..Len(bits)] == IF k = 0 THEN 0 ELSE 2 * value[k - 1] + bits[k]
  IN  value[Len(bits)]

-----------------------------------------------------------------------------
(* The checksum *)

Xor5 == [a \in Five |-> [b \in Five |->
  ValueOf([k \in 1..5 |-> (Bit(a, 5, k) + Bit(b, 5, k)) % 2])]]

XorDigits(a, b) == [k \in 1..6 |-> Xor5[a[k]][b[k]]]

NilChecksum == <<0, 0, 0, 0, 0, 0>>
One == <<0, 0, 0, 0, 0, 1>>

\* The generators of the set bits of b, added up.
GenSum == [b \in Five |->
  LET sum[k \in 0..5] ==
        IF k = 0 THEN NilChecksum
        ELSE IF Bit(b, 5, 6 - k) = 1 THEN XorDigits(sum[k - 1], gen[k]) ELSE sum[k - 1]
  IN  sum[5]]

PolymodStep(chk, v) == XorDigits(Append(Tail(chk), v), GenSum[chk[1]])

\* The register after every number of values.
Polymods(chk, values) ==
  LET after[k \in 0..Len(values)] == IF k = 0 THEN chk ELSE PolymodStep(after[k - 1], values[k])
  IN  after

Polymod(chk, values) == Polymods(chk, values)[Len(values)]

HighBits(hrp) == [k \in DOMAIN hrp |-> hrp[k] \div 32]
LowBits(hrp) == [k \in DOMAIN hrp |-> hrp[k] % 32]

bech32Polymod(hrp, values, checksum) ==
  Polymod(Polymod(One, HighBits(hrp) \o <<0>> \o LowBits(hrp) \o values), checksum)

bech32Checksum(hrp, values) == XorDigits(bech32Polymod(hrp, values, NilChecksum), One)

\* Mutant of bech32VerifyChecksum: only that it is there.
bech32VerifyNothing(hrp, data) == Len(data) >= 6

bech32VerifyChecksum(hrp, data) ==
  bech32Polymod(hrp, SubSeq(data, 1, Len(data) - 6),
                SubSeq(data, Len(data) - 5, Len(data))) = One

-----------------------------------------------------------------------------
(* Strings *)

ToLower(chars) == [k \in DOMAIN chars |-> IF chars[k] \in 65..90 THEN chars[k] + 32 ELSE chars[k]]

HasLower(chars) == \E k \in DOMAIN chars : chars[k] \in 97..122
HasUpper(chars) == \E k \in DOMAIN chars : chars[k] \in 65..90

InvalidString == [ok |-> FALSE]

\* The code of a character in the charset; 32 for one that is not there.
CharsetIndex == [c \in 33..126 |->
  IF \E v \in Five : charset[v + 1] = c THEN CHOOSE v \in Five : charset[v + 1] = c ELSE 32]

toBytes(chars) == [k \in DOMAIN chars |-> CharsetIndex[chars[k]]]

\* Its place, or 0.
LastSeparator(chars) ==
  LET ones == {k \in DOMAIN chars : chars[k] = Separator}
  IN  IF ones = {} THEN 0 ELSE CHOOSE k \in ones : \A j \in ones : j <= k

DecodeNoLimit(bech) ==
  LET lower == ToLower(bech)
      one == LastSeparator(lower)
      hrp == SubSeq(lower, 1, one - 1)
      data == toBytes(SubSeq(lower, one + 1, Len(lower)))
  IN  IF \/ Len(bech) < 8
         \/ \E k \in DOMAIN bech : bech[k] \notin 33..126
         \/ HasLower(bech) /\ HasUpper(bech)
         \/ one < 2 \/ one + 6 > Len(bech)
         \/ \E k \in DOMAIN data : data[k] = 32
         \/ ~bech32VerifyChecksum(hrp, data)
        THEN InvalidString
        ELSE [ok |-> TRUE, hrp |-> hrp, data |-> SubSeq(data, 1, Len(data) - 6)]

Decode(bech) == IF Len(bech) > MaxBechStrLength THEN InvalidString ELSE DecodeNoLimit(bech)

ToChars(groups) == [k \in DOMAIN groups |-> charset[groups[k] + 1]]

Encode(hrp, data) ==
  IF \E k \in DOMAIN data : data[k] \notin Five
    THEN InvalidString
    ELSE [ok |-> TRUE,
          text |-> ToLower(hrp) \o <<Separator>>
                     \o ToChars(data \o bech32Checksum(ToLower(hrp), data))]

-----------------------------------------------------------------------------
(* Groups of bits *)

InvalidGroups == [ok |-> FALSE]

\* An incomplete group is padded with zeros, or else may hold at most four bits,
\* all of them zero.
ConvertBits(data, fromBits, toBits, pad) ==
  LET bits == BitsOf(data, fromBits)
      rest == Len(bits) % toBits
      padded == IF pad /\ rest > 0 THEN bits \o [k \in 1..toBits - rest |-> 0] ELSE bits
      lost == SubSeq(bits, Len(bits) - rest + 1, Len(bits))
  IN  IF \/ fromBits \notin 1..8 \/ toBits \notin 1..8
         \/ ~pad /\ (rest > 4 \/ \E k \in DOMAIN lost : lost[k] = 1)
        THEN InvalidGroups
        ELSE [ok |-> TRUE,
              groups |-> [k \in 1..Len(padded) \div toBits |->
                            ValueOf(SubSeq(padded, (k - 1) * toBits + 1, k * toBits))]]

EncodeFromBase256(hrp, data) == Encode(hrp, ConvertBits(data, 8, 5, TRUE).groups)

DecodeToBase256(bech) ==
  LET decoded == Decode(bech)
      converted == ConvertBits(decoded.data, 5, 8, FALSE)
  IN  IF ~decoded.ok \/ ~converted.ok
        THEN InvalidString
        ELSE [ok |-> TRUE, hrp |-> decoded.hrp, data |-> converted.groups]
=============================================================================
