---------------------------- MODULE SolanaProofs ----------------------------
(***************************************************************************)
(* Proofs about Solana transactions: an edit moves indices and keeps what  *)
(* they mean, for any message, accounts and instructions.                  *)
(***************************************************************************)
EXTENDS Wallet, SolanaBuilder, BitcoinProofs, SequenceTheorems, WellFoundedInduction

USE DEF System, Budget, Advance

\* t is s with e inserted at p.
IsInserted(S, t, s, p, e) ==
    /\ t \in Seq(S)
    /\ Len(t) = Len(s) + 1
    /\ \A j \in 1 .. Len(s) + 1 :
        t[j] = IF j < p THEN s[j] ELSE IF j = p THEN e ELSE s[j - 1]

\* A sequence with an element inserted is what IsInserted says.
LEMMA Inserted ==
    ASSUME NEW S, NEW s \in Seq(S), NEW e \in S, NEW p \in 1 .. Len(s) + 1
    PROVE  IsInserted(S, InsertAt(s, p, e), s, p, e)
<1> DEFINE front == SubSeq(s, 1, p - 1)
           back == SubSeq(s, p, Len(s))
<1>1. Len(s) \in Nat /\ p \in Nat /\ \A i \in 1 .. Len(s) : s[i] \in S
  OBVIOUS
<1>2. /\ front \in Seq(S) /\ Len(front) = p - 1
      /\ \A i \in 1 .. p - 1 : front[i] = s[i]
  <2>1. \A i \in 1 .. p - 1 : s[i] \in S
    BY <1>1
  <2>2. /\ front \in Seq(S)
        /\ Len(front) = IF 1 <= p - 1 THEN (p - 1) - 1 + 1 ELSE 0
        /\ \A i \in 1 .. (p - 1) - 1 + 1 : front[i] = s[1 + i - 1]
    BY <1>1, <2>1, SubSeqProperties
  <2> QED
    BY <1>1, <2>2
<1>3. /\ back \in Seq(S) /\ Len(back) = Len(s) - p + 1
      /\ \A i \in 1 .. Len(s) - p + 1 : back[i] = s[p + i - 1]
  <2>1. \A i \in p .. Len(s) : s[i] \in S
    BY <1>1
  <2>2. /\ back \in Seq(S)
        /\ Len(back) = IF p <= Len(s) THEN Len(s) - p + 1 ELSE 0
        /\ \A i \in 1 .. Len(s) - p + 1 : back[i] = s[p + i - 1]
    BY <1>1, <2>1, SubSeqProperties
  <2> QED
    BY <1>1, <2>2
<1> HIDE DEF front, back
<1> DEFINE mid == front \o <<e>>
<1>4. /\ mid \in Seq(S) /\ Len(mid) = p
      /\ \A i \in 1 .. p : mid[i] = IF i < p THEN s[i] ELSE e
  <2>1. <<e>> \in Seq(S) /\ Len(<<e>>) = 1 /\ <<e>>[1] = e
    OBVIOUS
  <2>2. /\ mid \in Seq(S) /\ Len(mid) = Len(front) + Len(<<e>>)
        /\ \A i \in 1 .. Len(front) + Len(<<e>>) :
              mid[i] = IF i <= Len(front) THEN front[i] ELSE <<e>>[i - Len(front)]
    BY <1>2, <2>1, ConcatProperties
  <2> QED
    BY <1>1, <1>2, <2>1, <2>2
<1> HIDE DEF mid
<1>5. /\ mid \o back \in Seq(S) /\ Len(mid \o back) = Len(mid) + Len(back)
      /\ \A i \in 1 .. Len(mid) + Len(back) :
            (mid \o back)[i] = IF i <= Len(mid) THEN mid[i] ELSE back[i - Len(mid)]
  BY <1>3, <1>4, ConcatProperties
<1>6. InsertAt(s, p, e) = mid \o back
  BY DEF InsertAt, mid, front, back
<1> QED
  BY <1>1, <1>3, <1>4, <1>5, <1>6 DEF IsInserted

\* The parts of a message and of an instruction.
LEMMA MessageParts ==
    ASSUME NEW m \in Message
    PROVE  /\ m.keys \in Seq(Addresses) /\ Len(m.keys) \in Nat
           /\ DOMAIN m.keys = 1 .. Len(m.keys)
           /\ m.loaded \in Seq(Addresses) /\ Len(m.loaded) \in Nat
           /\ m.hash \in Nat
           /\ m.signers \in Nat /\ m.roSigners \in Nat /\ m.roOthers \in Nat
           /\ m.ixs \in Seq(CompiledInstruction) /\ Len(m.ixs) \in Nat
           /\ DOMAIN m.ixs = 1 .. Len(m.ixs)
           /\ \A i \in DOMAIN m.ixs :
                /\ m.ixs[i] \in CompiledInstruction
                /\ m.ixs[i].program \in Nat /\ m.ixs[i].accounts \in Seq(Nat)
                /\ m.ixs[i].data \in Data
                /\ Len(m.ixs[i].accounts) \in Nat
                /\ DOMAIN m.ixs[i].accounts = 1 .. Len(m.ixs[i].accounts)
                /\ \A n \in DOMAIN m.ixs[i].accounts : m.ixs[i].accounts[n] \in Nat
<1>1. /\ m.keys \in Seq(Addresses) /\ m.loaded \in Seq(Addresses)
      /\ m.hash \in Nat
      /\ m.signers \in Nat /\ m.roSigners \in Nat /\ m.roOthers \in Nat
      /\ m.ixs \in Seq(CompiledInstruction)
  BY DEF Message
<1>2. ASSUME NEW i \in DOMAIN m.ixs
      PROVE  /\ m.ixs[i] \in CompiledInstruction
             /\ m.ixs[i].program \in Nat /\ m.ixs[i].accounts \in Seq(Nat)
             /\ m.ixs[i].data \in Data
  <2>1. m.ixs[i] \in CompiledInstruction
    BY <1>1
  <2> QED
    BY <2>1 DEF CompiledInstruction
<1>3. \A i \in DOMAIN m.ixs :
        /\ Len(m.ixs[i].accounts) \in Nat
        /\ DOMAIN m.ixs[i].accounts = 1 .. Len(m.ixs[i].accounts)
        /\ \A n \in DOMAIN m.ixs[i].accounts : m.ixs[i].accounts[n] \in Nat
  BY <1>2
<1> QED
  BY <1>1, <1>2, <1>3

-----------------------------------------------------------------------------
\* w is m with the key k inserted at p.
KeyAdded(m, w, p, k) ==
    /\ w.keys = InsertAt(m.keys, p, k)
    /\ w.loaded = m.loaded
    /\ w.ixs = AllShifted(m, p)

\* The same keys are at the indices that have moved.
AddressesMoved(m, w, p, k) ==
    /\ w.keys \in Seq(Addresses) /\ Len(w.keys) = Len(m.keys) + 1
    /\ AddressAt(w, p) = k
    /\ \A i \in 1 .. Len(m.keys) : Moved(i, p) \in 1 .. Len(w.keys)
    /\ \A i \in 1 .. (Len(m.keys) + Len(m.loaded)) :
        /\ Moved(i, p) \in 1 .. (Len(w.keys) + Len(w.loaded))
        /\ AddressAt(w, Moved(i, p)) = AddressAt(m, i)

\* Every address is found at its moved index.
LEMMA KeysMoved ==
    ASSUME NEW m \in Message, NEW w, NEW k \in Addresses,
           NEW p \in 1 .. Len(m.keys) + 1, KeyAdded(m, w, p, k)
    PROVE  AddressesMoved(m, w, p, k)
<1>0. /\ m.keys \in Seq(Addresses)
      /\ InsertAt(m.keys, p, k) \in Seq(Addresses)
      /\ Len(InsertAt(m.keys, p, k)) = Len(m.keys) + 1
      /\ \A j \in 1 .. Len(m.keys) + 1 : InsertAt(m.keys, p, k)[j] =
            IF j < p THEN m.keys[j] ELSE IF j = p THEN k ELSE m.keys[j - 1]
  <2>1. m.keys \in Seq(Addresses) /\ k \in Addresses /\ p \in 1 .. Len(m.keys) + 1
    BY MessageParts
  <2>2. IsInserted(Addresses, InsertAt(m.keys, p, k), m.keys, p, k)
    BY <2>1, Inserted
  <2> QED
    BY <2>1, <2>2 DEF IsInserted
<1> DEFINE K == Len(m.keys)
           L == Len(m.loaded)
           v == w.keys
<1>1. /\ v \in Seq(Addresses) /\ Len(v) = K + 1
      /\ \A j \in 1 .. K + 1 :
            v[j] = IF j < p THEN m.keys[j] ELSE IF j = p THEN k ELSE m.keys[j - 1]
  BY <1>0 DEF KeyAdded
<1>2. K \in Nat /\ L \in Nat /\ p \in 1 .. K + 1 /\ Len(w.loaded) = L /\ w.loaded = m.loaded
  BY MessageParts DEF KeyAdded
<1> HIDE DEF K, L, v
<1>3. ASSUME NEW i \in 1 .. K
      PROVE  Moved(i, p) \in 1 .. K + 1 /\ v[Moved(i, p)] = m.keys[i]
  <2>1. CASE i >= p
    <3>1. Moved(i, p) = i + 1
      BY <2>1 DEF Moved
    <3> QED
      BY <1>1, <1>2, <2>1, <3>1
  <2>2. CASE i < p
    <3>1. Moved(i, p) = i
      BY <1>2, <2>2 DEF Moved
    <3> QED
      BY <1>1, <1>2, <2>2, <3>1
  <2> QED
    BY <1>2, <2>1, <2>2
<1>4. ASSUME NEW i \in 1 .. (K + L)
      PROVE  /\ Moved(i, p) \in 1 .. ((K + 1) + L)
             /\ AddressAt(w, Moved(i, p)) = AddressAt(m, i)
  <2>1. CASE i <= K
    <3>1. i \in 1 .. K
      BY <1>2, <2>1
    <3>2. Moved(i, p) \in 1 .. K + 1 /\ v[Moved(i, p)] = m.keys[i]
      BY <1>3, <3>1
    <3>3. /\ Moved(i, p) <= K + 1
          /\ Moved(i, p) \in 1 .. ((K + 1) + L)
      BY <1>2, <3>2
    <3> QED
      BY <1>1, <2>1, <3>2, <3>3 DEF AddressAt, K, v
  <2>2. CASE i > K
    <3>1. Moved(i, p) = i + 1
      BY <1>2, <2>2 DEF Moved
    <3>2. /\ (i + 1) - (K + 1) = i - K /\ ~(i + 1 <= K + 1) /\ ~(i <= K)
          /\ i + 1 \in 1 .. ((K + 1) + L)
      BY <1>2, <2>2
    <3> QED
      BY <1>1, <1>2, <3>1, <3>2 DEF AddressAt, K, v
  <2> QED
    BY <1>2, <2>1, <2>2
<1>5. AddressAt(w, p) = k
  <2>1. v[p] = k /\ p <= Len(v)
    BY <1>1, <1>2
  <2> QED
    BY <2>1 DEF AddressAt, v
<1> QED
  BY <1>1, <1>2, <1>3, <1>4, <1>5 DEF K, L, v, AddressesMoved

\* Keys stay distinct if the new one is new.
LEMMA KeysDistinct ==
    ASSUME NEW m \in Message, NEW w, NEW k \in Addresses, ~Known(m, k),
           NEW p \in 1 .. Len(m.keys) + 1, KeyAdded(m, w, p, k),
           \A i, j \in DOMAIN m.keys : m.keys[i] = m.keys[j] => i = j
    PROVE  \A i, j \in DOMAIN w.keys : w.keys[i] = w.keys[j] => i = j
<1>1. /\ DOMAIN w.keys = 1 .. Len(m.keys) + 1
      /\ \A j \in 1 .. Len(m.keys) + 1 :
            w.keys[j] = IF j < p THEN m.keys[j] ELSE IF j = p THEN k ELSE m.keys[j - 1]
  <2>1. m.keys \in Seq(Addresses) /\ w.keys = InsertAt(m.keys, p, k)
    BY MessageParts DEF KeyAdded
  <2>2. IsInserted(Addresses, w.keys, m.keys, p, k)
    BY <2>1, Inserted
  <2> QED
    BY <2>1, <2>2 DEF IsInserted
<1>2. /\ Len(m.keys) \in Nat /\ p \in Nat /\ DOMAIN m.keys = 1 .. Len(m.keys)
      /\ \A i \in 1 .. Len(m.keys) : m.keys[i] # k
  BY MessageParts DEF Known
<1> DEFINE old(j) == IF j < p THEN j ELSE j - 1
<1>3. \A j \in 1 .. Len(m.keys) + 1 : j # p => old(j) \in 1 .. Len(m.keys) /\ w.keys[j] = m.keys[old(j)]
  BY <1>1, <1>2
<1>4. \A i, j \in 1 .. Len(m.keys) + 1 : i # p /\ j # p /\ old(i) = old(j) => i = j
  BY <1>2
<1>5. w.keys[p] = k
  BY <1>1, <1>2
<1> SUFFICES ASSUME NEW i \in DOMAIN w.keys, NEW j \in DOMAIN w.keys, w.keys[i] = w.keys[j]
             PROVE  i = j
  OBVIOUS
<1> HIDE DEF old
<1> QED
  BY <1>1, <1>2, <1>3, <1>4, <1>5

\* Instructions mean what they meant, and their indices are in the list.
LEMMA MeaningMoved ==
    ASSUME NEW m \in Message, Sound(m), NEW w, NEW k \in Addresses,
           NEW p \in 1 .. Len(m.keys) + 1, KeyAdded(m, w, p, k)
    PROVE  /\ w.ixs \in Seq(CompiledInstruction) /\ Len(w.ixs) = Len(m.ixs)
           /\ \A i \in DOMAIN w.ixs :
                /\ w.ixs[i].program \in 1 .. Len(w.keys)
                /\ \A n \in DOMAIN w.ixs[i].accounts :
                    w.ixs[i].accounts[n] \in 1 .. (Len(w.keys) + Len(w.loaded))
                /\ Meaning(w, w.ixs[i]) = Meaning(m, m.ixs[i])
<1>1. /\ Len(m.ixs) \in Nat /\ DOMAIN m.ixs = 1 .. Len(m.ixs)
      /\ Len(m.keys) \in Nat /\ Len(m.loaded) \in Nat /\ p \in Nat
  BY MessageParts
<1>2. w.ixs = [i \in 1 .. Len(m.ixs) |-> Shifted(m.ixs[i], p)]
  BY <1>1 DEF KeyAdded, AllShifted
<1>3. ASSUME NEW i \in 1 .. Len(m.ixs)
      PROVE  /\ w.ixs[i] \in CompiledInstruction
             /\ w.ixs[i].program \in 1 .. Len(w.keys)
             /\ \A n \in DOMAIN w.ixs[i].accounts :
                    w.ixs[i].accounts[n] \in 1 .. (Len(w.keys) + Len(w.loaded))
             /\ Meaning(w, w.ixs[i]) = Meaning(m, m.ixs[i])
  <2> DEFINE x == m.ixs[i]
             y == w.ixs[i]
  <2>1. /\ y = Shifted(x, p) /\ x.data \in Data /\ x.accounts \in Seq(Nat)
        /\ Len(x.accounts) \in Nat /\ DOMAIN x.accounts = 1 .. Len(x.accounts)
        /\ x.program \in 1 .. Len(m.keys)
        /\ \A n \in DOMAIN x.accounts : x.accounts[n] \in 1 .. (Len(m.keys) + Len(m.loaded))
    <3>1. /\ x.program \in 1 .. Len(m.keys)
          /\ \A n \in DOMAIN x.accounts : x.accounts[n] \in 1 .. (Len(m.keys) + Len(m.loaded))
      BY <1>1 DEF Sound
    <3> QED
      BY <1>1, <1>2, <3>1, MessageParts
  <2>2. /\ y.program = Moved(x.program, p) /\ y.data = x.data
        /\ y.accounts = [n \in DOMAIN x.accounts |-> Moved(x.accounts[n], p)]
        /\ y = [program |-> y.program, accounts |-> y.accounts, data |-> y.data]
    BY <2>1 DEF Shifted
  <2> HIDE DEF x, y
  <2>k. /\ \A j \in 1 .. Len(m.keys) : Moved(j, p) \in 1 .. Len(w.keys)
        /\ \A j \in 1 .. (Len(m.keys) + Len(m.loaded)) :
                /\ Moved(j, p) \in 1 .. (Len(w.keys) + Len(w.loaded))
                /\ AddressAt(w, Moved(j, p)) = AddressAt(m, j)
        /\ Len(w.keys) = Len(m.keys) + 1
    <3>1. AddressesMoved(m, w, p, k)
      BY KeysMoved
    <3> QED
      BY <3>1 DEF AddressesMoved
  <2>l. w.loaded = m.loaded
    BY DEF KeyAdded
  <2>3. /\ y.program \in 1 .. Len(w.keys)
        /\ AddressAt(w, y.program) = AddressAt(m, x.program)
    <3>1. /\ y.program \in 1 .. Len(w.keys)
      BY <2>1, <2>2, <2>k
    <3>2. x.program \in 1 .. (Len(m.keys) + Len(m.loaded))
      <4> DEFINE K == Len(m.keys)
                 L == Len(m.loaded)
      <4>1. K \in Nat /\ L \in Nat /\ x.program \in 1 .. K
        BY <1>1, <2>1
      <4> HIDE DEF K, L
      <4>2. x.program \in 1 .. (K + L)
        BY <4>1
      <4> QED
        BY <4>2 DEF K, L
    <3> QED
      BY <2>2, <3>1, <3>2, <2>k
  <2>4. \A n \in DOMAIN x.accounts :
            /\ y.accounts[n] \in 1 .. (Len(w.keys) + Len(w.loaded))
            /\ AddressAt(w, y.accounts[n]) = AddressAt(m, x.accounts[n])
    BY <2>1, <2>2, <2>k
  <2>5. DOMAIN y.accounts = DOMAIN x.accounts
    BY <2>2
  <2>6. Meaning(w, y) = Meaning(m, x)
    <3>1. [n \in DOMAIN y.accounts |-> AddressAt(w, y.accounts[n])]
             = [n \in DOMAIN x.accounts |-> AddressAt(m, x.accounts[n])]
      BY <2>4, <2>5
    <3> QED
      BY <2>2, <2>3, <3>1 DEF Meaning
  <2>7. y \in CompiledInstruction
    <3>1. Len(w.keys) \in Nat /\ Len(w.loaded) \in Nat
      BY <1>1, <2>k, <2>l
    <3>5. \A i1, i2 \in Nat : i1 + i2 \in Nat
      OBVIOUS
    <3>2. \A n \in DOMAIN x.accounts : y.accounts[n] \in Nat
      <4> DEFINE B == Len(w.keys) + Len(w.loaded)
      <4>1. B \in Nat
        BY <3>1, <3>5
      <4> HIDE DEF B
      <4>2. \A n \in DOMAIN x.accounts : y.accounts[n] \in 1 .. B
        BY <2>4 DEF B
      <4> QED
        BY <4>1, <4>2
    <3>3. y.accounts \in Seq(Nat)
      <4> DEFINE N == Len(x.accounts)
      <4>1. N \in Nat /\ y.accounts \in [1 .. N -> Nat]
        BY <2>1, <2>2, <3>2
      <4> HIDE DEF N
      <4> QED
        BY <4>1
    <3>4. y.program \in Nat
      BY <2>3, <3>1
    <3> QED
      BY <2>1, <2>2, <3>3, <3>4 DEF CompiledInstruction
  <2> QED
    BY <2>3, <2>4, <2>5, <2>6, <2>7 DEF x, y
<1> DEFINE f == [i \in 1 .. Len(m.ixs) |-> Shifted(m.ixs[i], p)]
<1>4. /\ w.ixs \in Seq(CompiledInstruction) /\ Len(w.ixs) = Len(m.ixs)
      /\ DOMAIN w.ixs = 1 .. Len(m.ixs)
  <2>1. f \in [1 .. Len(m.ixs) -> CompiledInstruction]
    BY <1>2, <1>3
  <2>2. f \in Seq(CompiledInstruction) /\ Len(f) = Len(m.ixs)
    BY <1>1, <2>1
  <2> QED
    BY <1>2, <2>2
<1> QED
  BY <1>3, <1>4

-----------------------------------------------------------------------------
\* What holds of a message w that came from m: the same instructions, and every
\* account with its privileges.
Keeps(m, w) ==
    /\ Len(w.ixs) = Len(m.ixs)
    /\ \A i \in DOMAIN m.ixs : Meaning(w, w.ixs[i]) = Meaning(m, m.ixs[i])
    /\ w.loaded = m.loaded /\ Len(w.keys) >= Len(m.keys)
    /\ SamePrivileges(m, w)

\* A header that counts the new key in its group, at the end of which it is.
LEMMA KeyAddedKeeps ==
    ASSUME NEW m \in Message, Sound(m), NEW w \in Message,
           NEW k \in Addresses, ~Known(m, k),
           NEW p \in 1 .. Len(m.keys) + 1, KeyAdded(m, w, p, k),
           w.roSigners < w.signers, w.signers + w.roOthers <= Len(w.keys),
           \A i \in 1 .. Len(m.keys) :
                /\ IsSigner(w, Moved(i, p)) <=> IsSigner(m, i)
                /\ IsWritable(w, Moved(i, p)) <=> IsWritable(m, i)
    PROVE  Sound(w) /\ Keeps(m, w)
<1>1. /\ Len(w.keys) = Len(m.keys) + 1
      /\ w.keys[p] = k
      /\ \A i \in 1 .. Len(m.keys) :
            Moved(i, p) \in 1 .. Len(w.keys) /\ w.keys[Moved(i, p)] = m.keys[i]
  <2>0. AddressesMoved(m, w, p, k)
    BY KeysMoved
  <2>1. Len(w.keys) = Len(m.keys) + 1
    BY <2>0 DEF AddressesMoved
  <2>2. /\ AddressAt(w, p) = k
        /\ \A i \in 1 .. Len(m.keys) : Moved(i, p) \in 1 .. Len(w.keys)
        /\ \A i \in 1 .. (Len(m.keys) + Len(m.loaded)) : AddressAt(w, Moved(i, p)) = AddressAt(m, i)
    BY <2>0 DEF AddressesMoved
  <2>3. Len(m.keys) \in Nat /\ Len(m.loaded) \in Nat
    BY MessageParts
  <2>4. w.keys[p] = k
    BY <2>1, <2>2, <2>3 DEF AddressAt
  <2>5. ASSUME NEW i \in 1 .. Len(m.keys)
        PROVE  w.keys[Moved(i, p)] = m.keys[i]
    <3> DEFINE K == Len(m.keys)
               L == Len(m.loaded)
    <3>1. K \in Nat /\ L \in Nat /\ i \in 1 .. K
      BY <2>3
    <3> HIDE DEF K, L
    <3>2. i \in 1 .. (K + L) /\ i <= K
      BY <3>1
    <3>3. AddressAt(w, Moved(i, p)) = AddressAt(m, i)
      BY <2>2, <3>2 DEF K, L
    <3>4. Moved(i, p) <= Len(w.keys)
      BY <2>1, <2>2, <2>3
    <3> QED
      BY <3>2, <3>3, <3>4 DEF AddressAt, K
  <2> QED
    BY <2>1, <2>2, <2>4, <2>5
<1>2. /\ DOMAIN w.keys = 1 .. Len(w.keys) /\ DOMAIN m.keys = 1 .. Len(m.keys)
      /\ DOMAIN w.ixs = 1 .. Len(w.ixs) /\ DOMAIN m.ixs = 1 .. Len(m.ixs)
      /\ Len(m.keys) \in Nat /\ Len(w.keys) \in Nat
  BY MessageParts
<1>3. \A i, j \in DOMAIN w.keys : w.keys[i] = w.keys[j] => i = j
  BY KeysDistinct DEF Sound
<1>4. /\ Len(w.ixs) = Len(m.ixs)
      /\ \A i \in DOMAIN w.ixs :
            /\ w.ixs[i].program \in 1 .. Len(w.keys)
            /\ \A n \in DOMAIN w.ixs[i].accounts :
                w.ixs[i].accounts[n] \in 1 .. (Len(w.keys) + Len(w.loaded))
            /\ Meaning(w, w.ixs[i]) = Meaning(m, m.ixs[i])
  BY MeaningMoved
<1>5. Sound(w)
  BY <1>3, <1>4 DEF Sound
<1>6. ASSUME NEW i \in DOMAIN m.keys
      PROVE  \E j \in DOMAIN w.keys :
                /\ w.keys[j] = m.keys[i]
                /\ IsSigner(w, j) <=> IsSigner(m, i)
                /\ IsWritable(w, j) <=> IsWritable(m, i)
  <2>1. Moved(i, p) \in DOMAIN w.keys
    BY <1>1, <1>2
  <2> QED
    BY <1>1, <1>2, <2>1
<1>7. ASSUME Known(m, w.keys[1]) PROVE w.keys[1] = m.keys[1]
  <2>1. p # 1
    BY <1>1, <1>7
  <2>2. Moved(1, p) = 1 /\ 1 \in 1 .. Len(m.keys)
    BY <1>2, <2>1 DEF Moved
  <2> QED
    BY <1>1, <2>2
<1>8. SamePrivileges(m, w)
  BY <1>6, <1>7 DEF SamePrivileges
<1>9. w.loaded = m.loaded /\ Len(w.keys) >= Len(m.keys)
  BY <1>1, <1>2 DEF KeyAdded
<1> QED
  BY <1>2, <1>4, <1>5, <1>8, <1>9 DEF Keeps

\* An account that is new goes to the end of its group (push_account).
LEMMA AccountAdded ==
    ASSUME NEW m \in Message, Sound(m), NEW a \in AccountMeta, ~Known(m, a.key)
    PROVE  LET w == WithAccount(m, a)
               p == Place(m, a)
           IN  /\ w \in Message /\ Sound(w) /\ Keeps(m, w)
               /\ p \in 1 .. Len(m.keys) + 1
               /\ KeyAdded(m, w, p, a.key)
               /\ Granted(w, a)
<1> DEFINE w == WithAccount(m, a)
           p == Place(m, a)
           n == Len(m.keys)
<1>1. /\ a.key \in Addresses /\ a.signer \in BOOLEAN /\ a.writable \in BOOLEAN
  BY DEF AccountMeta
<1>2. /\ n \in Nat /\ m.signers \in Nat /\ m.roSigners \in Nat /\ m.roOthers \in Nat
      /\ m.roSigners < m.signers /\ m.signers + m.roOthers <= n
  BY MessageParts DEF Sound
<1>3. /\ a.signer /\ a.writable => p = m.signers - m.roSigners + 1
      /\ a.signer /\ ~a.writable => p = m.signers + 1
      /\ ~a.signer /\ a.writable => p = n - m.roOthers + 1
      /\ ~a.signer /\ ~a.writable => p = n + 1
  BY <1>1 DEF Place
<1>4. p \in 1 .. n + 1
  BY <1>1, <1>2, <1>3
<1>5. /\ w.keys = InsertAt(m.keys, p, a.key)
      /\ w.loaded = m.loaded /\ w.hash = m.hash
      /\ w.ixs = AllShifted(m, p)
      /\ w.signers = m.signers + (IF a.signer THEN 1 ELSE 0)
      /\ w.roSigners = m.roSigners + (IF a.signer /\ ~a.writable THEN 1 ELSE 0)
      /\ w.roOthers = m.roOthers + (IF ~a.signer /\ ~a.writable THEN 1 ELSE 0)
  BY DEF WithAccount, Message
<1>6. /\ m.signers + (IF a.signer THEN 1 ELSE 0) \in Nat
      /\ m.roSigners + (IF a.signer /\ ~a.writable THEN 1 ELSE 0) \in Nat
      /\ m.roOthers + (IF ~a.signer /\ ~a.writable THEN 1 ELSE 0) \in Nat
  BY <1>2
<1> HIDE DEF w, p, n
<1>7. KeyAdded(m, w, p, a.key)
  BY <1>5 DEF KeyAdded
<1>8. w.keys \in Seq(Addresses) /\ Len(w.keys) = n + 1 /\ w.keys[p] = a.key
  <2>1. a.key \in Addresses /\ p \in 1 .. Len(m.keys) + 1
    BY <1>1, <1>4 DEF n
  <2>6. AddressesMoved(m, w, p, a.key)
    BY <1>7, <2>1, KeysMoved
  <2>2. w.keys \in Seq(Addresses)
    BY <2>6 DEF AddressesMoved
  <2>3. Len(w.keys) = Len(m.keys) + 1
    BY <2>6 DEF AddressesMoved
  <2>4. AddressAt(w, p) = a.key
    BY <2>6 DEF AddressesMoved
  <2>5. w.keys[p] = a.key
    BY <1>2, <2>1, <2>3, <2>4 DEF AddressAt, n
  <2> QED
    BY <2>2, <2>3, <2>5 DEF n
<1>9. w.ixs \in Seq(CompiledInstruction)
  BY <1>1, <1>4, <1>7, MeaningMoved DEF n
<1>10. w \in Message
  <2>1. InsertAt(m.keys, p, a.key) \in Seq(Addresses) /\ AllShifted(m, p) \in Seq(CompiledInstruction)
    BY <1>5, <1>8, <1>9
  <2> QED
    BY <1>6, <2>1 DEF Message, WithAccount, w, p
<1>11. w.roSigners < w.signers /\ w.signers + w.roOthers <= Len(w.keys)
  BY <1>1, <1>2, <1>5, <1>8
<1>12. ASSUME NEW i \in 1 .. n
       PROVE  /\ IsSigner(w, Moved(i, p)) <=> IsSigner(m, i)
              /\ IsWritable(w, Moved(i, p)) <=> IsWritable(m, i)
  <2> DEFINE S == m.signers
             R == m.roSigners
             O == m.roOthers
  <2>a. S \in Nat /\ R \in Nat /\ O \in Nat /\ n \in Nat /\ R < S /\ S + O <= n /\ i \in 1 .. n
    BY <1>2
  <2>b. \A x, j : /\ IsSigner(x, j) <=> j <= x.signers
                  /\ IsWritable(x, j) <=> IF j <= x.signers THEN j <= x.signers - x.roSigners
                                          ELSE j <= Len(x.keys) - x.roOthers
    BY DEF IsSigner, IsWritable
  <2>1. CASE a.signer /\ a.writable
    <3>1. /\ w.signers = S + 1 /\ w.roSigners = R /\ w.roOthers = O
          /\ Len(w.keys) = n + 1 /\ p = (S - R) + 1
      BY <1>2, <1>3, <1>5, <1>8, <2>1
    <3>2. /\ IsSigner(m, i) <=> i <= S
          /\ IsWritable(m, i) <=> IF i <= S THEN i <= S - R ELSE i <= n - O
      BY <2>b DEF n
    <3> DEFINE j == IF i >= (S - R) + 1 THEN i + 1 ELSE i
    <3>3. /\ Moved(i, p) = j
          /\ IsSigner(w, j) <=> j <= S + 1
          /\ IsWritable(w, j) <=> IF j <= S + 1 THEN j <= (S + 1) - (R)
                                  ELSE j <= (n + 1) - (O)
      BY <2>b, <3>1 DEF Moved
    <3> HIDE DEF S, R, O
    <3>4. /\ j <= S + 1 <=> i <= S
          /\ (IF j <= S + 1 THEN j <= (S + 1) - (R) ELSE j <= (n + 1) - (O))
                <=> (IF i <= S THEN i <= S - R ELSE i <= n - O)
      BY <2>a
    <3> QED
      BY <3>2, <3>3, <3>4
  <2>2. CASE a.signer /\ ~a.writable
    <3>1. /\ w.signers = S + 1 /\ w.roSigners = R + 1 /\ w.roOthers = O
          /\ Len(w.keys) = n + 1 /\ p = S + 1
      BY <1>2, <1>3, <1>5, <1>8, <2>2
    <3>2. /\ IsSigner(m, i) <=> i <= S
          /\ IsWritable(m, i) <=> IF i <= S THEN i <= S - R ELSE i <= n - O
      BY <2>b DEF n
    <3> DEFINE j == IF i >= S + 1 THEN i + 1 ELSE i
    <3>3. /\ Moved(i, p) = j
          /\ IsSigner(w, j) <=> j <= S + 1
          /\ IsWritable(w, j) <=> IF j <= S + 1 THEN j <= (S + 1) - (R + 1)
                                  ELSE j <= (n + 1) - (O)
      BY <2>b, <3>1 DEF Moved
    <3> HIDE DEF S, R, O
    <3>4. /\ j <= S + 1 <=> i <= S
          /\ (IF j <= S + 1 THEN j <= (S + 1) - (R + 1) ELSE j <= (n + 1) - (O))
                <=> (IF i <= S THEN i <= S - R ELSE i <= n - O)
      BY <2>a
    <3> QED
      BY <3>2, <3>3, <3>4
  <2>3. CASE ~a.signer /\ a.writable
    <3>1. /\ w.signers = S /\ w.roSigners = R /\ w.roOthers = O
          /\ Len(w.keys) = n + 1 /\ p = (n - O) + 1
      BY <1>2, <1>3, <1>5, <1>8, <2>3
    <3>2. /\ IsSigner(m, i) <=> i <= S
          /\ IsWritable(m, i) <=> IF i <= S THEN i <= S - R ELSE i <= n - O
      BY <2>b DEF n
    <3> DEFINE j == IF i >= (n - O) + 1 THEN i + 1 ELSE i
    <3>3. /\ Moved(i, p) = j
          /\ IsSigner(w, j) <=> j <= S
          /\ IsWritable(w, j) <=> IF j <= S THEN j <= (S) - (R)
                                  ELSE j <= (n + 1) - (O)
      BY <2>b, <3>1 DEF Moved
    <3> HIDE DEF S, R, O
    <3>4. /\ j <= S <=> i <= S
          /\ (IF j <= S THEN j <= (S) - (R) ELSE j <= (n + 1) - (O))
                <=> (IF i <= S THEN i <= S - R ELSE i <= n - O)
      BY <2>a
    <3> QED
      BY <3>2, <3>3, <3>4
  <2>4. CASE ~a.signer /\ ~a.writable
    <3>1. /\ w.signers = S /\ w.roSigners = R /\ w.roOthers = O + 1
          /\ Len(w.keys) = n + 1 /\ p = n + 1
      BY <1>2, <1>3, <1>5, <1>8, <2>4
    <3>2. /\ IsSigner(m, i) <=> i <= S
          /\ IsWritable(m, i) <=> IF i <= S THEN i <= S - R ELSE i <= n - O
      BY <2>b DEF n
    <3> DEFINE j == IF i >= n + 1 THEN i + 1 ELSE i
    <3>3. /\ Moved(i, p) = j
          /\ IsSigner(w, j) <=> j <= S
          /\ IsWritable(w, j) <=> IF j <= S THEN j <= (S) - (R)
                                  ELSE j <= (n + 1) - (O + 1)
      BY <2>b, <3>1 DEF Moved
    <3> HIDE DEF S, R, O
    <3>4. /\ j <= S <=> i <= S
          /\ (IF j <= S THEN j <= (S) - (R) ELSE j <= (n + 1) - (O + 1))
                <=> (IF i <= S THEN i <= S - R ELSE i <= n - O)
      BY <2>a
    <3> QED
      BY <3>2, <3>3, <3>4
  <2> QED
    BY <1>1, <2>1, <2>2, <2>3, <2>4
<1>14. Sound(w) /\ Keeps(m, w)
  BY <1>1, <1>4, <1>7, <1>10, <1>11, <1>12, KeyAddedKeeps DEF n
<1>15. Granted(w, a)
  <2>1. p \in DOMAIN w.keys
    BY <1>2, <1>4, <1>8
  <2>2. a.signer => IsSigner(w, p)
    BY <1>1, <1>2, <1>3, <1>5 DEF IsSigner
  <2>3. a.writable => IsWritable(w, p)
    BY <1>1, <1>2, <1>3, <1>5, <1>8 DEF IsSigner, IsWritable
  <2> QED
    BY <1>8, <2>1, <2>2, <2>3 DEF Granted
<1> QED
  BY <1>4, <1>7, <1>10, <1>14, <1>15 DEF w, p, n

\* A message keeps what it has.
LEMMA KeepsItself == ASSUME NEW m \in Message PROVE Keeps(m, m)
<1>1. Len(m.keys) \in Nat
  BY MessageParts
<1> QED
  BY <1>1 DEF Keeps, SamePrivileges

\* Indices into a list of keys without lookups stay when a key is appended.
LEMMA NothingShifted ==
    ASSUME NEW m \in Message, Sound(m), m.loaded = <<>>
    PROVE  AllShifted(m, Len(m.keys) + 1) = m.ixs
<1> DEFINE K == Len(m.keys)
<1>1. K \in Nat /\ DOMAIN m.ixs = 1 .. Len(m.ixs) /\ m.ixs \in Seq(CompiledInstruction)
  BY MessageParts
<1>2. ASSUME NEW i \in DOMAIN m.ixs PROVE Shifted(m.ixs[i], K + 1) = m.ixs[i]
  <2> DEFINE x == m.ixs[i]
  <2>1. /\ x \in CompiledInstruction /\ x.accounts \in Seq(Nat)
        /\ x.program \in 1 .. K
        /\ \A n \in DOMAIN x.accounts : x.accounts[n] \in 1 .. K + Len(m.loaded)
    BY <1>1, MessageParts DEF Sound
  <2>2. Len(m.loaded) = 0
    OBVIOUS
  <2> HIDE DEF x, K
  <2>3. \A n \in DOMAIN x.accounts : x.accounts[n] \in 1 .. K
    BY <1>1, <2>1, <2>2
  <2>4. \A j \in 1 .. K : Moved(j, K + 1) = j
    BY <1>1 DEF Moved
  <2>5. [n \in DOMAIN x.accounts |-> Moved(x.accounts[n], K + 1)] = x.accounts
    <3>1. x.accounts = [n \in DOMAIN x.accounts |-> x.accounts[n]]
      BY <2>1
    <3> QED
      BY <2>3, <2>4, <3>1
  <2>6. x = [program |-> x.program, accounts |-> x.accounts, data |-> x.data]
    BY <2>1 DEF CompiledInstruction
  <2>7. Shifted(x, K + 1) = x
    BY <2>1, <2>4, <2>5, <2>6 DEF Shifted
  <2> QED
    BY <2>7 DEF x
<1> HIDE DEF K
<1>3. m.ixs = [i \in DOMAIN m.ixs |-> m.ixs[i]]
  BY <1>1
<1>4. [i \in DOMAIN m.ixs |-> Shifted(m.ixs[i], K + 1)] = m.ixs
  BY <1>2, <1>3
<1> QED
  BY <1>4 DEF AllShifted, K

\* To append is to insert at the end.
LEMMA AppendInserts ==
    ASSUME NEW S, NEW s \in Seq(S), NEW e \in S
    PROVE  Append(s, e) = InsertAt(s, Len(s) + 1, e)
<1> DEFINE n == Len(s)
           u == Append(s, e)
           v == InsertAt(s, n + 1, e)
<1>1. n \in Nat /\ n + 1 \in 1 .. n + 1
  OBVIOUS
<1>2. /\ u \in Seq(S) /\ Len(u) = n + 1
      /\ \A j \in 1 .. n + 1 : u[j] = IF j < n + 1 THEN s[j] ELSE e
  OBVIOUS
<1>3. /\ v \in Seq(S) /\ Len(v) = n + 1
      /\ \A j \in 1 .. n + 1 : v[j] = IF j < n + 1 THEN s[j] ELSE IF j = n + 1 THEN e ELSE s[j - 1]
  <2>1. Len(s) + 1 \in 1 .. Len(s) + 1
    BY <1>1
  <2>2. IsInserted(S, v, s, n + 1, e)
    BY <2>1, Inserted
  <2> QED
    BY <2>2 DEF IsInserted
<1> HIDE DEF n, u, v
<1>4. \A j \in 1 .. n + 1 : u[j] = v[j]
  BY <1>1, <1>2, <1>3
<1>5. u = [j \in 1 .. n + 1 |-> u[j]] /\ v = [j \in 1 .. n + 1 |-> v[j]]
  BY <1>1, <1>2, <1>3
<1>6. u = v
  BY <1>4, <1>5
<1> QED
  BY <1>6 DEF u, v, n

\* The position of a key that is there.
LEMMA PositionFinds ==
    ASSUME NEW m \in Message, NEW k, Known(m, k)
    PROVE  Position(m.keys, k) \in 1 .. Len(m.keys) /\ m.keys[Position(m.keys, k)] = k
<1>1. DOMAIN m.keys = 1 .. Len(m.keys)
  BY MessageParts
<1> QED
  BY <1>1 DEF Known, Position

\* What an instruction's program adds is behind all other keys
\* (push_readonly_unsigned_account).
ProgramBehind(m, w, k) ==
    /\ w \in Message /\ Sound(w) /\ Keeps(m, w) /\ Known(w, k)
    /\ w.signers = m.signers /\ w.hash = m.hash
    /\ \A i \in 1 .. Len(m.keys) : w.keys[i] = m.keys[i]

\* push_readonly_unsigned_account puts the program behind the keys, or finds it.
LEMMA ProgramAdded ==
    ASSUME NEW m \in Message, Sound(m), NEW k \in Addresses
    PROVE  ProgramBehind(m, WithProgram(m, k), k)
<1> DEFINE w == WithProgram(m, k)
           K == Len(m.keys)
<1>1. CASE Known(m, k)
  <2>1. w = m
    BY <1>1 DEF WithProgram
  <2> QED
    BY <1>1, <2>1, KeepsItself DEF ProgramBehind
<1>2. CASE ~Known(m, k)
  <2>1. /\ w.keys = Append(m.keys, k) /\ w.loaded = m.loaded /\ w.hash = m.hash
        /\ w.signers = m.signers /\ w.roSigners = m.roSigners /\ w.roOthers = m.roOthers + 1
        /\ w.ixs = IF m.loaded = <<>> THEN m.ixs ELSE AllShifted(m, K + 1)
    BY <1>2 DEF WithProgram, Message
  <2>2. m.keys \in Seq(Addresses) /\ K \in Nat /\ K + 1 \in 1 .. K + 1
    BY MessageParts
  <2>3. KeyAdded(m, w, K + 1, k)
    <3>1. w.keys = InsertAt(m.keys, K + 1, k)
      BY <2>1, <2>2, AppendInserts
    <3>2. w.ixs = AllShifted(m, K + 1)
      BY <2>1, NothingShifted
    <3> QED
      BY <2>1, <3>1, <3>2 DEF KeyAdded
  <2>4. /\ Append(m.keys, k) \in Seq(Addresses) /\ Len(Append(m.keys, k)) = K + 1
        /\ \A i \in 1 .. K : Append(m.keys, k)[i] = m.keys[i]
        /\ Append(m.keys, k)[K + 1] = k
    BY <2>2
  <2>5. w \in Message
    <3>1. w.ixs \in Seq(CompiledInstruction)
      BY <2>2, <2>3, MeaningMoved
    <3>2. m.roOthers + 1 \in Nat
      BY MessageParts
    <3>3. w.ixs = (IF m.loaded = <<>> THEN m.ixs ELSE AllShifted(m, K + 1))
      BY <2>1
    <3> QED
      BY <1>2, <2>4, <3>1, <3>2, <3>3 DEF Message, WithProgram
  <2> HIDE DEF w, K
  <2>6. /\ Len(w.keys) = K + 1 /\ \A i \in 1 .. K : w.keys[i] = m.keys[i]
        /\ K + 1 \in DOMAIN w.keys /\ w.keys[K + 1] = k
    BY <2>1, <2>2, <2>4
  <2>7. /\ m.signers \in Nat /\ m.roSigners \in Nat /\ m.roOthers \in Nat
        /\ m.roSigners < m.signers /\ m.signers + m.roOthers <= K
    BY MessageParts DEF Sound, K
  <2>8. w.roSigners < w.signers /\ w.signers + w.roOthers <= Len(w.keys)
    BY <2>1, <2>2, <2>6, <2>7
  <2>9. ASSUME NEW i \in 1 .. K
        PROVE  /\ IsSigner(w, Moved(i, K + 1)) <=> IsSigner(m, i)
               /\ IsWritable(w, Moved(i, K + 1)) <=> IsWritable(m, i)
    <3>1. Moved(i, K + 1) = i
      BY <2>2 DEF Moved
    <3>2. (K + 1) - (m.roOthers + 1) = K - m.roOthers
      BY <2>2, <2>7
    <3>3. Len(w.keys) - w.roOthers = K - m.roOthers
      BY <2>1, <2>6, <3>2
    <3> QED
      BY <2>1, <3>1, <3>3 DEF IsSigner, IsWritable, K
  <2>10. Sound(w) /\ Keeps(m, w)
    BY <1>2, <2>2, <2>3, <2>5, <2>8, <2>9, KeyAddedKeeps DEF K
  <2> QED
    BY <2>1, <2>5, <2>6, <2>10 DEF ProgramBehind, Known, w, K
<1> QED
  BY <1>1, <1>2

\* A new payer goes before all other keys (set_fee_payer).
LEMMA PayerAdded ==
    ASSUME NEW m \in Message, Sound(m), NEW k \in Addresses, ~Known(m, k)
    PROVE  LET w == WithPayer(m, k)
           IN  w \in Message /\ Sound(w) /\ Keeps(m, w)
<1> DEFINE w == WithPayer(m, k)
           K == Len(m.keys)
<1>1. /\ w.keys = InsertAt(m.keys, 1, k) /\ w.loaded = m.loaded /\ w.hash = m.hash
      /\ w.signers = m.signers + 1 /\ w.roSigners = m.roSigners /\ w.roOthers = m.roOthers
      /\ w.ixs = AllShifted(m, 1)
  BY DEF WithPayer, Message
<1>2. m.keys \in Seq(Addresses) /\ K \in Nat /\ 1 \in 1 .. K + 1
  BY MessageParts
<1>3. KeyAdded(m, w, 1, k)
  BY <1>1 DEF KeyAdded
<1>4. AddressesMoved(m, w, 1, k)
  BY <1>2, <1>3, KeysMoved
<1>5. w.keys \in Seq(Addresses) /\ Len(w.keys) = K + 1
  BY <1>4 DEF AddressesMoved
<1>6. w \in Message
  <2>1. w.ixs \in Seq(CompiledInstruction)
    BY <1>2, <1>3, MeaningMoved
  <2>2. m.signers + 1 \in Nat
    BY MessageParts
  <2>3. InsertAt(m.keys, 1, k) \in Seq(Addresses) /\ AllShifted(m, 1) \in Seq(CompiledInstruction)
    BY <1>1, <1>5, <2>1
  <2> QED
    BY <2>2, <2>3 DEF Message, WithPayer
<1>7. /\ m.signers \in Nat /\ m.roSigners \in Nat /\ m.roOthers \in Nat
      /\ m.roSigners < m.signers /\ m.signers + m.roOthers <= K
  BY MessageParts DEF Sound
<1> HIDE DEF w, K
<1>8. w.roSigners < w.signers /\ w.signers + w.roOthers <= Len(w.keys)
  BY <1>1, <1>2, <1>5, <1>7
<1>9. ASSUME NEW i \in 1 .. K
      PROVE  /\ IsSigner(w, Moved(i, 1)) <=> IsSigner(m, i)
             /\ IsWritable(w, Moved(i, 1)) <=> IsWritable(m, i)
  <2> DEFINE S == m.signers
             R == m.roSigners
             O == m.roOthers
  <2>1. Moved(i, 1) = i + 1
    BY <1>2 DEF Moved
  <2>2. /\ IsSigner(w, i + 1) <=> i + 1 <= S + 1
        /\ IsWritable(w, i + 1) <=> IF i + 1 <= S + 1 THEN i + 1 <= (S + 1) - R
                                    ELSE i + 1 <= (K + 1) - O
    BY <1>1, <1>5 DEF IsSigner, IsWritable
  <2>3. /\ IsSigner(m, i) <=> i <= S
        /\ IsWritable(m, i) <=> IF i <= S THEN i <= S - R ELSE i <= K - O
    BY DEF IsSigner, IsWritable, K
  <2>4. S \in Nat /\ R \in Nat /\ O \in Nat
    BY <1>7
  <2> HIDE DEF S, R, O
  <2>5. /\ i + 1 <= S + 1 <=> i <= S
        /\ i + 1 <= (S + 1) - R <=> i <= S - R
        /\ i + 1 <= (K + 1) - O <=> i <= K - O
    BY <1>2, <2>4
  <2> QED
    BY <2>1, <2>2, <2>3, <2>5
<1>10. Sound(w) /\ Keeps(m, w)
  BY <1>2, <1>3, <1>6, <1>8, <1>9, KeyAddedKeeps DEF K
<1> QED
  BY <1>6, <1>10 DEF w

-----------------------------------------------------------------------------
\* Privileges go on from one message to the next.
LEMMA GrantedKept ==
    ASSUME NEW m, NEW w, SamePrivileges(m, w), w.loaded = m.loaded, NEW a, Granted(m, a)
    PROVE  Granted(w, a)
<1>1. CASE \E i \in DOMAIN m.loaded : m.loaded[i] = a.key
  BY <1>1 DEF Granted
<1>2. CASE \E i \in DOMAIN m.keys :
                /\ m.keys[i] = a.key
                /\ a.signer => IsSigner(m, i)
                /\ a.writable => IsWritable(m, i)
  BY <1>2 DEF SamePrivileges, Granted
<1> QED
  BY <1>1, <1>2 DEF Granted

\* And so does what the instructions were asked to be.
LEMMA AskedKept ==
    ASSUME NEW m \in Message, NEW w \in Message, Keeps(m, w), NEW list \in Seq(Asked),
           Len(list) = Len(m.ixs), MeansAsked(m, list), AllGranted(m, list)
    PROVE  Len(list) = Len(w.ixs) /\ MeansAsked(w, list) /\ AllGranted(w, list)
<1>1. DOMAIN m.ixs = 1 .. Len(m.ixs) /\ DOMAIN w.ixs = 1 .. Len(w.ixs) /\ Len(w.ixs) = Len(m.ixs)
  BY MessageParts DEF Keeps
<1>2. MeansAsked(w, list)
  BY <1>1 DEF MeansAsked, Keeps
<1>3. AllGranted(w, list)
  BY GrantedKept DEF AllGranted, Keeps
<1> QED
  BY <1>1, <1>2, <1>3

\* Keeping the privileges composes, so that a copy may be edited in turns.
LEMMA KeepsOn ==
    ASSUME NEW l, NEW m \in Message, NEW w \in Message, SamePrivileges(l, m), SamePrivileges(m, w),
           m.keys # <<>>
    PROVE  SamePrivileges(l, w)
<1>1. ASSUME NEW i \in DOMAIN l.keys
      PROVE  \E j \in DOMAIN w.keys :
                /\ w.keys[j] = l.keys[i]
                /\ IsSigner(w, j) <=> IsSigner(l, i)
                /\ IsWritable(w, j) <=> IsWritable(l, i)
  <2>1. PICK n \in DOMAIN m.keys :
            /\ m.keys[n] = l.keys[i]
            /\ IsSigner(m, n) <=> IsSigner(l, i)
            /\ IsWritable(m, n) <=> IsWritable(l, i)
    BY DEF SamePrivileges
  <2>2. PICK j \in DOMAIN w.keys :
            /\ w.keys[j] = m.keys[n]
            /\ IsSigner(w, j) <=> IsSigner(m, n)
            /\ IsWritable(w, j) <=> IsWritable(m, n)
    BY DEF SamePrivileges
  <2> QED
    BY <2>1, <2>2
<1>2. ASSUME Known(l, w.keys[1]) PROVE w.keys[1] = l.keys[1]
  <2>1. Known(m, w.keys[1])
    BY <1>2 DEF Known, SamePrivileges
  <2>2. w.keys[1] = m.keys[1]
    BY <2>1 DEF SamePrivileges
  <2> QED
    BY <1>2, <2>2 DEF SamePrivileges
<1> QED
  BY <1>1, <1>2 DEF SamePrivileges

\* The instruction that accounts and program given by index make.
Made(m, program, accounts, data) ==
    [program |-> program,
     accounts |-> [n \in DOMAIN accounts |-> AddressAt(m, accounts[n])],
     data |-> data]

\* w is m with one instruction inserted, and perhaps its program.
InstructionInserted(m, w, p, program, accounts, data) ==
    /\ w \in Message /\ Sound(w)
    /\ SamePrivileges(m, w) /\ w.loaded = m.loaded /\ Len(w.keys) >= Len(m.keys)
    /\ w.signers = m.signers /\ w.hash = m.hash
    /\ \A i \in 1 .. Len(m.keys) : w.keys[i] = m.keys[i]
    /\ Len(w.ixs) = Len(m.ixs) + 1
    /\ \A j \in 1 .. Len(m.ixs) + 1 :
        Meaning(w, w.ixs[j]) =
            IF j < p THEN Meaning(m, m.ixs[j])
            ELSE IF j = p THEN Made(m, program, accounts, data) ELSE Meaning(m, m.ixs[j - 1])

\* The last step of insert_instruction.
LEMMA InstructionAdded ==
    ASSUME NEW m \in Message, Sound(m), NEW p \in 1 .. Len(m.ixs) + 1,
           NEW program \in Addresses, NEW data \in Data, NEW accounts \in Seq(Nat),
           \A n \in DOMAIN accounts : accounts[n] \in 1 .. Len(m.keys)
    PROVE  InstructionInserted(m, WithInstruction(m, p, program, accounts, data),
                               p, program, accounts, data)
<1> DEFINE v == WithProgram(m, program)
           ix == [program |-> Position(v.keys, program), accounts |-> accounts, data |-> data]
           w == [v EXCEPT !.ixs = InsertAt(@, p, ix)]
<1>1. ProgramBehind(m, v, program)
  BY ProgramAdded
<1> HIDE DEF v
<1>2. /\ v \in Message /\ Sound(v) /\ Keeps(m, v)
      /\ v.signers = m.signers /\ v.hash = m.hash
      /\ \A i \in 1 .. Len(m.keys) : v.keys[i] = m.keys[i]
      /\ Len(v.ixs) = Len(m.ixs) /\ v.ixs \in Seq(CompiledInstruction)
      /\ Len(v.keys) >= Len(m.keys) /\ v.loaded = m.loaded
      /\ Len(v.keys) \in Nat /\ Len(m.keys) \in Nat /\ Len(v.loaded) \in Nat /\ Len(m.ixs) \in Nat
      /\ DOMAIN m.ixs = 1 .. Len(m.ixs) /\ DOMAIN v.ixs = 1 .. Len(m.ixs)
  BY <1>1, MessageParts DEF ProgramBehind, Keeps
<1>3. /\ ix.program \in 1 .. Len(v.keys) /\ v.keys[ix.program] = program
      /\ ix.accounts = accounts /\ ix.data = data
      /\ ix \in CompiledInstruction
  <2>1. /\ Position(v.keys, program) \in 1 .. Len(v.keys)
        /\ v.keys[Position(v.keys, program)] = program
    BY <1>1, <1>2, PositionFinds DEF ProgramBehind
  <2>2. Position(v.keys, program) \in Nat
    BY <1>2, <2>1
  <2> QED
    BY <2>1, <2>2 DEF CompiledInstruction
<1> HIDE DEF ix
<1>4. IsInserted(CompiledInstruction, InsertAt(v.ixs, p, ix), v.ixs, p, ix)
  BY <1>2, <1>3, Inserted
<1>5. /\ w.ixs = InsertAt(v.ixs, p, ix) /\ w.keys = v.keys /\ w.loaded = v.loaded
      /\ w.signers = v.signers /\ w.roSigners = v.roSigners /\ w.roOthers = v.roOthers
      /\ w.hash = v.hash
  BY <1>2 DEF Message
<1>6. w \in Message
  <2>1. InsertAt(v.ixs, p, ix) \in Seq(CompiledInstruction)
    BY <1>4 DEF IsInserted
  <2> QED
    BY <1>2, <2>1 DEF Message
<1> HIDE DEF w
<1>7. /\ Len(w.ixs) = Len(m.ixs) + 1 /\ DOMAIN w.ixs = 1 .. Len(m.ixs) + 1
      /\ \A j \in 1 .. Len(m.ixs) + 1 :
            w.ixs[j] = IF j < p THEN v.ixs[j] ELSE IF j = p THEN ix ELSE v.ixs[j - 1]
  BY <1>2, <1>4, <1>5 DEF IsInserted
<1>8. \A x : Meaning(w, x) = Meaning(v, x)
  BY <1>5 DEF Meaning, AddressAt
<1>9. Meaning(v, ix) = Made(m, program, accounts, data)
  <2>1. \A n \in DOMAIN accounts : AddressAt(v, accounts[n]) = AddressAt(m, accounts[n])
    BY <1>2 DEF AddressAt
  <2>2. AddressAt(v, ix.program) = program
    BY <1>2, <1>3 DEF AddressAt
  <2>3. [n \in DOMAIN accounts |-> AddressAt(v, accounts[n])]
            = [n \in DOMAIN accounts |-> AddressAt(m, accounts[n])]
    BY <2>1
  <2> QED
    BY <1>3, <2>2, <2>3 DEF Meaning, Made
<1>10. \A i \in 1 .. Len(m.ixs) : Meaning(v, v.ixs[i]) = Meaning(m, m.ixs[i])
  BY <1>2 DEF Keeps
<1>11. ASSUME NEW j \in 1 .. Len(m.ixs) + 1
       PROVE  Meaning(w, w.ixs[j]) =
                IF j < p THEN Meaning(m, m.ixs[j])
                ELSE IF j = p THEN Made(m, program, accounts, data) ELSE Meaning(m, m.ixs[j - 1])
  <2>1. CASE j < p
    <3>1. j \in 1 .. Len(m.ixs) /\ w.ixs[j] = v.ixs[j]
      BY <1>2, <1>7, <2>1
    <3> QED
      BY <1>8, <1>10, <2>1, <3>1
  <2>2. CASE j = p
    <3>0. ~(p < p) /\ p \in 1 .. Len(m.ixs) + 1
      BY <1>2
    <3>1. w.ixs[j] = ix
      BY <1>7, <2>2, <3>0
    <3>2. Meaning(w, w.ixs[j]) = Made(m, program, accounts, data)
      BY <1>8, <1>9, <3>1
    <3> QED
      BY <1>2, <2>2, <3>2
  <2>3. CASE j > p
    <3>1. j - 1 \in 1 .. Len(m.ixs) /\ w.ixs[j] = v.ixs[j - 1] /\ ~(j < p) /\ j # p
      BY <1>2, <1>7, <2>3
    <3> QED
      BY <1>8, <1>10, <3>1
  <2> QED
    BY <1>2, <2>1, <2>2, <2>3
<1>12. Sound(w)
  <2>1. ASSUME NEW j \in DOMAIN w.ixs
        PROVE  /\ w.ixs[j].program \in 1 .. Len(w.keys)
               /\ \A n \in DOMAIN w.ixs[j].accounts :
                    w.ixs[j].accounts[n] \in 1 .. (Len(w.keys) + Len(w.loaded))
    <3>1. CASE j = p
      <4>1. w.ixs[j] = ix
        BY <1>2, <1>7, <3>1
      <4>2. \A n \in DOMAIN accounts : accounts[n] \in 1 .. (Len(v.keys) + Len(v.loaded))
        <5> DEFINE A == Len(m.keys)
                   B == Len(v.keys)
                   C == Len(v.loaded)
        <5>1. A \in Nat /\ B \in Nat /\ C \in Nat /\ B >= A
              /\ \A n \in DOMAIN accounts : accounts[n] \in 1 .. A
          BY <1>2
        <5> HIDE DEF A, B, C
        <5>2. 1 .. A \subseteq 1 .. (B + C)
          BY <5>1
        <5>3. \A n \in DOMAIN accounts : accounts[n] \in 1 .. (B + C)
          BY <5>1, <5>2
        <5> QED
          BY <5>3 DEF A, B, C
      <4> QED
        BY <1>3, <1>5, <4>1, <4>2
    <3>2. CASE j # p
      <4>1. \E i \in DOMAIN v.ixs : w.ixs[j] = v.ixs[i]
        <5>1. CASE j < p
          <6>1. j \in DOMAIN v.ixs /\ w.ixs[j] = v.ixs[j]
            BY <1>2, <1>7, <5>1
          <6> QED
            BY <6>1
        <5>2. CASE j > p
          <6>1. j - 1 \in DOMAIN v.ixs /\ w.ixs[j] = v.ixs[j - 1]
            BY <1>2, <1>7, <5>2
          <6> QED
            BY <6>1
        <5> QED
          BY <1>2, <1>7, <3>2, <5>1, <5>2
      <4> QED
        BY <1>2, <1>5, <4>1 DEF Sound
    <3> QED
      BY <3>1, <3>2
  <2> QED
    BY <1>2, <1>5, <2>1 DEF Sound
<1>13. SamePrivileges(m, w)
  <2>1. SamePrivileges(m, v)
    BY <1>2 DEF Keeps
  <2>2. \A j : (IsSigner(w, j) <=> IsSigner(v, j)) /\ (IsWritable(w, j) <=> IsWritable(v, j))
    BY <1>5 DEF IsSigner, IsWritable
  <2> QED
    BY <1>5, <2>1, <2>2 DEF SamePrivileges
<1>14. w = WithInstruction(m, p, program, accounts, data)
  BY DEF WithInstruction, w, v, ix
<1> QED
  BY <1>2, <1>5, <1>6, <1>7, <1>11, <1>12, <1>13, <1>14 DEF InstructionInserted

\* The list of what was asked for takes the new instruction at the same place.
LEMMA AskedInserted ==
    ASSUME NEW m \in Message, NEW list \in Seq(Asked), Len(list) = Len(m.ixs),
           MeansAsked(m, list), AllGranted(m, list),
           NEW p \in 1 .. Len(m.ixs) + 1, NEW e \in Asked,
           NEW accounts \in Seq(Nat), Len(accounts) = Len(e.accounts),
           \A n \in DOMAIN accounts :
                /\ accounts[n] \in 1 .. Len(m.keys)
                /\ ~e.overtaken => m.keys[accounts[n]] = e.accounts[n].key
                /\ Granted(m, e.accounts[n]),
           NEW w, InstructionInserted(m, w, p, e.program, accounts, e.data)
    PROVE  /\ InsertAt(list, p, e) \in Seq(Asked)
           /\ Len(InsertAt(list, p, e)) = Len(w.ixs)
           /\ MeansAsked(w, InsertAt(list, p, e))
           /\ AllGranted(w, InsertAt(list, p, e))
<1> DEFINE new == InsertAt(list, p, e)
           N == Len(m.ixs)
<1>1. IsInserted(Asked, new, list, p, e)
  BY Inserted
<1>2. /\ N \in Nat /\ p \in 1 .. N + 1 /\ DOMAIN m.ixs = 1 .. N /\ DOMAIN list = 1 .. N
      /\ DOMAIN accounts = DOMAIN e.accounts
  <2>1. e.accounts \in Seq(AccountMeta)
    BY DEF Asked
  <2> QED
    BY <2>1, MessageParts
<1> HIDE DEF new, N
<1>3. /\ new \in Seq(Asked) /\ Len(new) = N + 1 /\ DOMAIN new = 1 .. N + 1
      /\ \A j \in 1 .. N + 1 :
            new[j] = IF j < p THEN list[j] ELSE IF j = p THEN e ELSE list[j - 1]
  BY <1>1, <1>2 DEF IsInserted, N
<1>4. /\ w \in Message /\ SamePrivileges(m, w) /\ w.loaded = m.loaded
      /\ Len(w.ixs) = N + 1
      /\ \A j \in 1 .. N + 1 :
            Meaning(w, w.ixs[j]) =
                IF j < p THEN Meaning(m, m.ixs[j])
                ELSE IF j = p THEN Made(m, e.program, accounts, e.data) ELSE Meaning(m, m.ixs[j - 1])
  BY DEF InstructionInserted, N
<1>5. DOMAIN w.ixs = 1 .. N + 1
  BY <1>2, <1>4, MessageParts
<1> DEFINE Good(meaning, x) ==
        /\ meaning.program = x.program
        /\ meaning.data = x.data
        /\ ~x.overtaken => meaning = Plain(x)
<1>6. Good(Made(m, e.program, accounts, e.data), e)
  <2>1. ASSUME ~e.overtaken
        PROVE  Made(m, e.program, accounts, e.data) = Plain(e)
    <3>1. \A n \in DOMAIN accounts : AddressAt(m, accounts[n]) = e.accounts[n].key
      <4>1. Len(m.keys) \in Nat
        BY MessageParts
      <4> QED
        BY <2>1, <4>1 DEF AddressAt
    <3>2. [n \in DOMAIN accounts |-> AddressAt(m, accounts[n])]
             = [n \in DOMAIN e.accounts |-> e.accounts[n].key]
      BY <1>2, <3>1
    <3> QED
      BY <3>2 DEF Made, Plain
  <2> QED
    BY <2>1 DEF Made
<1>7. \A i \in 1 .. N : Good(Meaning(m, m.ixs[i]), list[i])
  BY <1>2 DEF MeansAsked
<1> HIDE DEF Good
<1>8. ASSUME NEW j \in 1 .. N + 1 PROVE Good(Meaning(w, w.ixs[j]), new[j])
  <2>1. CASE j < p
    <3>1. /\ j \in 1 .. N /\ new[j] = list[j]
          /\ Meaning(w, w.ixs[j]) = Meaning(m, m.ixs[j])
      BY <1>2, <1>3, <1>4, <2>1
    <3> QED
      BY <1>7, <3>1
  <2>2. CASE j = p
    <3>1. ~(j < p)
      BY <1>2, <2>2
    <3>2. new[j] = e /\ Meaning(w, w.ixs[j]) = Made(m, e.program, accounts, e.data)
      BY <1>3, <1>4, <2>2, <3>1
    <3> QED
      BY <1>6, <3>2
  <2>3. CASE j > p
    <3>1. j - 1 \in 1 .. N /\ ~(j < p) /\ j # p
      BY <1>2, <2>3
    <3>2. new[j] = list[j - 1] /\ Meaning(w, w.ixs[j]) = Meaning(m, m.ixs[j - 1])
      BY <1>3, <1>4, <3>1
    <3> QED
      BY <1>7, <3>1, <3>2
  <2> QED
    BY <1>2, <2>1, <2>2, <2>3
<1>9. MeansAsked(w, new)
  BY <1>5, <1>8 DEF MeansAsked, Good
<1>10. \A a : Granted(m, a) => Granted(w, a)
  BY <1>4, GrantedKept
<1>11. ASSUME NEW j \in 1 .. N + 1, NEW n \in DOMAIN new[j].accounts
       PROVE  Granted(w, new[j].accounts[n])
  <2>1. CASE j = p
    <3>1. ~(j < p)
      BY <1>2, <2>1
    <3>2. new[j] = e
      BY <1>3, <2>1, <3>1
    <3> QED
      BY <1>2, <1>10, <1>11, <3>2
  <2>2. CASE j # p
    <3>1. \E i \in DOMAIN list : new[j] = list[i]
      <4>1. CASE j < p
        <5>1. j \in DOMAIN list /\ new[j] = list[j]
          BY <1>2, <1>3, <4>1
        <5> QED
          BY <5>1
      <4>2. CASE j > p
        <5>1. j - 1 \in DOMAIN list /\ ~(j < p)
          BY <1>2, <4>2
        <5>2. new[j] = list[j - 1]
          BY <1>3, <2>2, <5>1
        <5> QED
          BY <5>1, <5>2
      <4> QED
        BY <1>2, <2>2, <4>1, <4>2
    <3> QED
      BY <1>10, <1>11, <3>1 DEF AllGranted
  <2> QED
    BY <2>1, <2>2
<1>12. AllGranted(w, new)
  BY <1>3, <1>11 DEF AllGranted
<1> QED
  BY <1>3, <1>4, <1>9, <1>12 DEF new

-----------------------------------------------------------------------------
\* No message is being changed.
Resting ==
    /\ at = 0 /\ work \in Message
    /\ inserting \in Instruction
    /\ collected \in Seq(Nat) /\ Len(collected) <= Len(inserting.accounts)
    /\ overtaken \in BOOLEAN

\* The message is as it was asked to be.
Right(m, list) ==
    /\ m \in Message /\ Sound(m)
    /\ list \in Seq(Asked) /\ Len(list) = Len(m.ixs)
    /\ MeansAsked(m, list) /\ AllGranted(m, list)

\* A signature slot, and the slots of a message's signers.
Slot == [by : Addresses \union {"nobody"}, over : Message]
Fit(m, list) ==
    /\ list \in Seq(Slot)
    /\ Len(list) = m.signers
    /\ \A i \in DOMAIN list :
        list[i] # Zero =>
            /\ list[i].by = m.keys[i]
            /\ Core(list[i].over) = Core(m)
            /\ list[i].over.hash = m.hash

\* A message with a payer is not the empty one.
LEMMA SoundIsMessage == ASSUME NEW m \in Message, Sound(m) PROVE m # NoMessage /\ m.keys # <<>>
<1>1. /\ m.signers \in Nat /\ m.roSigners \in Nat /\ m.roSigners < m.signers
      /\ m.signers + m.roOthers <= Len(m.keys) /\ m.roOthers \in Nat
  BY MessageParts DEF Sound
<1>2. m.signers # 0 /\ Len(m.keys) # 0
  BY <1>1
<1> QED
  BY <1>2 DEF NoMessage

\* A message, its slots and a client at rest make the invariant.
LEMMA Together ==
    Right(message, asked)' /\ Fit(message, slots)' /\ Resting' => SolanaInv'
<1> SUFFICES ASSUME Right(message, asked)', Fit(message, slots)', Resting' PROVE SolanaInv'
  OBVIOUS
<1>1. Len(message'.ixs) \in Nat
  BY MessageParts DEF Right
<1>2. SolanaTypeOK'
  BY <1>1 DEF SolanaTypeOK, Right, Fit, Resting, Slot
<1>3. MeansAsAsked' /\ PrivilegesEnough' /\ SignaturesFit'
  BY DEF MeansAsAsked, PrivilegesEnough, SignaturesFit, Right, Fit
<1> QED
  BY <1>2, <1>3 DEF SolanaInv, Resting

\* After a reset no message is being changed.
LEMMA ResetRests == ASSUME Reset PROVE Resting'
<1>1. /\ at' = 0 /\ inserting' = NoInstruction
      /\ work' = NoMessage /\ collected' = <<>> /\ overtaken' = FALSE
  BY DEF Reset
<1>2. NoMessage \in Message /\ NoInstruction \in Instruction
  BY SolanaAssumption DEF NoMessage, Message, NoInstruction, Instruction
<1>3. NoInstruction.accounts = <<>>
  BY DEF NoInstruction
<1>4. collected' \in Seq(Nat) /\ Len(collected') <= Len(inserting'.accounts)
  <2>1. <<>> \in Seq(Nat) /\ Len(<<>>) <= Len(<<>>)
    OBVIOUS
  <2>2. inserting'.accounts = <<>>
    BY <1>1, <1>3
  <2> QED
    BY <1>1, <2>1, <2>2
<1> QED
  BY <1>1, <1>2, <1>4 DEF Resting

\* What the invariant says of the message, the copy and what is asked for.
LEMMA Facts ==
    ASSUME SolanaInv
    PROVE  /\ Have => Right(message, asked) /\ Fit(message, slots)
           /\ at = 0 => Resting
           /\ at > 0 => Have /\ Right(work, asked) /\ Copied
           /\ ~Have => at = 0
<1>1. Have => Right(message, asked) /\ Fit(message, slots)
  BY DEF SolanaInv, SolanaTypeOK, MeansAsAsked, PrivilegesEnough, SignaturesFit, Right, Fit, Slot
<1>2. at = 0 => Resting
  BY DEF SolanaInv, SolanaTypeOK, Resting
<1>3. at \in Nat
  <2>1. Len(message.ixs) \in Nat /\ at \in 0 .. Len(message.ixs) + 1
    BY MessageParts DEF SolanaInv, SolanaTypeOK
  <2> QED
    BY <2>1
<1>4. at > 0 => Have /\ Right(work, asked) /\ Copied
  BY DEF SolanaInv, SolanaTypeOK, Copied, Right
<1> QED
  BY <1>1, <1>2, <1>3, <1>4 DEF SolanaInv

\* Places rise.
LEMMA RisingOrders ==
    ASSUME NEW S \in SUBSET Nat PROVE Orders(Rising(S), S)
<1>1. \A x, y \in S : <<x, y>> \in Rising(S) <=> x < y
  BY DEF Rising
<1> QED
  BY <1>1 DEF Orders

\* w lasts where m does, at places that f gives in the same order.
LastsAt(m, w, f) ==
    /\ f \in [Lasting(m) -> Nat]
    /\ Lasting(w) = {f[i] : i \in Lasting(m)}
    /\ \A i, j \in Lasting(m) : i < j => f[i] < f[j]
    /\ \A i \in Lasting(m) : Meaning(w, w.ixs[f[i]]) = Meaning(m, m.ixs[i])

\* Two messages whose lasting instructions mean the same in the same order have
\* the same core.
LEMMA CoreKept ==
    ASSUME NEW m \in Message, NEW w, NEW f, LastsAt(m, w, f)
    PROVE  Core(w) = Core(m)
<1> DEFINE S == Lasting(m)
           T == Lasting(w)
<1>1. S \in SUBSET Nat /\ IsFiniteSet(S)
  <2>1. DOMAIN m.ixs = 1 .. Len(m.ixs) /\ Len(m.ixs) \in Nat
    BY MessageParts
  <2>2. S \in SUBSET (1 .. Len(m.ixs)) /\ IsFiniteSet(1 .. Len(m.ixs))
    BY <2>1, FS_Interval DEF Lasting
  <2>3. IsFiniteSet(S)
    BY <2>2, FS_Subset
  <2> QED
    BY <2>1, <2>2, <2>3
<1>2. /\ f \in [S -> Nat] /\ T = {f[i] : i \in S}
      /\ \A i, j \in S : i < j => f[i] < f[j]
      /\ \A i \in S : Meaning(w, w.ixs[f[i]]) = Meaning(m, m.ixs[i])
  BY DEF LastsAt
<1> HIDE DEF S, T
<1>3. T \in SUBSET Nat
  BY <1>2
<1>4. Orders(Rising(S), S) /\ Orders(Rising(T), T)
  BY <1>1, <1>3, RisingOrders
<1>5. \A i, j \in S : f[i] = f[j] => i = j
  <2> SUFFICES ASSUME NEW i \in S, NEW j \in S, i # j PROVE f[i] # f[j]
    OBVIOUS
  <2>1. i < j \/ j < i
    BY <1>1
  <2>2. f[i] < f[j] \/ f[j] < f[i]
    BY <1>2, <2>1
  <2>3. f[i] \in Nat /\ f[j] \in Nat
    BY <1>2
  <2> QED
    BY <2>2, <2>3
<1>6. f \in Bijection(S, T)
  <2>1. f \in [S -> T] /\ \A t \in T : \E x \in S : f[x] = t
    BY <1>2
  <2> QED
    BY <1>5, <2>1, Fun_IsBij
<1>7. \A x, y \in S : <<x, y>> \in Rising(S) => <<f[x], f[y]>> \in Rising(T)
  <2>1. \A x \in S : f[x] \in T
    BY <1>2
  <2> QED
    BY <1>2, <2>1 DEF Rising
<1> DEFINE N == Cardinality(S)
           L == Listed(S, Rising(S))
           M == Listed(T, Rising(T))
<1>a. /\ Cardinality(T) = Cardinality(S)
      /\ \A n \in 1 .. Cardinality(S) : Listed(T, Rising(T))[n] = f[Listed(S, Rising(S))[n]]
  <2> DEFINE R == Rising(S)
             Q == Rising(T)
  <2>1. Carries(f, S, R, T, Q)
    BY <1>1, <1>4, <1>6, <1>7 DEF Carries
  <2> HIDE DEF R, Q
  <2>2. /\ Cardinality(T) = Cardinality(S)
        /\ \A n \in 1 .. Cardinality(S) : Listed(T, Q)[n] = f[Listed(S, R)[n]]
    BY <2>1, ListedMoved
  <2> QED
    BY <2>2 DEF R, Q
<1>8. Cardinality(T) = N /\ \A n \in 1 .. N : M[n] = f[L[n]]
  BY <1>a
<1>9. \A n \in 1 .. N : L[n] \in S
  BY <1>1, <1>4, ListedOnce, Fun_BijectionProperties
<1> HIDE DEF N, L, M
<1>10. \A n \in 1 .. N : Meaning(w, w.ixs[M[n]]) = Meaning(m, m.ixs[L[n]])
  BY <1>2, <1>8, <1>9
<1>11. /\ Core(w) = [n \in 1 .. Cardinality(T) |-> Meaning(w, w.ixs[M[n]])]
       /\ Core(m) = [n \in 1 .. N |-> Meaning(m, m.ixs[L[n]])]
  BY DEF Core, S, T, N, L, M
<1> QED
  BY <1>8, <1>10, <1>11

\* Signatures of a message fit another one with its signers, its hash and its core.
LEMMA FitKept ==
    ASSUME NEW m \in Message, Sound(m), NEW list, Fit(m, list), NEW w,
           w.signers = m.signers, w.hash = m.hash, Core(w) = Core(m),
           \A i \in 1 .. Len(m.keys) : w.keys[i] = m.keys[i]
    PROVE  Fit(w, list)
<1>1. /\ m.signers \in Nat /\ m.roOthers \in Nat /\ Len(m.keys) \in Nat
      /\ m.signers + m.roOthers <= Len(m.keys)
  BY MessageParts DEF Sound
<1>2. DOMAIN list = 1 .. m.signers
  BY DEF Fit
<1>3. DOMAIN list \subseteq 1 .. Len(m.keys)
  BY <1>1, <1>2
<1> QED
  BY <1>3 DEF Fit

\* Every signature is put in the slot of its key.
LEMMA SignedFits ==
    ASSUME NEW m \in Message, Sound(m), NEW held PROVE Fit(m, Signed(m, held)) /\ Fit(m, Zeros(m))
<1>1. /\ m.signers \in Nat /\ m.roOthers \in Nat /\ Len(m.keys) \in Nat
      /\ m.keys \in Seq(Addresses) /\ m.signers + m.roOthers <= Len(m.keys)
  BY MessageParts DEF Sound
<1>2. \A i \in 1 .. m.signers : m.keys[i] \in Addresses
  BY <1>1
<1>3. Zero \in Slot
  <2>1. NoMessage \in Message
    BY DEF NoMessage, Message
  <2> QED
    BY <2>1 DEF Zero, Slot
<1>4. \A i \in 1 .. m.signers :
        /\ [by |-> m.keys[i], over |-> m] \in Slot
        /\ Signed(m, held)[i] \in Slot /\ Zeros(m)[i] = Zero
        /\ Signed(m, held)[i] # Zero =>
            Signed(m, held)[i].by = m.keys[i] /\ Signed(m, held)[i].over = m
  BY <1>2, <1>3 DEF Signed, Zeros, Slot
<1>5. /\ Signed(m, held) \in [1 .. m.signers -> Slot]
      /\ Zeros(m) \in [1 .. m.signers -> Slot]
  BY <1>3, <1>4 DEF Signed, Zeros
<1> DEFINE s == Signed(m, held)
           z == Zeros(m)
<1> HIDE DEF s, z
<1>6. /\ s \in Seq(Slot) /\ Len(s) = m.signers /\ DOMAIN s = 1 .. m.signers
      /\ z \in Seq(Slot) /\ Len(z) = m.signers /\ DOMAIN z = 1 .. m.signers
  BY <1>1, <1>5 DEF s, z
<1> QED
  BY <1>4, <1>6 DEF Fit, s, z

-----------------------------------------------------------------------------
\* Before there is a transaction.
LEMMA SolanaInitInv == SolanaInit => SolanaInv
<1> SUFFICES ASSUME SolanaInit PROVE SolanaInv
  OBVIOUS
<1> USE DEF SolanaInit
<1>1. NoMessage \in Message /\ NoInstruction \in Instruction
  BY SolanaAssumption DEF NoMessage, Message, NoInstruction, Instruction
<1>2. ~Have /\ Len(message.ixs) = 0 /\ DOMAIN message.ixs = {}
  BY DEF Have, NoMessage
<1>3. /\ slots \in Seq([by : Addresses \union {"nobody"}, over : Message])
      /\ asked \in Seq(Asked) /\ Len(asked) = 0 /\ Len(slots) = 0
      /\ collected \in Seq(Nat) /\ Len(collected) = 0
  OBVIOUS
<1>4. inserting.accounts = <<>> /\ Len(inserting.accounts) = 0
  BY DEF NoInstruction
<1>5. SolanaTypeOK
  <2>1. at \in 0 .. Len(message.ixs) + 1 /\ ~(at > 0)
    BY <1>2
  <2>2. Len(collected) <= Len(inserting.accounts) /\ Len(asked) = Len(message.ixs)
    BY <1>2, <1>3, <1>4
  <2> QED
    BY <1>1, <1>2, <1>3, <2>1, <2>2 DEF SolanaTypeOK
<1>6. MeansAsAsked /\ PrivilegesEnough /\ SignaturesFit
  BY <1>2, <1>3 DEF MeansAsAsked, MeansAsked, PrivilegesEnough, AllGranted, SignaturesFit, NoMessage
<1> QED
  BY <1>5, <1>6 DEF SolanaInv

\* A transaction is taken from where it was built, and signed.
LEMMA ObtainStep == SolanaInv /\ Obtain => SolanaInv' /\ ~Have
<1> SUFFICES ASSUME SolanaInv, Obtain PROVE SolanaInv' /\ ~Have
  OBVIOUS
<1>1. PICK b \in Built :
        /\ message' = b.message
        /\ asked' = b.asked
        /\ slots' = Signed(b.message, b.held)
  BY DEF Obtain
<1>2. ~Have /\ UNCHANGED insertVars
  BY DEF Obtain
<1>3. Right(b.message, b.asked)
  BY BuiltAssumption DEF Startable, Right
<1>4. Right(message, asked)'
  BY <1>1, <1>3 DEF Right
<1>5. Fit(b.message, Signed(b.message, b.held))
  BY <1>3, SignedFits DEF Right
<1>6. Fit(message, slots)'
  BY <1>1, <1>5
<1>7. Resting'
  BY <1>2, Facts DEF Resting, insertVars
<1> QED
  BY <1>2, <1>4, <1>6, <1>7, Together

\* A message with another blockhash is the same otherwise.
LEMMA ResignStep ==
    ASSUME SolanaInv, NEW hash \in Blockhashes, NEW held, Resign(hash, held)
    PROVE  SolanaInv' /\ SamePrivileges(message, message')
<1> DEFINE m == [message EXCEPT !.hash = hash]
<1>1. /\ Have /\ at = 0 /\ message' = m /\ slots' = Signed(m, held) /\ asked' = asked
      /\ UNCHANGED insertVars
  BY DEF Resign, Idle
<1>2. Right(message, asked)
  BY <1>1, Facts
<1>3. hash \in Nat
  BY SolanaAssumption
<1>4. m \in Message /\ m.keys = message.keys /\ m.loaded = message.loaded /\ m.ixs = message.ixs
      /\ m.signers = message.signers /\ m.roSigners = message.roSigners
      /\ m.roOthers = message.roOthers
  BY <1>2, <1>3 DEF Right, Message
<1> HIDE DEF m
<1>5. \A x : Meaning(m, x) = Meaning(message, x)
  BY <1>4 DEF Meaning, AddressAt
<1>6. \A j : (IsSigner(m, j) <=> IsSigner(message, j)) /\ (IsWritable(m, j) <=> IsWritable(message, j))
  BY <1>4 DEF IsSigner, IsWritable
<1>7. SamePrivileges(message, m)
  BY <1>4, <1>6 DEF SamePrivileges
<1>8. \A a : Granted(message, a) => Granted(m, a)
  BY <1>4, <1>7, GrantedKept
<1>9. Sound(m)
  BY <1>2, <1>4 DEF Right, Sound
<1>10. Right(m, asked)
  BY <1>2, <1>4, <1>5, <1>8, <1>9 DEF Right, MeansAsked, AllGranted
<1>11. Fit(m, Signed(m, held))
  BY <1>4, <1>9, SignedFits
<1>12. Right(message, asked)' /\ Fit(message, slots)'
  BY <1>1, <1>10, <1>11
<1>13. Resting'
  BY <1>1, Facts DEF Resting, insertVars
<1> QED
  BY <1>1, <1>7, <1>12, <1>13, Together

\* A signature goes into the slot of its key.
LEMMA CosignStep ==
    ASSUME SolanaInv, NEW k \in SignerKeys(message), NEW signature,
           signature = [by |-> k, over |-> message] \/ signature = Zero, Cosign(k, signature)
    PROVE  SolanaInv' /\ SamePrivileges(message, message')
<1> DEFINE i == Position(message.keys, k)
<1>1. /\ Have /\ at = 0 /\ message' = message /\ asked' = asked
      /\ slots' = [slots EXCEPT ![i] = signature] /\ UNCHANGED insertVars
  BY DEF Cosign, Idle
<1>2. Right(message, asked) /\ Fit(message, slots)
  BY <1>1, Facts
<1>3. /\ message \in Message /\ Sound(message)
      /\ message.signers \in Nat /\ Len(message.keys) \in Nat
      /\ DOMAIN message.keys = 1 .. Len(message.keys)
      /\ message.keys \in Seq(Addresses)
  BY <1>2, MessageParts DEF Right
<1>4. PICK j \in 1 .. message.signers : message.keys[j] = k
  BY DEF SignerKeys
<1>5. i = j /\ k \in Addresses
  <2>1. j \in DOMAIN message.keys
    <3>1. message.roOthers \in Nat /\ message.signers + message.roOthers <= Len(message.keys)
      BY <1>3, MessageParts DEF Sound
    <3> QED
      BY <1>3, <3>1
  <2>2. Known(message, k)
    BY <1>4, <2>1 DEF Known
  <2>3. i \in DOMAIN message.keys /\ message.keys[i] = k
    BY <1>3, <2>2, PositionFinds
  <2> QED
    BY <1>3, <1>4, <2>1, <2>3 DEF Sound
<1> HIDE DEF i
<1>6. signature \in Slot /\ (signature # Zero => signature.by = k /\ signature.over = message)
  <2>1. Zero \in Slot
    <3>1. NoMessage \in Message
      BY DEF NoMessage, Message
    <3> QED
      BY <3>1 DEF Zero, Slot
  <2> QED
    BY <1>3, <1>5, <2>1 DEF Slot
<1>7. Fit(message, slots')
  <2>1. slots \in Seq(Slot) /\ Len(slots) = message.signers /\ DOMAIN slots = 1 .. message.signers
    BY <1>2, <1>3 DEF Fit
  <2>2. slots' \in Seq(Slot) /\ Len(slots') = message.signers /\ DOMAIN slots' = 1 .. message.signers
    <3> DEFINE N == message.signers
    <3>1. N \in Nat /\ slots \in [1 .. N -> Slot]
      BY <1>3, <2>1
    <3>2. slots' \in [1 .. N -> Slot]
      BY <1>1, <1>6, <3>1
    <3> HIDE DEF N
    <3>3. slots' \in Seq(Slot) /\ Len(slots') = N /\ DOMAIN slots' = 1 .. N
      BY <3>1, <3>2
    <3> QED
      BY <3>3 DEF N
  <2>3. \A n \in 1 .. message.signers : slots'[n] = IF n = i THEN signature ELSE slots[n]
    BY <1>1, <2>1
  <2> QED
    BY <1>2, <1>4, <1>5, <1>6, <2>1, <2>2, <2>3 DEF Fit
<1>8. Right(message, asked)' /\ Fit(message, slots)'
  BY <1>1, <1>2, <1>7
<1>9. Resting'
  BY <1>1, Facts DEF Resting, insertVars
<1> QED
  BY <1>1, <1>3, <1>8, <1>9, Together, KeepsItself DEF Keeps

\* A new payer pays; all signatures are to be made again.
LEMMA PayerStep ==
    ASSUME SolanaInv, NEW k \in NewPayers, SetFeePayer(k)
    PROVE  SolanaInv' /\ SamePrivileges(message, message')
<1> DEFINE w == WithPayer(message, k)
<1>1. /\ Have /\ at = 0 /\ ~Known(message, k) /\ message' = w /\ asked' = asked
      /\ slots' = Zeros(w) /\ UNCHANGED insertVars
  BY DEF SetFeePayer, Idle
<1>2. Right(message, asked) /\ k \in Addresses
  BY <1>1, Facts, SolanaAssumption
<1>3. w \in Message /\ Sound(w) /\ Keeps(message, w)
  BY <1>1, <1>2, PayerAdded DEF Right
<1> HIDE DEF w
<1>4. Right(w, asked)
  <2>1. Len(asked) = Len(w.ixs) /\ MeansAsked(w, asked) /\ AllGranted(w, asked)
    BY <1>2, <1>3, AskedKept DEF Right
  <2> QED
    BY <1>2, <1>3, <2>1 DEF Right
<1>5. Fit(w, Zeros(w))
  BY <1>3, SignedFits
<1>6. Right(message, asked)' /\ Fit(message, slots)'
  BY <1>1, <1>4, <1>5
<1>7. Resting'
  BY <1>1, Facts DEF Resting, insertVars
<1> QED
  BY <1>1, <1>3, <1>6, <1>7, Together DEF Keeps

\* Where the first instruction of a kind is, if there is one.
LEMMA FirstFound ==
    ASSUME NEW S \in SUBSET Nat, S # {}
    PROVE  Min(S) \in S
<1> DEFINE R == OpToRel(<, Nat)
<1>1. IsWellFoundedOn(R, Nat)
  BY NatLessThanWellFounded
<1>2. \A x, y \in S : y < x => <<y, x>> \in R
  BY DEF OpToRel
<1> HIDE DEF R
<1>3. PICK x \in S : \A y \in S : <<y, x>> \notin R
  BY <1>1, WFMin
<1>4. \A y \in S : x <= y
  <2>1. \A y \in S : ~(y < x)
    BY <1>2, <1>3
  <2> QED
    BY <2>1
<1> QED
  BY <1>4 DEF Min

\* A compute budget instruction that is inserted is not of the core.
LEMMA CoreBehindBudget ==
    ASSUME NEW m \in Message, NEW w, NEW p \in 1 .. Len(m.ixs) + 1, NEW data,
           InstructionInserted(m, w, p, Budget, <<>>, data)
    PROVE  Core(w) = Core(m)
<1> DEFINE N == Len(m.ixs)
           f == [i \in Lasting(m) |-> Moved(i, p)]
<1>1. /\ N \in Nat /\ p \in 1 .. N + 1 /\ DOMAIN m.ixs = 1 .. N
      /\ w \in Message /\ Len(w.ixs) = N + 1
      /\ \A j \in 1 .. N + 1 :
            Meaning(w, w.ixs[j]) =
                IF j < p THEN Meaning(m, m.ixs[j])
                ELSE IF j = p THEN Made(m, Budget, <<>>, data) ELSE Meaning(m, m.ixs[j - 1])
  BY MessageParts DEF InstructionInserted
<1>2. DOMAIN w.ixs = 1 .. N + 1
  BY <1>1, MessageParts
<1> HIDE DEF N
<1>3. /\ Lasting(m) = {i \in 1 .. N : Meaning(m, m.ixs[i]).program # Budget}
      /\ Lasting(w) = {j \in 1 .. N + 1 : Meaning(w, w.ixs[j]).program # Budget}
  BY <1>1, <1>2 DEF Lasting, Meaning
<1>4. \A i \in 1 .. N : /\ Moved(i, p) \in 1 .. N + 1 /\ Moved(i, p) # p
                        /\ Meaning(w, w.ixs[Moved(i, p)]) = Meaning(m, m.ixs[i])
  <2> SUFFICES ASSUME NEW i \in 1 .. N
               PROVE  /\ Moved(i, p) \in 1 .. N + 1 /\ Moved(i, p) # p
                      /\ Meaning(w, w.ixs[Moved(i, p)]) = Meaning(m, m.ixs[i])
    OBVIOUS
  <2>1. CASE i >= p
    <3>1. /\ Moved(i, p) = i + 1 /\ i + 1 \in 1 .. N + 1 /\ ~(i + 1 < p) /\ i + 1 # p
          /\ (i + 1) - 1 = i
      BY <1>1, <2>1 DEF Moved
    <3>2. Meaning(w, w.ixs[i + 1]) = Meaning(m, m.ixs[(i + 1) - 1])
      BY <1>1, <3>1
    <3> QED
      BY <3>1, <3>2
  <2>2. CASE i < p
    <3>1. Moved(i, p) = i /\ i \in 1 .. N + 1 /\ i # p
      BY <1>1, <2>2 DEF Moved
    <3> QED
      BY <1>1, <2>2, <3>1
  <2> QED
    BY <1>1, <2>1, <2>2
<1>5. \A j \in 1 .. N + 1 : j # p => \E i \in 1 .. N : j = Moved(i, p)
  <2> SUFFICES ASSUME NEW j \in 1 .. N + 1, j # p PROVE \E i \in 1 .. N : j = Moved(i, p)
    OBVIOUS
  <2>1. CASE j < p
    <3>1. j \in 1 .. N /\ ~(j >= p)
      BY <1>1, <2>1
    <3> QED
      BY <3>1 DEF Moved
  <2>2. CASE j > p
    <3>1. j - 1 \in 1 .. N /\ j - 1 >= p /\ (j - 1) + 1 = j
      BY <1>1, <2>2
    <3> QED
      BY <3>1 DEF Moved
  <2> QED
    BY <1>1, <2>1, <2>2
<1>6. Meaning(w, w.ixs[p]).program = Budget
  <2>1. ~(p < p)
    BY <1>1
  <2>2. Meaning(w, w.ixs[p]) = Made(m, Budget, <<>>, data)
    BY <1>1, <2>1
  <2> QED
    BY <2>2 DEF Made
<1>7. f \in [Lasting(m) -> Nat]
  BY <1>1, <1>3, <1>4
<1>8. \A i \in Lasting(m) : f[i] = Moved(i, p)
  OBVIOUS
<1> HIDE DEF f
<1>9. Lasting(w) = {f[i] : i \in Lasting(m)}
  <2>1. ASSUME NEW j \in Lasting(w) PROVE \E i \in Lasting(m) : j = f[i]
    <3>1. j \in 1 .. N + 1 /\ j # p /\ Meaning(w, w.ixs[j]).program # Budget
      BY <1>3, <1>6
    <3>2. PICK i \in 1 .. N : j = Moved(i, p)
      BY <1>5, <3>1
    <3>3. i \in Lasting(m)
      BY <1>3, <1>4, <3>1, <3>2
    <3> QED
      BY <1>8, <3>2, <3>3
  <2>2. ASSUME NEW i \in Lasting(m) PROVE f[i] \in Lasting(w)
    BY <1>3, <1>4, <1>8
  <2> QED
    BY <2>1, <2>2
<1>10. \A i, j \in Lasting(m) : i < j => f[i] < f[j]
  <2>1. \A i, j \in 1 .. N : i < j => Moved(i, p) < Moved(j, p)
    BY <1>1 DEF Moved
  <2> QED
    BY <1>3, <1>8, <2>1
<1>11. \A i \in Lasting(m) : Meaning(w, w.ixs[f[i]]) = Meaning(m, m.ixs[i])
  BY <1>3, <1>4, <1>8
<1>12. LastsAt(m, w, f)
  BY <1>7, <1>9, <1>10, <1>11 DEF LastsAt
<1> QED
  BY <1>12, CoreKept

\* New units in the budget instruction at q.
LEMMA BudgetChanged ==
    ASSUME SolanaInv, Have, at = 0, UNCHANGED <<slots, insertVars>>,
           NEW q \in DOMAIN message.ixs, q \notin Lasting(message), NEW data \in Data,
           message' = [message EXCEPT !.ixs[q].data = data],
           asked' = [asked EXCEPT ![q].data = data]
    PROVE  SolanaInv' /\ SamePrivileges(message, message')
<1> DEFINE m == message'
           x == message.ixs[q]
           y == [x EXCEPT !.data = data]
           e == asked[q]
           f == [e EXCEPT !.data = data]
<1>1. Right(message, asked) /\ Fit(message, slots) /\ Resting
  BY Facts
<1>2. /\ message \in Message /\ Sound(message)
      /\ DOMAIN message.ixs = 1 .. Len(message.ixs) /\ Len(message.ixs) \in Nat
      /\ message.ixs \in Seq(CompiledInstruction)
      /\ asked \in Seq(Asked) /\ Len(asked) = Len(message.ixs)
      /\ DOMAIN asked = 1 .. Len(message.ixs)
  BY <1>1, MessageParts DEF Right
<1>3. /\ x \in CompiledInstruction /\ y \in CompiledInstruction
      /\ y.program = x.program /\ y.accounts = x.accounts /\ y.data = data
  <2>1. x \in CompiledInstruction
    BY <1>2
  <2> HIDE DEF x
  <2> QED
    BY <2>1 DEF CompiledInstruction
<1>4. /\ e \in Asked /\ f \in Asked
      /\ f.program = e.program /\ f.accounts = e.accounts /\ f.data = data
      /\ f.overtaken = e.overtaken
  <2>1. e \in Asked
    BY <1>2
  <2> HIDE DEF e
  <2> QED
    BY <2>1 DEF Asked
<1>5. /\ m.keys = message.keys /\ m.loaded = message.loaded /\ m.hash = message.hash
      /\ m.signers = message.signers /\ m.roSigners = message.roSigners
      /\ m.roOthers = message.roOthers
      /\ m.ixs = [message.ixs EXCEPT ![q] = y]
  BY <1>2 DEF Message
<1>6. asked' = [asked EXCEPT ![q] = f]
  OBVIOUS
<1> DEFINE N == Len(message.ixs)
<1> HIDE DEF y, f, e, x
<1>7. /\ m.ixs \in [1 .. N -> CompiledInstruction]
      /\ asked' \in [1 .. N -> Asked]
      /\ \A i \in 1 .. N : m.ixs[i] = IF i = q THEN y ELSE message.ixs[i]
      /\ \A i \in 1 .. N : asked'[i] = IF i = q THEN f ELSE asked[i]
      /\ N \in Nat
  BY <1>2, <1>3, <1>4, <1>5, <1>6
<1> HIDE DEF N
<1>8. /\ m.ixs \in Seq(CompiledInstruction) /\ Len(m.ixs) = N /\ DOMAIN m.ixs = 1 .. N
      /\ asked' \in Seq(Asked) /\ Len(asked') = N /\ DOMAIN asked' = 1 .. N
  <2>1. \A S : \A s \in [1 .. N -> S] : s \in Seq(S) /\ Len(s) = N /\ DOMAIN s = 1 .. N
    BY <1>7
  <2> QED
    BY <1>7, <2>1
<1>9. m \in Message
  <2>1. [message.ixs EXCEPT ![q] = y] \in Seq(CompiledInstruction)
    BY <1>5, <1>8
  <2>2. m = [message EXCEPT !.ixs = [message.ixs EXCEPT ![q] = y]]
    BY DEF y, x
  <2> QED
    BY <1>2, <2>1, <2>2 DEF Message
<1>10. \A i : (IsSigner(m, i) <=> IsSigner(message, i)) /\ (IsWritable(m, i) <=> IsWritable(message, i))
  BY <1>5 DEF IsSigner, IsWritable
<1>11. SamePrivileges(message, m)
  BY <1>5, <1>10 DEF SamePrivileges
<1>12. Sound(m)
  <2>1. ASSUME NEW i \in DOMAIN m.ixs
        PROVE  /\ m.ixs[i].program = message.ixs[i].program
               /\ m.ixs[i].accounts = message.ixs[i].accounts
    BY <1>3, <1>7, <1>8 DEF x
  <2>2. DOMAIN m.ixs = DOMAIN message.ixs
    BY <1>2, <1>8 DEF N
  <2> QED
    BY <1>2, <1>5, <2>1, <2>2 DEF Sound
<1>13. \A v : Meaning(m, v) = Meaning(message, v)
  BY <1>5 DEF Meaning, AddressAt
<1>14. MeansAsked(m, asked')
  <2> SUFFICES ASSUME NEW i \in 1 .. N
               PROVE  /\ Meaning(m, m.ixs[i]).program = asked'[i].program
                      /\ Meaning(m, m.ixs[i]).data = asked'[i].data
                      /\ ~asked'[i].overtaken => Meaning(m, m.ixs[i]) = Plain(asked'[i])
    BY <1>8 DEF MeansAsked
  <2>1. /\ Meaning(message, message.ixs[i]).program = asked[i].program
        /\ Meaning(message, message.ixs[i]).data = asked[i].data
        /\ ~asked[i].overtaken => Meaning(message, message.ixs[i]) = Plain(asked[i])
    BY <1>1, <1>2 DEF Right, MeansAsked, N
  <2>2. CASE i # q
    BY <1>7, <1>13, <2>1, <2>2
  <2>3. CASE i = q
    <3>1. m.ixs[i] = y /\ asked'[i] = f /\ message.ixs[i] = x /\ asked[i] = e
      BY <1>7, <2>3 DEF x, e
    <3>2. /\ Meaning(message, y).program = Meaning(message, x).program
          /\ Meaning(message, y).accounts = Meaning(message, x).accounts
          /\ Meaning(message, y).data = data
      BY <1>3 DEF Meaning
    <3>3. ASSUME ~e.overtaken PROVE Meaning(message, y) = Plain(f)
      <4>1. Meaning(message, x) = Plain(e)
        BY <2>1, <3>1, <3>3
      <4>2. /\ Plain(f) = [program |-> f.program, accounts |-> Plain(f).accounts, data |-> f.data]
            /\ Plain(f).accounts = Plain(e).accounts /\ Plain(e).program = e.program
        BY <1>4 DEF Plain
      <4>3. Meaning(message, y) = [program |-> Meaning(message, y).program,
                                   accounts |-> Meaning(message, y).accounts,
                                   data |-> Meaning(message, y).data]
        BY DEF Meaning
      <4> QED
        BY <1>4, <3>2, <4>1, <4>2, <4>3
    <3> QED
      BY <1>4, <1>13, <2>1, <3>1, <3>2, <3>3
  <2> QED
    BY <2>2, <2>3
<1>15. AllGranted(m, asked')
  <2>1. \A a : Granted(message, a) => Granted(m, a)
    BY <1>5, <1>11, GrantedKept
  <2>2. \A i \in 1 .. N : asked'[i].accounts = asked[i].accounts
    BY <1>4, <1>7 DEF e
  <2>3. DOMAIN asked = 1 .. N
    BY <1>2 DEF N
  <2> QED
    BY <1>1, <1>8, <2>1, <2>2, <2>3 DEF Right, AllGranted
<1>16. Right(message, asked)'
  BY <1>8, <1>9, <1>12, <1>14, <1>15 DEF Right
<1>17. Core(m) = Core(message)
  <2> DEFINE g == [i \in Lasting(message) |-> i]
  <2>1. \A i \in 1 .. N : m.ixs[i].program = message.ixs[i].program
    BY <1>3, <1>7 DEF x
  <2>2. \A i \in Nat : AddressAt(m, i) = AddressAt(message, i)
    BY <1>5 DEF AddressAt
  <2>3. \A i \in 1 .. N : message.ixs[i].program \in Nat
    BY <1>2, MessageParts DEF N
  <2>4. Lasting(m) = Lasting(message) /\ Lasting(message) \subseteq 1 .. N
    BY <1>2, <1>8, <2>1, <2>2, <2>3 DEF Lasting, N
  <2>6. \A i \in Lasting(message) : Meaning(m, m.ixs[i]) = Meaning(message, message.ixs[i])
    BY <1>7, <1>13, <2>4
  <2>7. g \in [Lasting(message) -> Nat] /\ \A i \in Lasting(message) : g[i] = i
    BY <1>7, <2>4
  <2> HIDE DEF g
  <2>8. Lasting(m) = {g[i] : i \in Lasting(message)}
    BY <2>4, <2>7
  <2>9. LastsAt(message, m, g)
    BY <2>6, <2>7, <2>8 DEF LastsAt
  <2> QED
    BY <1>2, <2>9, CoreKept
<1>18. Fit(message, slots)'
  <2>1. Fit(m, slots)
    BY <1>1, <1>2, <1>5, <1>17, FitKept
  <2> QED
    BY <2>1
<1>19. Resting'
  BY <1>1 DEF Resting, insertVars
<1> QED
  BY <1>11, <1>16, <1>18, <1>19, Together

\* A budget instruction is changed, or one is inserted behind its program.
LEMMA BudgetStep ==
    ASSUME SolanaInv, NEW kind \in {"price", "limit"}, NEW units \in BudgetValues,
           NEW where \in 1 .. Len(message.ixs) + 1, SetBudget(kind, units, where)
    PROVE  SolanaInv' /\ SamePrivileges(message, message')
<1> DEFINE found == Budgets(message, kind)
           data == <<kind, units>>
           e == [program |-> Budget, accounts |-> <<>>, data |-> data, overtaken |-> FALSE]
           w == WithInstruction(message, where, Budget, <<>>, data)
<1>1. Have /\ at = 0 /\ UNCHANGED <<slots, insertVars>>
  BY DEF SetBudget, Idle
<1>2. Right(message, asked) /\ Fit(message, slots) /\ Resting
  BY <1>1, Facts
<1>3. data \in Data /\ Budget \in Addresses
  BY SolanaAssumption
<1>4. CASE found # {}
  <2>1. /\ Min(found) \in DOMAIN message.ixs
        /\ Min(found) \notin Lasting(message)
    <3>1. found \in SUBSET Nat /\ found \subseteq DOMAIN message.ixs
      BY <1>2, MessageParts DEF Budgets, Right
    <3>2. Min(found) \in found
      BY <1>4, <3>1, FirstFound
    <3>5. Sound(message) /\ Len(message.keys) \in Nat
      BY <1>2, MessageParts DEF Right
    <3>6. \A i \in DOMAIN message.ixs : message.ixs[i].program \in 1 .. Len(message.keys)
      BY <3>5 DEF Sound
    <3>3. \A i \in DOMAIN message.ixs : message.ixs[i].program <= Len(message.keys)
      BY <3>5, <3>6
    <3>4. \A i \in found : i \notin Lasting(message)
      BY <3>1, <3>3 DEF Budgets, Lasting, AddressAt
    <3> QED
      BY <3>1, <3>2, <3>4
  <2>2. /\ message' = [message EXCEPT !.ixs[Min(found)].data = data]
        /\ asked' = [asked EXCEPT ![Min(found)].data = data]
    BY <1>4 DEF SetBudget
  <2> HIDE DEF found, data
  <2> QED
    BY <1>1, <1>3, <2>1, <2>2, BudgetChanged
<1>5. CASE found = {}
  <2>1. message' = w /\ asked' = InsertAt(asked, where, e)
    BY <1>5 DEF SetBudget
  <2>2. e \in Asked /\ e.program = Budget /\ e.data = data /\ e.accounts = <<>>
    <3>1. <<>> \in Seq(AccountMeta)
      OBVIOUS
    <3> QED
      BY <1>3, <3>1 DEF Asked
  <2>3. <<>> \in Seq(Nat) /\ DOMAIN <<>> = {} /\ Len(<<>>) = 0
    OBVIOUS
  <2> HIDE DEF data, e
  <2>4. InstructionInserted(message, w, where, Budget, <<>>, data)
    BY <1>2, <1>3, <2>3, InstructionAdded DEF Right
  <2> HIDE DEF w
  <2>5. /\ InsertAt(asked, where, e) \in Seq(Asked)
        /\ Len(InsertAt(asked, where, e)) = Len(w.ixs)
        /\ MeansAsked(w, InsertAt(asked, where, e))
        /\ AllGranted(w, InsertAt(asked, where, e))
    BY <1>2, <2>2, <2>3, <2>4, AskedInserted DEF Right
  <2>6. Right(message, asked)'
    BY <2>1, <2>4, <2>5 DEF Right, InstructionInserted
  <2>7. Fit(message, slots)'
    <3>1. Core(w) = Core(message)
      BY <1>2, <2>4, CoreBehindBudget DEF Right
    <3>2. Fit(w, slots)
      BY <1>2, <2>4, <3>1, FitKept DEF Right, InstructionInserted
    <3> QED
      BY <1>1, <2>1, <3>2
  <2>8. Resting'
    BY <1>1, <1>2 DEF Resting, insertVars
  <2>9. SamePrivileges(message, message')
    BY <2>1, <2>4 DEF InstructionInserted
  <2> QED
    BY <2>6, <2>7, <2>8, <2>9, Together
<1> QED
  BY <1>4, <1>5

-----------------------------------------------------------------------------
\* A copy is taken to insert an instruction into.
LEMMA BeginStep ==
    ASSUME SolanaInv, NEW ix \in Inserts, NEW i, BeginInsert(ix, i)
    PROVE  SolanaInv' /\ message' = message
<1>1. /\ Have /\ at = 0 /\ i \in 1 .. Len(message.ixs) + 1
      /\ at' = i /\ inserting' = ix /\ work' = message /\ collected' = <<>> /\ ~overtaken'
      /\ UNCHANGED <<message, slots, asked>>
      /\ overtaken' \in BOOLEAN
  BY DEF BeginInsert, Idle
<1>2. Right(message, asked) /\ Fit(message, slots)
  BY <1>1, Facts
<1>3. ix \in Instruction /\ Len(ix.accounts) \in Nat
  <2>1. ix \in Instruction
    BY SolanaAssumption
  <2>2. ix.accounts \in Seq(AccountMeta)
    BY <2>1 DEF Instruction
  <2> QED
    BY <2>1, <2>2
<1>4. Len(message.ixs) \in Nat /\ Len(message.keys) \in Nat /\ message \in Message
  BY <1>2, MessageParts DEF Right
<1>5. SolanaTypeOK'
  <2>1. i \in 0 .. Len(message.ixs) + 1 /\ collected' \in Seq(Nat) /\ Len(collected') = 0
    BY <1>1, <1>4
  <2>2. Len(collected') <= Len(ix.accounts)
    BY <1>3, <2>1
  <2> QED
    BY <1>1, <1>2, <1>3, <2>1, <2>2 DEF SolanaTypeOK, Right, Fit, Slot
<1>6. MeansAsAsked' /\ PrivilegesEnough' /\ SignaturesFit'
  BY <1>1, <1>2 DEF Right, Fit, MeansAsAsked, PrivilegesEnough, SignaturesFit, MeansAsked,
     AllGranted, Meaning, AddressAt, Granted, IsSigner, IsWritable
<1>7. Copied'
  <2>1. SamePrivileges(message, message)
    BY <1>4, KeepsItself DEF Keeps
  <2>2. DOMAIN collected' = {}
    BY <1>1
  <2>3. /\ SamePrivileges(message', work') /\ MeansAsked(work', asked')
        /\ AllGranted(work', asked') /\ Len(work'.ixs) = Len(asked')
        /\ Len(work'.keys) >= Len(message'.keys)
    BY <1>1, <1>2, <1>4, <2>1 DEF Right
  <2> QED
    BY <2>2, <2>3 DEF Copied
<1>8. Have'
  BY <1>1 DEF Have
<1> QED
  BY <1>1, <1>5, <1>6, <1>7, <1>8 DEF SolanaInv

\* The next account is found, or put at the end of its group.
LEMMA PushStep == SolanaInv /\ PushAccount => SolanaInv' /\ message' = message
<1> SUFFICES ASSUME SolanaInv, PushAccount PROVE SolanaInv' /\ message' = message
  OBVIOUS
<1> DEFINE a == Next1
           c == Len(collected) + 1
           p == Place(work, a)
<1>1. /\ at > 0 /\ Len(collected) < Len(inserting.accounts) /\ ~Refused(work, a)
      /\ UNCHANGED <<message, slots, asked, at, inserting>>
  BY DEF PushAccount
<1>2. Have /\ Right(work, asked) /\ Copied /\ Right(message, asked) /\ Fit(message, slots)
  BY <1>1, Facts
<1>3. /\ collected \in Seq(Nat) /\ Len(collected) \in Nat
      /\ DOMAIN collected = 1 .. Len(collected)
      /\ inserting \in Instruction /\ overtaken \in BOOLEAN
      /\ work \in Message /\ Sound(work) /\ at \in 0 .. Len(message.ixs) + 1
  BY <1>1 DEF SolanaInv, SolanaTypeOK
<1>4. /\ inserting.accounts \in Seq(AccountMeta) /\ Len(inserting.accounts) \in Nat
      /\ c \in 1 .. Len(inserting.accounts)
  <2>1. inserting.accounts \in Seq(AccountMeta)
    BY <1>3 DEF Instruction
  <2> QED
    BY <1>1, <1>3, <2>1
<1>5. a = inserting.accounts[c] /\ a \in AccountMeta
  BY <1>4 DEF Next1
<1> HIDE DEF a, p
<1>6. ASSUME NEW x \in Nat, collected' = Append(collected, x),
             Right(work, asked)', SamePrivileges(message, work'),
             Len(work'.keys) >= Len(message.keys), overtaken' \in BOOLEAN,
             \A n \in 1 .. Len(collected) :
                /\ collected[n] \in 1 .. Len(work'.keys)
                /\ ~overtaken' => work'.keys[collected[n]] = inserting.accounts[n].key
                /\ Granted(work', inserting.accounts[n]),
             x \in 1 .. Len(work'.keys),
             ~overtaken' => work'.keys[x] = a.key,
             Granted(work', a)
      PROVE  SolanaInv'
  <2>1. /\ collected' \in Seq(Nat) /\ Len(collected') = c /\ DOMAIN collected' = 1 .. c
        /\ \A n \in 1 .. Len(collected) : collected'[n] = collected[n]
        /\ collected'[c] = x
    BY <1>3, <1>6
  <2>2. SolanaTypeOK'
    <3>1. Len(collected') <= Len(inserting.accounts)
      BY <1>4, <2>1
    <3>2. Have' => Sound(message)'
      BY <1>1, <1>2 DEF Right, Sound
    <3> QED
      BY <1>1, <1>2, <1>3, <1>6, <2>1, <3>1, <3>2 DEF SolanaTypeOK, Right, Fit, Slot
  <2>3. MeansAsAsked' /\ PrivilegesEnough' /\ SignaturesFit' /\ Have'
    BY <1>1, <1>2 DEF Right, Fit, MeansAsAsked, PrivilegesEnough, SignaturesFit, MeansAsked,
       AllGranted, Meaning, AddressAt, Granted, IsSigner, IsWritable, Have
  <2>4. ASSUME NEW n \in 1 .. c
        PROVE  /\ collected'[n] \in 1 .. Len(work'.keys)
               /\ ~overtaken' => work'.keys[collected'[n]] = inserting.accounts[n].key
               /\ Granted(work', inserting.accounts[n])
    <3>1. n \in 1 .. Len(collected) \/ n = c
      BY <1>3
    <3> QED
      BY <1>5, <1>6, <2>1, <3>1
  <2>5. Copied'
    BY <1>1, <1>6, <2>1, <2>4 DEF Copied, Right
  <2> QED
    BY <2>2, <2>3, <2>5 DEF SolanaInv
<1>7. CASE Known(work, a.key)
  <2> DEFINE x == Position(work.keys, a.key)
  <2>1. collected' = Append(collected, x) /\ UNCHANGED <<work, overtaken>>
    BY <1>7 DEF PushAccount, a
  <2>2. x \in 1 .. Len(work.keys) /\ work.keys[x] = a.key
    BY <1>3, <1>7, PositionFinds
  <2>3. Granted(work, a)
    <3>1. x \in DOMAIN work.keys
      BY <1>3, <2>2, MessageParts
    <3>2. (a.signer => IsSigner(work, x)) /\ (a.writable => IsWritable(work, x))
      BY <1>1, <2>2, <3>1 DEF Refused
    <3> QED
      BY <2>2, <3>1, <3>2 DEF Granted
  <2>4. x \in Nat
    <3>1. Len(work.keys) \in Nat
      BY <1>3, MessageParts
    <3> QED
      BY <2>2, <3>1
  <2> HIDE DEF x
  <2>5. Right(work, asked)'
    BY <1>1, <1>2, <2>1
  <2>6. Granted(work', a) /\ \A n \in 1 .. Len(collected) : Granted(work', inserting.accounts[n])
    BY <1>2, <1>3, <2>1, <2>3 DEF Copied
  <2> QED
    BY <1>1, <1>2, <1>3, <1>6, <2>1, <2>2, <2>4, <2>5, <2>6 DEF Copied
<1>8. CASE ~Known(work, a.key)
  <2> DEFINE w == WithAccount(work, a)
  <2>1. /\ work' = w /\ collected' = Append(collected, p)
        /\ overtaken' = (overtaken \/ \E n \in DOMAIN collected : collected[n] >= p)
    BY <1>8 DEF PushAccount, a, p
  <2>2. /\ w \in Message /\ Sound(w) /\ Keeps(work, w)
        /\ p \in 1 .. Len(work.keys) + 1
        /\ KeyAdded(work, w, p, a.key)
        /\ Granted(w, a)
    BY <1>3, <1>5, <1>8, AccountAdded DEF p
  <2> HIDE DEF w
  <2>3. /\ work.keys \in Seq(Addresses) /\ Len(work.keys) \in Nat /\ a.key \in Addresses
        /\ Len(message.keys) \in Nat
    BY <1>2, <1>3, <1>5, MessageParts DEF AccountMeta, Right
  <2>4. IsInserted(Addresses, w.keys, work.keys, p, a.key)
    BY <2>2, <2>3, Inserted DEF KeyAdded
  <2>5. /\ Len(w.keys) = Len(work.keys) + 1
        /\ \A j \in 1 .. Len(work.keys) + 1 :
            w.keys[j] = IF j < p THEN work.keys[j] ELSE IF j = p THEN a.key ELSE work.keys[j - 1]
    BY <2>4 DEF IsInserted
  <2>6. p \in Nat /\ p \in 1 .. Len(w.keys) /\ w.keys[p] = a.key
    BY <2>2, <2>3, <2>5
  <2>7. Right(w, asked)
    <3>1. Len(asked) = Len(w.ixs) /\ MeansAsked(w, asked) /\ AllGranted(w, asked)
      BY <1>2, <2>2, AskedKept DEF Right
    <3> QED
      BY <1>2, <2>2, <3>1 DEF Right
  <2>8. SamePrivileges(message, w) /\ Len(w.keys) >= Len(message.keys)
    <3>1. work.keys # <<>>
      BY <1>3, SoundIsMessage
    <3>2. SamePrivileges(message, work) /\ SamePrivileges(work, w)
      BY <1>2, <2>2 DEF Copied, Keeps
    <3>3. Len(work.keys) >= Len(message.keys)
      BY <1>2 DEF Copied
    <3> QED
      BY <1>3, <2>2, <2>3, <2>5, <3>1, <3>2, <3>3, KeepsOn
  <2>9. ASSUME NEW n \in 1 .. Len(collected)
        PROVE  /\ collected[n] \in 1 .. Len(w.keys)
               /\ ~overtaken' => w.keys[collected[n]] = inserting.accounts[n].key
               /\ Granted(w, inserting.accounts[n])
    <3>1. /\ collected[n] \in 1 .. Len(work.keys)
          /\ ~overtaken => work.keys[collected[n]] = inserting.accounts[n].key
          /\ Granted(work, inserting.accounts[n])
      BY <1>2, <1>3 DEF Copied
    <3>2. Granted(w, inserting.accounts[n])
      BY <2>2, <3>1, GrantedKept DEF Keeps
    <3>3. collected[n] \in 1 .. Len(w.keys)
      BY <2>3, <2>5, <3>1
    <3>4. ASSUME ~overtaken' PROVE w.keys[collected[n]] = inserting.accounts[n].key
      <4>1. ~overtaken /\ ~(collected[n] >= p)
        BY <1>3, <2>1, <3>4
      <4>2. collected[n] < p
        BY <2>3, <2>6, <3>1, <4>1
      <4> QED
        BY <2>3, <2>5, <3>1, <4>1, <4>2
    <3> QED
      BY <3>2, <3>3, <3>4
  <2>10. overtaken' \in BOOLEAN
    BY <1>3, <2>1
  <2>11. Right(work, asked)'
    BY <1>1, <2>1, <2>7
  <2>12. \A n \in 1 .. Len(collected) :
            /\ collected[n] \in 1 .. Len(work'.keys)
            /\ ~overtaken' => work'.keys[collected[n]] = inserting.accounts[n].key
            /\ Granted(work', inserting.accounts[n])
    BY <2>1, <2>9
  <2>13. Granted(work', a) /\ p \in 1 .. Len(work'.keys) /\ work'.keys[p] = a.key
    BY <2>1, <2>2, <2>6
  <2> QED
    BY <1>1, <1>6, <2>1, <2>6, <2>8, <2>10, <2>11, <2>12, <2>13
<1> QED
  BY <1>1, <1>7, <1>8

\* The insertion fails, and gives back nothing.
LEMMA RefuseStep == SolanaInv /\ RefuseAccount => SolanaInv' /\ message' = message
<1> SUFFICES ASSUME SolanaInv, RefuseAccount PROVE SolanaInv' /\ message' = message
  OBVIOUS
<1>1. at > 0 /\ UNCHANGED <<message, slots, asked>> /\ Reset
  BY DEF RefuseAccount
<1>2. Right(message, asked) /\ Fit(message, slots)
  BY <1>1, Facts
<1>3. Resting'
  BY <1>1, ResetRests
<1>4. Right(message, asked)' /\ Fit(message, slots)'
  BY <1>1, <1>2
<1> QED
  BY <1>1, <1>3, <1>4, Together

\* The insertion gives back the copy with the new instruction, to be signed.
LEMMA FinishStep == SolanaInv /\ FinishInsert => SolanaInv' /\ SamePrivileges(message, message')
<1> SUFFICES ASSUME SolanaInv, FinishInsert PROVE SolanaInv' /\ SamePrivileges(message, message')
  OBVIOUS
<1> DEFINE w == WithInstruction(work, at, inserting.program, collected, inserting.data)
           e == [program |-> inserting.program, accounts |-> inserting.accounts,
                 data |-> inserting.data, overtaken |-> overtaken]
<1>1. /\ at > 0 /\ Len(collected) = Len(inserting.accounts)
      /\ message' = w /\ asked' = InsertAt(asked, at, e) /\ slots' = Zeros(message') /\ Reset
  BY DEF FinishInsert
<1>2. Have /\ Right(work, asked) /\ Copied /\ Right(message, asked)
  BY <1>1, Facts
<1>3. /\ collected \in Seq(Nat) /\ DOMAIN collected = 1 .. Len(collected)
      /\ inserting \in Instruction /\ overtaken \in BOOLEAN
      /\ at \in 1 .. Len(work.ixs) + 1
  <2>1. /\ at \in 0 .. Len(message.ixs) + 1 /\ Len(message.ixs) \in Nat
        /\ Len(work.ixs) = Len(message.ixs)
    BY <1>2, MessageParts DEF SolanaInv, SolanaTypeOK, Right
  <2> QED
    BY <1>1, <2>1 DEF SolanaInv, SolanaTypeOK
<1>4. /\ inserting.program \in Addresses /\ inserting.accounts \in Seq(AccountMeta)
      /\ inserting.data \in Data
  BY <1>3 DEF Instruction
<1>5. /\ e \in Asked /\ e.program = inserting.program /\ e.accounts = inserting.accounts
      /\ e.data = inserting.data /\ e.overtaken = overtaken
  BY <1>3, <1>4 DEF Asked
<1> HIDE DEF e
<1>6. \A n \in DOMAIN collected :
        /\ collected[n] \in 1 .. Len(work.keys)
        /\ ~overtaken => work.keys[collected[n]] = inserting.accounts[n].key
        /\ Granted(work, inserting.accounts[n])
  BY <1>2 DEF Copied
<1>7. InstructionInserted(work, w, at, inserting.program, collected, inserting.data)
  BY <1>2, <1>3, <1>4, <1>6, InstructionAdded DEF Right
<1> HIDE DEF w
<1>8. /\ InsertAt(asked, at, e) \in Seq(Asked)
      /\ Len(InsertAt(asked, at, e)) = Len(w.ixs)
      /\ MeansAsked(w, InsertAt(asked, at, e))
      /\ AllGranted(w, InsertAt(asked, at, e))
  <2>1. InstructionInserted(work, w, at, e.program, collected, e.data)
    BY <1>5, <1>7
  <2>2. Len(collected) = Len(e.accounts)
    BY <1>1, <1>5
  <2>3. \A n \in DOMAIN collected :
        /\ collected[n] \in 1 .. Len(work.keys)
        /\ ~e.overtaken => work.keys[collected[n]] = e.accounts[n].key
        /\ Granted(work, e.accounts[n])
    BY <1>5, <1>6
  <2> QED
    BY <1>2, <1>3, <1>5, <2>1, <2>2, <2>3, AskedInserted DEF Right
<1>9. w \in Message /\ Sound(w) /\ SamePrivileges(work, w)
  BY <1>7 DEF InstructionInserted
<1>10. Right(message, asked)'
  BY <1>1, <1>8, <1>9 DEF Right
<1>11. Fit(message, slots)'
  <2>1. Fit(w, Zeros(w))
    BY <1>9, SignedFits
  <2> QED
    BY <1>1, <2>1
<1>12. Resting'
  BY <1>1, ResetRests
<1>13. SamePrivileges(message, w)
  <2>1. work \in Message /\ work.keys # <<>> /\ SamePrivileges(message, work)
    BY <1>2, SoundIsMessage DEF Right, Copied
  <2> QED
    BY <1>9, <2>1, KeepsOn
<1> QED
  BY <1>1, <1>10, <1>11, <1>12, <1>13, Together

-----------------------------------------------------------------------------
\* A step keeps the invariant, and the accounts of the message their privileges.
LEMMA SolanaStep ==
    SolanaInv /\ [SolanaNext]_solanaVars => SolanaInv' /\ (Have => SamePrivileges(message, message'))
<1> SUFFICES ASSUME SolanaInv, [SolanaNext]_solanaVars
             PROVE  SolanaInv' /\ (Have => SamePrivileges(message, message'))
  OBVIOUS
<1>0. message' = message => (Have => SamePrivileges(message, message'))
  <2>1. message \in Message
    BY DEF SolanaInv, SolanaTypeOK
  <2> QED
    BY <2>1, KeepsItself DEF Keeps
<1>1. CASE UNCHANGED solanaVars
  <2>1. UNCHANGED <<message, slots, asked, at, inserting, work, collected, overtaken>>
    BY <1>1 DEF solanaVars
  <2>2. SolanaTypeOK'
    BY <2>1 DEF SolanaInv, SolanaTypeOK, Have
  <2>3. MeansAsAsked' /\ PrivilegesEnough' /\ SignaturesFit'
    BY <2>1 DEF SolanaInv, MeansAsAsked, PrivilegesEnough, SignaturesFit
  <2>4. at' > 0 => Have' /\ Copied'
    BY <2>1 DEF SolanaInv, Have, Copied
  <2>5. SolanaInv'
    BY <2>2, <2>3, <2>4 DEF SolanaInv
  <2> QED
    BY <1>0, <2>1, <2>5
<1>2. CASE Obtain
  BY <1>2, ObtainStep
<1>3. ASSUME NEW hash \in Blockhashes, NEW held, Resign(hash, held)
      PROVE  SolanaInv' /\ SamePrivileges(message, message')
  BY <1>3, ResignStep
<1>4. ASSUME NEW k \in SignerKeys(message),
             Cosign(k, [by |-> k, over |-> message]) \/ Cosign(k, Zero)
      PROVE  SolanaInv' /\ SamePrivileges(message, message')
  BY <1>4, CosignStep
<1>5. ASSUME NEW units \in BudgetValues, SetPrice(units) \/ SetLimit(units)
      PROVE  SolanaInv' /\ SamePrivileges(message, message')
  <2>1. Len(message.ixs) \in Nat /\ DOMAIN message.ixs = 1 .. Len(message.ixs)
    BY MessageParts DEF SolanaInv, SolanaTypeOK
  <2>2. Len(message.ixs) + 1 \in 1 .. Len(message.ixs) + 1
    BY <2>1
  <2>3. LimitPlace(message) \in 1 .. Len(message.ixs) + 1
    <3>1. AdvancesNonce(message) => Len(message.ixs) # 0
      <4>1. message.ixs \in Seq(CompiledInstruction)
        BY MessageParts DEF SolanaInv, SolanaTypeOK
      <4> QED
        BY <4>1 DEF AdvancesNonce
    <3> QED
      BY <2>1, <3>1 DEF LimitPlace
  <2>4. CASE SetPrice(units)
    BY <2>2, <2>4, BudgetStep DEF SetPrice
  <2>5. CASE SetLimit(units)
    BY <2>3, <2>5, BudgetStep DEF SetLimit
  <2> QED
    BY <1>5, <2>4, <2>5
<1>6. ASSUME NEW k \in NewPayers, SetFeePayer(k)
      PROVE  SolanaInv' /\ SamePrivileges(message, message')
  BY <1>6, PayerStep
<1>7. ASSUME NEW ix \in Inserts, NEW i, BeginInsert(ix, i)
      PROVE  SolanaInv' /\ message' = message
  BY <1>7, BeginStep
<1>8. CASE PushAccount \/ RefuseAccount
  BY <1>0, <1>8, PushStep, RefuseStep
<1>9. CASE FinishInsert
  BY <1>9, FinishStep
<1> QED
  BY <1>0, <1>1, <1>2, <1>3, <1>4, <1>5, <1>6, <1>7, <1>8, <1>9 DEF SolanaNext

\* The inductive invariant of a transaction in a client's hands
\* (insert_instruction.rs, utils.rs, tx_signer.rs).
THEOREM SolanaInvariant == SolanaSpec => []SolanaInv
<1>1. SolanaInv /\ [SolanaNext]_solanaVars => SolanaInv'
  BY SolanaStep
<1> QED
  BY <1>1, SolanaInitInv, PTL DEF SolanaSpec

\* Instructions name what they were asked to name, through every edit
\* (insert_instruction.rs:116).
THEOREM NamesWhatWasAsked == SolanaSpec => []MeansAsAsked
<1>1. SolanaInv => MeansAsAsked
  BY DEF SolanaInv
<1> QED
  BY <1>1, SolanaInvariant, PTL

\* A signature that is still there is its signer's, and was made over the message
\* but for its compute budget (tx_signer.rs:26, utils.rs:113).
THEOREM SignaturesStayRight == SolanaSpec => []SignaturesFit
<1>1. SolanaInv => SignaturesFit
  BY DEF SolanaInv
<1> QED
  BY <1>1, SolanaInvariant, PTL

\* Accounts have the privileges instructions were given them with
\* (insert_instruction.rs:149).
THEOREM PrivilegesGiven == SolanaSpec => []PrivilegesEnough
<1>1. SolanaInv => PrivilegesEnough
  BY DEF SolanaInv
<1> QED
  BY <1>1, SolanaInvariant, PTL

\* No edit changes the privileges of an account that is there, or makes it the
\* payer.
THEOREM NoPrivilegeChanged == SolanaSpec => PrivilegesKept
<1>1. SolanaInv /\ [SolanaNext]_solanaVars => [Have => SamePrivileges(message, message')]_solanaVars
  BY SolanaStep
<1> QED
  BY <1>1, SolanaInvariant, PTL DEF SolanaSpec, PrivilegesKept

-----------------------------------------------------------------------------
\* The calls of the Bitcoin client and of the Solana client leave each other alone:
\* both invariants hold of a client of the two (compiler.rs:109,
\* insert_instruction.rs:40).
THEOREM WalletInvariant == WalletSpec => []WalletInv
<1>1. WalletInit => WalletInv
  BY SigningInitInv, SigningTypeInit, SolanaInitInv DEF WalletInit, WalletInv
<1>2. WalletInv /\ [WalletNext]_<<vars, solanaVars>> => WalletInv'
  <2> SUFFICES ASSUME WalletInv, [WalletNext]_<<vars, solanaVars>> PROVE WalletInv'
    OBVIOUS
  <2>1. [SigningNext]_vars /\ [SolanaNext]_solanaVars
    BY DEF WalletNext
  <2> QED
    BY <2>1, SigningStep, SigningTypeStep, SolanaStep DEF WalletInv
<1> QED
  BY <1>1, <1>2, PTL DEF WalletSpec

-----------------------------------------------------------------------------
\* The elements of a sequence are finitely many.
LEMMA RangeFinite ==
    ASSUME NEW N \in Nat, NEW s, DOMAIN s = 1 .. N
    PROVE  IsFiniteSet({s[i] : i \in 1 .. N})
<1> DEFINE T == {s[i] : i \in 1 .. N}
           g == [i \in 1 .. N |-> s[i]]
<1>1. g \in Surjection(1 .. N, T)
  BY DEF Surjection
<1>2. IsFiniteSet(1 .. N)
  BY FS_Interval
<1> HIDE DEF g, T
<1>3. IsFiniteSet(T)
  BY <1>1, <1>2, FS_Surjection
<1> QED
  BY <1>3 DEF T

\* The parts of an instruction.
LEMMA InstructionParts ==
    ASSUME NEW ixs \in Seq(Instruction)
    PROVE  /\ Len(ixs) \in Nat /\ DOMAIN ixs = 1 .. Len(ixs)
           /\ \A i \in DOMAIN ixs :
                /\ ixs[i].program \in Addresses /\ ixs[i].data \in Data
                /\ ixs[i].accounts \in Seq(AccountMeta)
                /\ Len(ixs[i].accounts) \in Nat
                /\ DOMAIN ixs[i].accounts = 1 .. Len(ixs[i].accounts)
                /\ \A n \in DOMAIN ixs[i].accounts :
                    /\ ixs[i].accounts[n] \in AccountMeta
                    /\ ixs[i].accounts[n].key \in Addresses
                    /\ ixs[i].accounts[n].signer \in BOOLEAN
                    /\ ixs[i].accounts[n].writable \in BOOLEAN
<1>1. \A i \in DOMAIN ixs : ixs[i] \in Instruction
  OBVIOUS
<1>2. ASSUME NEW i \in DOMAIN ixs
      PROVE  /\ ixs[i].program \in Addresses /\ ixs[i].data \in Data
             /\ ixs[i].accounts \in Seq(AccountMeta)
  BY <1>1 DEF Instruction
<1>3. ASSUME NEW i \in DOMAIN ixs, NEW n \in DOMAIN ixs[i].accounts
      PROVE  /\ ixs[i].accounts[n] \in AccountMeta
             /\ ixs[i].accounts[n].key \in Addresses
             /\ ixs[i].accounts[n].signer \in BOOLEAN
             /\ ixs[i].accounts[n].writable \in BOOLEAN
  <2>1. ixs[i].accounts[n] \in AccountMeta
    BY <1>2
  <2> QED
    BY <2>1 DEF AccountMeta
<1> QED
  BY <1>2, <1>3

\* What is mentioned is mentioned as the payer, as a program or as an account.
LEMMA MentionedAs ==
    ASSUME NEW payer \in Addresses, NEW ixs \in Seq(Instruction)
    PROVE  /\ Mentioned(payer, ixs) \subseteq Addresses
           /\ IsFiniteSet(Mentioned(payer, ixs))
           /\ payer \in Mentioned(payer, ixs)
           /\ \A k \in Mentioned(payer, ixs) :
                \/ k = payer
                \/ \E i \in DOMAIN ixs : ixs[i].program = k
                \/ \E i \in DOMAIN ixs : \E n \in DOMAIN ixs[i].accounts : ixs[i].accounts[n].key = k
           /\ \A i \in DOMAIN ixs :
                /\ ixs[i].program \in Mentioned(payer, ixs)
                /\ \A n \in DOMAIN ixs[i].accounts :
                    ixs[i].accounts[n].key \in Mentioned(payer, ixs)
<1> DEFINE P == {ixs[i].program : i \in DOMAIN ixs}
           K(i) == {a.key : a \in Range(ixs[i].accounts)}
           C == {K(i) : i \in DOMAIN ixs}
<1>1. Mentioned(payer, ixs) = {payer} \union P \union UNION C
  BY DEF Mentioned
<1>2. \A i \in DOMAIN ixs : K(i) = {ixs[i].accounts[n].key : n \in DOMAIN ixs[i].accounts}
  BY DEF Range
<1>3. IsFiniteSet(P)
  <2> DEFINE N == Len(ixs)
             s == [i \in 1 .. N |-> ixs[i].program]
  <2>1. N \in Nat /\ DOMAIN s = 1 .. N
    BY InstructionParts
  <2>2. {s[i] : i \in 1 .. N} = P
    BY InstructionParts
  <2> HIDE DEF N, s
  <2>3. IsFiniteSet({s[i] : i \in 1 .. N})
    BY <2>1, RangeFinite
  <2> QED
    BY <2>2, <2>3
<1>4. ASSUME NEW i \in DOMAIN ixs PROVE IsFiniteSet(K(i))
  <2> DEFINE N == Len(ixs[i].accounts)
             s == [n \in 1 .. N |-> ixs[i].accounts[n].key]
  <2>1. N \in Nat /\ DOMAIN s = 1 .. N
    BY InstructionParts
  <2>2. {s[n] : n \in 1 .. N} = K(i)
    BY <1>2, InstructionParts
  <2> HIDE DEF N, s
  <2>3. IsFiniteSet({s[n] : n \in 1 .. N})
    BY <2>1, RangeFinite
  <2> QED
    BY <2>2, <2>3
<1>5. IsFiniteSet(UNION C)
  <2> DEFINE N == Len(ixs)
             s == [i \in 1 .. N |-> K(i)]
  <2>1. N \in Nat /\ DOMAIN s = 1 .. N
    BY InstructionParts
  <2>2. {s[i] : i \in 1 .. N} = C
    BY InstructionParts
  <2> HIDE DEF N, s
  <2>5. IsFiniteSet({s[i] : i \in 1 .. N})
    BY <2>1, RangeFinite
  <2>3. IsFiniteSet(C)
    BY <2>2, <2>5
  <2>4. \A x \in C : IsFiniteSet(x)
    BY <1>4
  <2> HIDE DEF C
  <2> QED
    BY <2>3, <2>4, FS_UNION
<1> HIDE DEF C, P, K
<1>6. IsFiniteSet({payer} \union P \union UNION C)
  <2>1. IsFiniteSet({payer})
    BY FS_Singleton
  <2>2. IsFiniteSet({payer} \union P)
    BY <1>3, <2>1, FS_Union
  <2> QED
    BY <1>5, <2>2, FS_Union
<1>7. \A k : k \in UNION C <=>
        \E i \in DOMAIN ixs : \E n \in DOMAIN ixs[i].accounts : ixs[i].accounts[n].key = k
  BY <1>2 DEF C
<1>8. \A k : k \in P <=> \E i \in DOMAIN ixs : ixs[i].program = k
  BY DEF P
<1>9. P \subseteq Addresses /\ UNION C \subseteq Addresses
  <2>1. \A i \in DOMAIN ixs :
            /\ ixs[i].program \in Addresses
            /\ \A n \in DOMAIN ixs[i].accounts : ixs[i].accounts[n].key \in Addresses
    BY InstructionParts
  <2> QED
    BY <1>7, <1>8, <2>1
<1> QED
  BY <1>1, <1>6, <1>7, <1>8, <1>9

\* The key at a first mention.
KeyAt(payer, ixs, t) ==
    IF t[1] = 0 THEN payer
    ELSE IF t[1] = 1 THEN ixs[t[2]].accounts[t[3]].key ELSE ixs[t[2]].program

\* A key that is mentioned is at its first mention.
LEMMA MentionFound ==
    ASSUME NEW payer \in Addresses, NEW ixs \in Seq(Instruction),
           NEW k \in Mentioned(payer, ixs)
    PROVE  LET t == FirstMention(payer, ixs, k)
           IN  /\ t[1] \in Nat /\ t[2] \in Nat /\ t[3] \in Nat
               /\ KeyAt(payer, ixs, t) = k
               /\ k = payer <=> t[1] = 0
<1> DEFINE users == {i \in DOMAIN ixs : Uses(ixs[i], k) # {}}
           callers == {i \in DOMAIN ixs : ixs[i].program = k}
           i == Min(users)
           n == Min(Uses(ixs[i], k))
           c == Min(callers)
           t == FirstMention(payer, ixs, k)
<1>1. DOMAIN ixs \subseteq Nat
  BY InstructionParts
<1>2. CASE k = payer
  <2>1. t = <<0, 0, 0>>
    BY <1>2 DEF FirstMention
  <2> QED
    BY <1>2, <2>1 DEF KeyAt
<1>3. CASE k # payer /\ users # {}
  <2>1. i \in users
    BY <1>1, <1>3, FirstFound
  <2>2. i \in DOMAIN ixs /\ i \in Nat /\ Uses(ixs[i], k) # {}
    BY <1>1, <2>1
  <2> HIDE DEF i, users
  <2>3. Uses(ixs[i], k) \in SUBSET Nat
    BY <2>2, InstructionParts DEF Uses
  <2>4. n \in Uses(ixs[i], k)
    BY <2>2, <2>3, FirstFound
  <2>5. n \in Nat
    BY <2>3, <2>4
  <2> HIDE DEF n
  <2>6. ixs[i].accounts[n].key = k
    BY <2>4 DEF Uses
  <2>7. t = <<1, i, n>>
    BY <1>3 DEF FirstMention, i, n, users
  <2> HIDE DEF t
  <2> QED
    BY <1>3, <2>2, <2>5, <2>6, <2>7 DEF KeyAt, t
<1>4. CASE k # payer /\ users = {}
  <2>1. callers # {}
    <3>1. \A j \in DOMAIN ixs : Uses(ixs[j], k) = {}
      BY <1>4
    <3>2. ~\E j \in DOMAIN ixs : \E m \in DOMAIN ixs[j].accounts : ixs[j].accounts[m].key = k
      BY <3>1 DEF Uses
    <3> QED
      BY <1>4, <3>2, MentionedAs
  <2>2. c \in callers
    BY <1>1, <2>1, FirstFound
  <2>3. c \in Nat /\ ixs[c].program = k
    BY <1>1, <2>2
  <2> HIDE DEF c
  <2>4. t = <<2, c, 0>>
    BY <1>4 DEF FirstMention, c
  <2> HIDE DEF t
  <2> QED
    BY <1>4, <2>3, <2>4 DEF KeyAt, t
<1> QED
  BY <1>2, <1>3, <1>4

\* The order of first mentions is strict and total, and the payer is before all.
LEMMA MentionsOrdered ==
    ASSUME NEW payer \in Addresses, NEW ixs \in Seq(Instruction),
           NEW S \in SUBSET Mentioned(payer, ixs)
    PROVE  /\ Orders(MentionOrder(payer, ixs), S)
           /\ \A k \in S : <<k, payer>> \notin MentionOrder(payer, ixs)
<1> DEFINE t(k) == FirstMention(payer, ixs, k)
           R == MentionOrder(payer, ixs)
<1>1. \A k \in Mentioned(payer, ixs) :
        /\ t(k)[1] \in Nat /\ t(k)[2] \in Nat /\ t(k)[3] \in Nat
        /\ KeyAt(payer, ixs, t(k)) = k
        /\ k = payer <=> t(k)[1] = 0
  BY MentionFound
<1>2. payer \in Mentioned(payer, ixs)
  BY MentionedAs
<1>3. \A k, l \in Mentioned(payer, ixs) : <<k, l>> \in R <=> Sooner(t(k), t(l))
  BY DEF MentionOrder
<1>4. \A k, l \in Mentioned(payer, ixs) :
        t(k)[1] = t(l)[1] /\ t(k)[2] = t(l)[2] /\ t(k)[3] = t(l)[3] => k = l
  <2>1. \A k, l \in Mentioned(payer, ixs) :
            t(k)[1] = t(l)[1] /\ t(k)[2] = t(l)[2] /\ t(k)[3] = t(l)[3] =>
                KeyAt(payer, ixs, t(k)) = KeyAt(payer, ixs, t(l))
    BY DEF KeyAt
  <2> QED
    BY <1>1, <2>1
<1> HIDE DEF t, R
<1>5. \A x \in S : <<x, x>> \notin R
  BY <1>1, <1>3 DEF Sooner
<1>6. ASSUME NEW x \in S, NEW y \in S, NEW z \in S, <<x, y>> \in R, <<y, z>> \in R
      PROVE  <<x, z>> \in R
  <2>1. Sooner(t(x), t(y)) /\ Sooner(t(y), t(z))
    BY <1>3, <1>6
  <2>2. /\ t(x)[1] \in Nat /\ t(x)[2] \in Nat /\ t(x)[3] \in Nat
        /\ t(y)[1] \in Nat /\ t(y)[2] \in Nat /\ t(y)[3] \in Nat
        /\ t(z)[1] \in Nat /\ t(z)[2] \in Nat /\ t(z)[3] \in Nat
    BY <1>1
  <2>3. Sooner(t(x), t(z))
    BY <2>1, <2>2 DEF Sooner
  <2> QED
    BY <1>3, <2>3
<1>7. ASSUME NEW x \in S, NEW y \in S, x # y
      PROVE  <<x, y>> \in R \/ <<y, x>> \in R
  <2>1. /\ t(x)[1] \in Nat /\ t(x)[2] \in Nat /\ t(x)[3] \in Nat
        /\ t(y)[1] \in Nat /\ t(y)[2] \in Nat /\ t(y)[3] \in Nat
    BY <1>1
  <2>2. ~(t(x)[1] = t(y)[1] /\ t(x)[2] = t(y)[2] /\ t(x)[3] = t(y)[3])
    BY <1>4, <1>7
  <2>3. Sooner(t(x), t(y)) \/ Sooner(t(y), t(x))
    BY <2>1, <2>2 DEF Sooner
  <2> QED
    BY <1>3, <2>3
<1>8. \A k \in S : <<k, payer>> \notin R
  BY <1>1, <1>2, <1>3 DEF Sooner
<1> QED
  BY <1>5, <1>6, <1>7, <1>8 DEF Orders, R

\* g has every element of S once.
Lists(g, S) ==
    /\ g \in Seq(S)
    /\ \A i, j \in 1 .. Len(g) : g[i] = g[j] => i = j
    /\ \A k \in S : \E i \in 1 .. Len(g) : g[i] = k

\* A group of keys is listed, with the payer first in its group.
LEMMA GroupLists ==
    ASSUME NEW payer \in Addresses, NEW ixs \in Seq(Instruction),
           NEW signer \in BOOLEAN, NEW writable \in BOOLEAN
    PROVE  LET G == Group(payer, ixs, signer, writable)
               S == Members(payer, ixs, signer, writable)
           IN  Lists(G, S) /\ (payer \in S => G[1] = payer /\ Len(G) > 0)
<1> DEFINE G == Group(payer, ixs, signer, writable)
           S == Members(payer, ixs, signer, writable)
           R == MentionOrder(payer, ixs)
           N == Cardinality(S)
<1>1. S \in SUBSET Mentioned(payer, ixs) /\ IsFiniteSet(S)
  <2>1. S \in SUBSET Mentioned(payer, ixs)
    BY DEF Members
  <2> HIDE DEF S
  <2> QED
    BY <2>1, MentionedAs, FS_Subset
<1>2. Orders(R, S) /\ \A k \in S : <<k, payer>> \notin R
  BY <1>1, MentionsOrdered
<1>3. G = Listed(S, R)
  BY DEF Group
<1> HIDE DEF G, S, R
<1>4. /\ N \in Nat /\ G \in Bijection(1 .. N, S)
      /\ \A i, j \in 1 .. N : i < j => <<G[i], G[j]>> \in R
  BY <1>1, <1>2, <1>3, ListedOnce
<1> HIDE DEF N
<1>5. /\ G \in [1 .. N -> S]
      /\ \A i, j \in 1 .. N : G[i] = G[j] => i = j
      /\ \A k \in S : \E i \in 1 .. N : G[i] = k
  BY <1>4, Fun_BijectionProperties
<1>6. G \in Seq(S) /\ Len(G) = N
  BY <1>4, <1>5
<1>7. ASSUME payer \in S PROVE G[1] = payer /\ N > 0
  <2>1. PICK i \in 1 .. N : G[i] = payer
    BY <1>5, <1>7
  <2>2. 1 \in 1 .. N /\ G[1] \in S
    BY <1>4, <1>5, <2>1
  <2>3. ~(1 < i)
    BY <1>2, <1>4, <2>1, <2>2
  <2>4. i = 1
    BY <1>4, <2>1, <2>3
  <2> QED
    BY <1>4, <2>1, <2>2, <2>4
<1> QED
  BY <1>5, <1>6, <1>7 DEF Lists, G, S

\* What two listings one after the other are: a listing, with the first in front.
Joined(a, A, b, B) ==
    /\ Lists(a \o b, A \union B)
    /\ Len(a \o b) = Len(a) + Len(b)
    /\ \A i \in 1 .. Len(a \o b) : (a \o b)[i] \in A <=> i <= Len(a)
    /\ \A i \in 1 .. Len(a) : (a \o b)[i] = a[i]

\* Groups of keys that have no key in common, one after the other, list the keys of
\* both (compiled_keys.rs:78).
LEMMA ListsJoin ==
    ASSUME NEW A, NEW B, A \cap B = {}, NEW a, NEW b, Lists(a, A), Lists(b, B)
    PROVE  Joined(a, A, b, B)
<1> DEFINE U == A \union B
           s == a \o b
           m == Len(a)
           n == Len(b)
<1>1. /\ a \in Seq(A) /\ \A i, j \in 1 .. m : a[i] = a[j] => i = j
      /\ b \in Seq(B) /\ \A i, j \in 1 .. n : b[i] = b[j] => i = j
      /\ \A k \in A : \E i \in 1 .. m : a[i] = k
      /\ \A k \in B : \E i \in 1 .. n : b[i] = k
  BY DEF Lists
<1>2. /\ m \in Nat /\ n \in Nat
      /\ \A i \in 1 .. m : a[i] \in A
      /\ \A i \in 1 .. n : b[i] \in B
  BY <1>1
<1>3. a \in Seq(U) /\ b \in Seq(U)
  <2>1. a \in [1 .. m -> U] /\ b \in [1 .. n -> U]
    BY <1>1, <1>2
  <2> HIDE DEF U
  <2> QED
    BY <1>2, <2>1
<1> HIDE DEF U
<1>4. /\ s \in Seq(U) /\ Len(s) = m + n
      /\ \A i \in 1 .. m + n : s[i] = IF i <= m THEN a[i] ELSE b[i - m]
  BY <1>3, ConcatProperties
<1> HIDE DEF s, m, n
<1>5. \A i \in 1 .. m : i \in 1 .. m + n /\ s[i] = a[i]
  BY <1>2, <1>4
<1>6. \A j \in 1 .. n : m + j \in 1 .. m + n /\ s[m + j] = b[j]
  <2> SUFFICES ASSUME NEW j \in 1 .. n PROVE m + j \in 1 .. m + n /\ s[m + j] = b[j]
    OBVIOUS
  <2>1. m + j \in 1 .. m + n /\ ~(m + j <= m) /\ (m + j) - m = j
    BY <1>2
  <2> QED
    BY <1>4, <2>1
<1>7. \A i \in 1 .. m + n : i <= m \/ \E j \in 1 .. n : i = m + j
  <2> SUFFICES ASSUME NEW i \in 1 .. m + n, ~(i <= m) PROVE \E j \in 1 .. n : i = m + j
    OBVIOUS
  <2>1. i - m \in 1 .. n /\ i = m + (i - m)
    BY <1>2
  <2> QED
    BY <2>1
<1>8. \A i \in 1 .. m + n : s[i] \in A <=> i <= m
  <2> SUFFICES ASSUME NEW i \in 1 .. m + n PROVE s[i] \in A <=> i <= m
    OBVIOUS
  <2>1. CASE i <= m
    <3>1. i \in 1 .. m
      BY <1>2, <2>1
    <3> QED
      BY <1>2, <1>5, <2>1, <3>1
  <2>2. CASE ~(i <= m)
    <3>1. PICK j \in 1 .. n : i = m + j
      BY <1>7, <2>2
    <3>2. s[i] \in B
      BY <1>2, <1>6, <3>1
    <3> QED
      BY <2>2, <3>2
  <2> QED
    BY <2>1, <2>2
<1>9. ASSUME NEW i \in 1 .. m + n, NEW j \in 1 .. m + n, s[i] = s[j] PROVE i = j
  <2>1. i <= m <=> j <= m
    BY <1>8, <1>9
  <2>2. CASE i <= m
    <3>1. i \in 1 .. m /\ j \in 1 .. m
      BY <1>2, <2>1, <2>2
    <3> QED
      BY <1>1, <1>5, <1>9, <3>1 DEF m
  <2>3. CASE ~(i <= m)
    <3>1. PICK x \in 1 .. n : i = m + x
      BY <1>7, <2>3
    <3>2. PICK y \in 1 .. n : j = m + y
      BY <1>7, <2>1, <2>3
    <3>3. b[x] = b[y]
      BY <1>6, <1>9, <3>1, <3>2
    <3> QED
      BY <1>1, <3>1, <3>2, <3>3 DEF n
  <2> QED
    BY <2>2, <2>3
<1>10. \A k \in U : \E i \in 1 .. m + n : s[i] = k
  <2>1. ASSUME NEW k \in A PROVE \E i \in 1 .. m + n : s[i] = k
    <3>1. PICK i \in 1 .. m : a[i] = k
      BY <1>1 DEF m
    <3> QED
      BY <1>5, <3>1
  <2>2. ASSUME NEW k \in B PROVE \E i \in 1 .. m + n : s[i] = k
    <3>1. PICK j \in 1 .. n : b[j] = k
      BY <1>1 DEF n
    <3> QED
      BY <1>6, <3>1
  <2> QED
    BY <2>1, <2>2 DEF U
<1>11. Lists(s, U)
  BY <1>4, <1>9, <1>10 DEF Lists
<1> QED
  BY <1>4, <1>5, <1>8, <1>11 DEF Joined, s, m, n, U

\* What the header and the list of keys of a built message say of what was asked.
HeaderTells(m, payer, ixs) ==
    /\ m.keys \in Seq(Mentioned(payer, ixs))
    /\ m.signers \in Nat /\ m.roSigners \in Nat /\ m.roOthers \in Nat
    /\ m.roSigners < m.signers /\ m.signers + m.roOthers <= Len(m.keys)
    /\ \A i, j \in 1 .. Len(m.keys) : m.keys[i] = m.keys[j] => i = j
    /\ \A k \in Mentioned(payer, ixs) : \E i \in 1 .. Len(m.keys) : m.keys[i] = k
    /\ m.keys[1] = payer
    /\ \A i \in 1 .. Len(m.keys) :
        /\ IsSigner(m, i) <=> AskedToSign(payer, ixs, m.keys[i])
        /\ IsWritable(m, i) <=> AskedToWrite(payer, ixs, m.keys[i])

\* The four groups hold every key that is mentioned once, with the payer first, and
\* the header says where they end (CompiledKeys::try_into_message_components).
LEMMA KeysGrouped ==
    ASSUME NEW payer \in Addresses, NEW ixs \in Seq(Instruction), NEW hash
    PROVE  HeaderTells(Build(payer, ixs, hash), payer, ixs)
<1> DEFINE m == Build(payer, ixs, hash)
           M == Mentioned(payer, ixs)
           sign(k) == AskedToSign(payer, ixs, k)
           write(k) == AskedToWrite(payer, ixs, k)
           A == Members(payer, ixs, TRUE, TRUE)
           B == Members(payer, ixs, TRUE, FALSE)
           C == Members(payer, ixs, FALSE, TRUE)
           D == Members(payer, ixs, FALSE, FALSE)
           a == Group(payer, ixs, TRUE, TRUE)
           b == Group(payer, ixs, TRUE, FALSE)
           c == Group(payer, ixs, FALSE, TRUE)
           d == Group(payer, ixs, FALSE, FALSE)
           ab == a \o b
           abc == ab \o c
           s == abc \o d
<1>1. /\ m.keys = s
      /\ m.signers = Len(a) + Len(b) /\ m.roSigners = Len(b) /\ m.roOthers = Len(d)
  BY DEF Build
<1>2. /\ A = {k \in M : sign(k) /\ write(k)} /\ B = {k \in M : sign(k) /\ ~write(k)}
      /\ C = {k \in M : ~sign(k) /\ write(k)} /\ D = {k \in M : ~sign(k) /\ ~write(k)}
  BY DEF Members
<1>3. payer \in A
  BY <1>2, MentionedAs DEF AskedToSign, AskedToWrite
<1>4. Lists(a, A) /\ Lists(b, B) /\ Lists(c, C) /\ Lists(d, D)
  BY GroupLists
<1>5. a[1] = payer /\ Len(a) > 0
  BY <1>3, GroupLists
<1> HIDE DEF m, A, B, C, D, a, b, c, d, M, sign, write
<1>6. /\ A \cap B = {} /\ (A \union B) \cap C = {} /\ ((A \union B) \union C) \cap D = {}
      /\ ((A \union B) \union C) \union D = M
  BY <1>2
<1>7. Joined(a, A, b, B)
  BY <1>4, <1>6, ListsJoin
<1> HIDE DEF ab
<1>8. Joined(ab, A \union B, c, C)
  <2>1. Lists(ab, A \union B)
    BY <1>7 DEF Joined, ab
  <2> QED
    BY <1>4, <1>6, <2>1, ListsJoin
<1> HIDE DEF abc
<1>9. Joined(abc, (A \union B) \union C, d, D)
  <2>1. Lists(abc, (A \union B) \union C)
    BY <1>8 DEF Joined, abc
  <2> QED
    BY <1>4, <1>6, <2>1, ListsJoin
<1> HIDE DEF s
<1> DEFINE x == Len(a)
           y == Len(b)
           z == Len(c)
           u == Len(d)
           N == Len(s)
<1>10. x \in Nat /\ y \in Nat /\ z \in Nat /\ u \in Nat
  BY <1>4 DEF Lists
<1>11. Len(ab) = x + y /\ Len(abc) = (x + y) + z /\ N = ((x + y) + z) + u
  BY <1>7, <1>8, <1>9 DEF Joined, ab, abc, s
<1>12. Lists(s, M)
  BY <1>6, <1>9 DEF Joined, s
<1>13. /\ \A i \in 1 .. N : s[i] \in (A \union B) \union C <=> i <= Len(abc)
       /\ \A i \in 1 .. Len(abc) : s[i] = abc[i]
       /\ \A i \in 1 .. Len(abc) : abc[i] \in A \union B <=> i <= Len(ab)
       /\ \A i \in 1 .. Len(ab) : abc[i] = ab[i]
       /\ \A i \in 1 .. Len(ab) : ab[i] \in A <=> i <= Len(a)
       /\ \A i \in 1 .. Len(a) : ab[i] = a[i]
  BY <1>7, <1>8, <1>9 DEF Joined, ab, abc, s
<1> HIDE DEF x, y, z, u, N
<1>14. ASSUME NEW i \in 1 .. N
       PROVE  /\ s[i] \in M
              /\ s[i] \in (A \union B) \union C <=> i <= (x + y) + z
              /\ s[i] \in A \union B <=> i <= x + y
              /\ s[i] \in A <=> i <= x
  <2>1. N \in Nat /\ i \in Nat /\ i >= 1 /\ i <= N
    BY <1>10, <1>11
  <2>2. s[i] \in M
    BY <1>12, <2>1 DEF Lists, N
  <2>3. s[i] \in (A \union B) \union C <=> i <= (x + y) + z
    BY <1>11, <1>13
  <2>4. CASE i <= (x + y) + z
    <3>1. i \in 1 .. Len(abc)
      BY <1>10, <1>11, <2>1, <2>4
    <3>2. s[i] \in A \union B <=> i <= x + y
      BY <1>11, <1>13, <3>1
    <3>3. CASE i <= x + y
      <4>1. i \in 1 .. Len(ab)
        BY <1>10, <1>11, <2>1, <3>3
      <4>2. s[i] = ab[i] /\ (ab[i] \in A <=> i <= x)
        BY <1>13, <3>1, <4>1 DEF x
      <4> QED
        BY <2>2, <2>3, <3>2, <4>2
    <3>4. CASE ~(i <= x + y)
      <4>1. ~(i <= x) /\ s[i] \notin A
        BY <1>10, <2>1, <3>2, <3>4
      <4> QED
        BY <2>2, <2>3, <3>2, <4>1
    <3> QED
      BY <3>3, <3>4
  <2>5. CASE ~(i <= (x + y) + z)
    <3>1. ~(i <= x + y) /\ ~(i <= x)
      BY <1>10, <2>1, <2>5
    <3>2. s[i] \notin A \union B /\ s[i] \notin A
      BY <2>3, <2>5
    <3> QED
      BY <2>2, <2>3, <3>1, <3>2
  <2> QED
    BY <2>4, <2>5
<1>15. ASSUME NEW i \in 1 .. N
       PROVE  (IsSigner(m, i) <=> sign(s[i])) /\ (IsWritable(m, i) <=> write(s[i]))
  <2>1. (x + y) - y = x /\ (((x + y) + z) + u) - u = (x + y) + z
    BY <1>10
  <2>2. /\ IsSigner(m, i) <=> i <= x + y
        /\ IsWritable(m, i) <=> IF i <= x + y THEN i <= (x + y) - y
                                ELSE i <= (((x + y) + z) + u) - u
    BY <1>1, <1>11 DEF IsSigner, IsWritable, x, y, u, N
  <2>3. /\ s[i] \in M
        /\ s[i] \in (A \union B) \union C <=> i <= (x + y) + z
        /\ s[i] \in A \union B <=> i <= x + y
        /\ s[i] \in A <=> i <= x
    BY <1>14
  <2>4. /\ s[i] \in A \union B <=> sign(s[i])
        /\ s[i] \in A <=> sign(s[i]) /\ write(s[i])
        /\ s[i] \in (A \union B) \union C <=> sign(s[i]) \/ write(s[i])
    BY <1>2, <2>3
  <2>5. IsSigner(m, i) <=> sign(s[i])
    BY <2>2, <2>3, <2>4
  <2>6. IsWritable(m, i) <=> write(s[i])
    <3>1. CASE i <= x + y
      BY <2>1, <2>2, <2>3, <2>4, <3>1
    <3>2. CASE ~(i <= x + y)
      BY <2>1, <2>2, <2>3, <2>4, <3>2
    <3> QED
      BY <3>1, <3>2
  <2> QED
    BY <2>5, <2>6
<1>16. m.roSigners < m.signers /\ m.signers + m.roOthers <= N
  <2>1. x > 0
    BY <1>5 DEF x
  <2>2. y < x + y /\ (x + y) + u <= ((x + y) + z) + u
    BY <1>10, <2>1
  <2> QED
    BY <1>1, <1>11, <2>2 DEF x, y, u
<1>17. s[1] = payer
  <2>1. x > 0
    BY <1>5 DEF x
  <2>2. 1 \in 1 .. Len(a) /\ 1 \in 1 .. Len(ab) /\ 1 \in 1 .. Len(abc)
    BY <1>10, <1>11, <2>1 DEF x
  <2> QED
    BY <1>5, <1>13, <2>2
<1>18. m.signers \in Nat /\ m.roSigners \in Nat /\ m.roOthers \in Nat
  BY <1>1, <1>10 DEF x, y, u
<1>19. /\ s \in Seq(M) /\ \A i, j \in 1 .. N : s[i] = s[j] => i = j
       /\ \A k \in M : \E i \in 1 .. N : s[i] = k
  BY <1>12 DEF Lists, N
<1>20. /\ m.keys \in Seq(M) /\ Len(m.keys) = N
       /\ \A i, j \in 1 .. Len(m.keys) : m.keys[i] = m.keys[j] => i = j
       /\ \A k \in M : \E i \in 1 .. Len(m.keys) : m.keys[i] = k
       /\ m.keys[1] = payer
       /\ \A i \in 1 .. Len(m.keys) :
            (IsSigner(m, i) <=> sign(m.keys[i])) /\ (IsWritable(m, i) <=> write(m.keys[i]))
  BY <1>1, <1>15, <1>17, <1>19 DEF N
<1>21. HeaderTells(m, payer, ixs)
  BY <1>16, <1>18, <1>20 DEF HeaderTells, M, sign, write
<1> QED
  BY <1>21 DEF m

\* A built message is what its instructions asked for: its indices name their
\* programs and accounts, with at least the privileges given
\* (MessageBuilder::build, compile_instructions).
LEMMA BuildRight ==
    ASSUME NEW payer \in Addresses, NEW ixs \in Seq(Instruction), NEW hash \in Nat
    PROVE  Right(Build(payer, ixs, hash), AskedBy(ixs))
<1> DEFINE m == Build(payer, ixs, hash)
           M == Mentioned(payer, ixs)
           N == Len(m.keys)
           list == AskedBy(ixs)
<1>1. HeaderTells(m, payer, ixs)
  BY KeysGrouped
<1>2. /\ m.loaded = <<>> /\ m.hash = hash
      /\ m.ixs = [i \in DOMAIN ixs |-> Compile(m.keys, ixs[i])]
      /\ m = [keys |-> m.keys, loaded |-> m.loaded, hash |-> m.hash, signers |-> m.signers,
              roSigners |-> m.roSigners, roOthers |-> m.roOthers, ixs |-> m.ixs]
  BY DEF Build
<1>3. /\ M \subseteq Addresses
      /\ \A i \in DOMAIN ixs :
            ixs[i].program \in M /\ \A n \in DOMAIN ixs[i].accounts : ixs[i].accounts[n].key \in M
  BY MentionedAs
<1> HIDE DEF m
<1>4. /\ m.keys \in Seq(M) /\ N \in Nat /\ DOMAIN m.keys = 1 .. N
      /\ \A i \in 1 .. N : m.keys[i] \in M
      /\ \A i, j \in 1 .. N : m.keys[i] = m.keys[j] => i = j
      /\ \A k \in M : \E i \in 1 .. N : m.keys[i] = k
  <2>1. /\ m.keys \in Seq(M)
        /\ \A i, j \in 1 .. N : m.keys[i] = m.keys[j] => i = j
        /\ \A k \in M : \E i \in 1 .. N : m.keys[i] = k
    BY <1>1 DEF HeaderTells
  <2> HIDE DEF M
  <2>2. N \in Nat /\ DOMAIN m.keys = 1 .. N
    BY <2>1
  <2>3. \A i \in 1 .. N : m.keys[i] \in M
    BY <2>1
  <2> QED
    BY <2>1, <2>2, <2>3
<1>5. m.keys \in Seq(Addresses)
  <2>1. m.keys \in [1 .. N -> Addresses]
    BY <1>3, <1>4
  <2> HIDE DEF N
  <2> QED
    BY <1>4, <2>1
<1>6. \A k \in M : Position(m.keys, k) \in 1 .. N /\ m.keys[Position(m.keys, k)] = k
  BY <1>4 DEF Position
<1>7. \A k \in M : AddressAt(m, Position(m.keys, k)) = k
  <2>1. \A k \in M : Position(m.keys, k) <= Len(m.keys)
    BY <1>4, <1>6
  <2> QED
    BY <1>6, <2>1 DEF AddressAt
<1> HIDE DEF M, N
<1>8. /\ Len(ixs) \in Nat /\ DOMAIN ixs = 1 .. Len(ixs)
      /\ \A i \in DOMAIN ixs :
                /\ ixs[i].program \in Addresses /\ ixs[i].data \in Data
                /\ ixs[i].accounts \in Seq(AccountMeta)
                /\ Len(ixs[i].accounts) \in Nat
                /\ DOMAIN ixs[i].accounts = 1 .. Len(ixs[i].accounts)
  BY InstructionParts
<1>9. \A i \in DOMAIN ixs :
        /\ m.ixs[i].program = Position(m.keys, ixs[i].program)
        /\ DOMAIN m.ixs[i].accounts = DOMAIN ixs[i].accounts
        /\ \A n \in DOMAIN ixs[i].accounts :
            m.ixs[i].accounts[n] = Position(m.keys, ixs[i].accounts[n].key)
        /\ m.ixs[i].data = ixs[i].data
        /\ m.ixs[i] = [program |-> m.ixs[i].program, accounts |-> m.ixs[i].accounts,
                       data |-> m.ixs[i].data]
  BY <1>2 DEF Compile
<1>10. ASSUME NEW i \in DOMAIN ixs
       PROVE  /\ m.ixs[i] \in CompiledInstruction
              /\ m.ixs[i].program \in 1 .. N
              /\ \A n \in DOMAIN m.ixs[i].accounts : m.ixs[i].accounts[n] \in 1 .. N
  <2>1. m.ixs[i].program \in 1 .. N
    BY <1>3, <1>6, <1>9
  <2>2. ASSUME NEW n \in DOMAIN m.ixs[i].accounts PROVE m.ixs[i].accounts[n] \in 1 .. N
    <3>1. n \in DOMAIN ixs[i].accounts
      BY <1>9
    <3>2. m.ixs[i].accounts[n] = Position(m.keys, ixs[i].accounts[n].key)
      BY <1>9, <3>1
    <3> QED
      BY <1>3, <1>6, <3>1, <3>2
  <2>3. m.ixs[i].accounts \in Seq(Nat)
    <3> DEFINE L == Len(ixs[i].accounts)
               s == m.ixs[i].accounts
               t == [n \in DOMAIN ixs[i].accounts |-> Position(m.keys, ixs[i].accounts[n].key)]
    <3>1. L \in Nat /\ DOMAIN s = 1 .. L
      BY <1>8, <1>9
    <3>2. \A n \in 1 .. L : s[n] \in Nat
      BY <1>4, <2>2, <3>1
    <3>3. s = t /\ t = [n \in 1 .. L |-> t[n]]
      BY <1>2, <1>8 DEF Compile
    <3> HIDE DEF s, t, L
    <3>4. s \in [1 .. L -> Nat]
      BY <3>2, <3>3
    <3>5. s \in Seq(Nat)
      BY <3>1, <3>4
    <3> QED
      BY <3>5 DEF s
  <2>4. m.ixs[i].program \in Nat
    BY <1>4, <2>1
  <2>5. m.ixs[i].data \in Data
    BY <1>8, <1>9
  <2>6. m.ixs[i] = [program |-> m.ixs[i].program, accounts |-> m.ixs[i].accounts,
                    data |-> m.ixs[i].data]
    BY <1>9
  <2>7. m.ixs[i] \in CompiledInstruction
    BY <2>3, <2>4, <2>5, <2>6 DEF CompiledInstruction
  <2> QED
    BY <2>1, <2>2, <2>7
<1>11. m.ixs \in Seq(CompiledInstruction) /\ Len(m.ixs) = Len(ixs) /\ DOMAIN m.ixs = 1 .. Len(ixs)
  <2> DEFINE L == Len(ixs)
             s == m.ixs
             f(i) == Compile(m.keys, ixs[i])
  <2>1. s = [i \in 1 .. L |-> f(i)]
    BY <1>2, <1>8
  <2>2. \A i \in 1 .. L : s[i] \in CompiledInstruction
    BY <1>8, <1>10
  <2> HIDE DEF s, f
  <2>3. s \in [1 .. L -> CompiledInstruction]
    BY <2>1, <2>2
  <2> HIDE DEF L
  <2>4. s \in Seq(CompiledInstruction) /\ Len(s) = L /\ DOMAIN s = 1 .. L
    BY <1>8, <2>3 DEF L
  <2> QED
    BY <2>4 DEF s, L
<1>12. m \in Message
  <2>1. m.loaded \in Seq(Addresses) /\ m.hash \in Nat
    BY <1>2
  <2>2. m.signers \in Nat /\ m.roSigners \in Nat /\ m.roOthers \in Nat
    BY <1>1 DEF HeaderTells
  <2>3. m = [keys |-> m.keys, loaded |-> m.loaded, hash |-> m.hash, signers |-> m.signers,
             roSigners |-> m.roSigners, roOthers |-> m.roOthers, ixs |-> m.ixs]
    BY <1>2
  <2>4. m.ixs \in Seq(CompiledInstruction)
    BY <1>11
  <2> QED
    BY <1>5, <2>1, <2>2, <2>3, <2>4 DEF Message
<1>13. Sound(m)
  <2>1. Len(m.keys) = N /\ Len(m.loaded) = 0 /\ N \in Nat /\ N + 0 = N
    BY <1>2, <1>4 DEF N
  <2>2. \A i \in DOMAIN m.ixs :
            /\ m.ixs[i].program \in 1 .. N
            /\ \A n \in DOMAIN m.ixs[i].accounts : m.ixs[i].accounts[n] \in 1 .. N + 0
    BY <1>8, <1>10, <1>11, <2>1
  <2>3. m.roSigners < m.signers /\ m.signers + m.roOthers <= Len(m.keys)
    BY <1>1 DEF HeaderTells
  <2> QED
    BY <1>4, <2>1, <2>2, <2>3 DEF Sound
<1>14. \A i \in DOMAIN ixs :
            /\ list[i].program = ixs[i].program /\ list[i].accounts = ixs[i].accounts
            /\ list[i].data = ixs[i].data /\ list[i].overtaken = FALSE
            /\ list[i] \in Asked
  BY <1>8 DEF AskedBy, Asked
<1>15. list \in Seq(Asked) /\ Len(list) = Len(ixs) /\ DOMAIN list = 1 .. Len(ixs)
  <2> DEFINE L == Len(ixs)
  <2>1. list \in [1 .. L -> Asked]
    BY <1>8, <1>14 DEF AskedBy
  <2> HIDE DEF L, list
  <2>2. list \in Seq(Asked) /\ Len(list) = L /\ DOMAIN list = 1 .. L
    BY <1>8, <2>1 DEF L
  <2> QED
    BY <2>2 DEF L
<1> HIDE DEF list
<1>16. MeansAsked(m, list)
  <2> SUFFICES ASSUME NEW i \in DOMAIN ixs
               PROVE  /\ Meaning(m, m.ixs[i]).program = list[i].program
                      /\ Meaning(m, m.ixs[i]).data = list[i].data
                      /\ Meaning(m, m.ixs[i]) = Plain(list[i])
    BY <1>8, <1>11 DEF MeansAsked
  <2>1. AddressAt(m, m.ixs[i].program) = ixs[i].program
    BY <1>3, <1>7, <1>9
  <2>2. [n \in DOMAIN m.ixs[i].accounts |-> AddressAt(m, m.ixs[i].accounts[n])]
          = [n \in DOMAIN ixs[i].accounts |-> ixs[i].accounts[n].key]
    <3>1. \A n \in DOMAIN ixs[i].accounts :
              AddressAt(m, m.ixs[i].accounts[n]) = ixs[i].accounts[n].key
      BY <1>3, <1>7, <1>9
    <3> QED
      BY <1>9, <3>1
  <2> QED
    BY <1>9, <1>14, <2>1, <2>2 DEF Meaning, Plain
<1>17. AllGranted(m, list)
  <2> SUFFICES ASSUME NEW i \in DOMAIN ixs, NEW n \in DOMAIN ixs[i].accounts
               PROVE  Granted(m, ixs[i].accounts[n])
    BY <1>8, <1>14, <1>15 DEF AllGranted
  <2> DEFINE e == ixs[i].accounts[n]
  <2>1. e.key \in M
    BY <1>3
  <2>2. PICK j \in 1 .. N : m.keys[j] = e.key
    BY <1>4, <2>1
  <2>3. e \in Metas(ixs, e.key)
    BY DEF Metas, Range
  <2> HIDE DEF e
  <2>4. /\ e.signer => AskedToSign(payer, ixs, e.key)
        /\ e.writable => AskedToWrite(payer, ixs, e.key)
    BY <2>3 DEF AskedToSign, AskedToWrite
  <2>5. (e.signer => IsSigner(m, j)) /\ (e.writable => IsWritable(m, j))
    BY <1>1, <2>2, <2>4 DEF HeaderTells, N
  <2>6. Granted(m, e)
    BY <1>4, <2>2, <2>5 DEF Granted
  <2> QED
    BY <2>6 DEF e
<1>18. Right(m, list)
  BY <1>11, <1>12, <1>13, <1>15, <1>16, <1>17 DEF Right
<1> QED
  BY <1>18 DEF m, list

\* The keys that are to sign a built message are the payer and those an instruction
\* asks to sign.
LEMMA BuildSigners ==
    ASSUME NEW payer \in Addresses, NEW ixs \in Seq(Instruction), NEW hash,
           NEW k \in SignerKeys(Build(payer, ixs, hash))
    PROVE  \/ k = payer
           \/ \E i \in DOMAIN ixs : \E n \in DOMAIN ixs[i].accounts :
                ixs[i].accounts[n].key = k /\ ixs[i].accounts[n].signer
<1> DEFINE m == Build(payer, ixs, hash)
<1>1. HeaderTells(m, payer, ixs)
  BY KeysGrouped
<1>2. PICK j \in 1 .. m.signers : m.keys[j] = k
  BY DEF SignerKeys
<1> HIDE DEF m
<1>3. j \in 1 .. Len(m.keys) /\ j <= m.signers
  <2>1. /\ m.signers \in Nat /\ m.roOthers \in Nat /\ Len(m.keys) \in Nat
        /\ m.signers + m.roOthers <= Len(m.keys)
    BY <1>1 DEF HeaderTells
  <2> QED
    BY <1>2, <2>1
<1>4. AskedToSign(payer, ixs, k)
  BY <1>1, <1>2, <1>3 DEF HeaderTells, IsSigner
<1> QED
  BY <1>4 DEF AskedToSign, Metas, Range
-----------------------------------------------------------------------------
\* What an input may ask of an account: only the signer, the payer and a new nonce
\* account are asked to sign.
Asker(q) == {a \in AccountMeta : a.signer => a.key \in SigningKeys(q) \union {FeePayer(q)}}
Passed(q) == {d \in Data : d = Advance => q.nonce # "none"}
Issued(q) == [program : Addresses, accounts : Seq(Asker(q)), data : Passed(q)]

\* A list of few accounts.
LEMMA FewAccounts ==
    ASSUME NEW S
    PROVE  /\ <<>> \in Seq(S)
           /\ \A a \in S : <<a>> \in Seq(S)
           /\ \A a, b \in S : <<a, b>> \in Seq(S)
           /\ \A a, b, c \in S : <<a, b, c>> \in Seq(S)
           /\ \A a, b, c, d \in S : <<a, b, c, d>> \in Seq(S)
           /\ \A a, b, c, d, e \in S : <<a, b, c, d, e>> \in Seq(S)
           /\ \A a, b, c, d, e, f \in S : <<a, b, c, d, e, f>> \in Seq(S)
           /\ \A a, b, c, d, e, f, g \in S : <<a, b, c, d, e, f, g>> \in Seq(S)
  OBVIOUS

\* The accounts that the instruction builders name are those of the input
\* (instruction_builder/*.rs).
LEMMA MetasAsked ==
    ASSUME NEW q \in SigningInput
    PROVE  /\ \A k \in Addresses : Reads(k) \in Asker(q) /\ Writes(k) \in Asker(q)
           /\ \A k \in {q.signer, FeePayer(q)} :
                Signs(k) \in Asker(q) /\ SignsOnly(k) \in Asker(q)
           /\ q.kind = "createNonce" => Signs("newNonce") \in Asker(q)
           /\ References(q) \in Seq(Asker(q))
           /\ q.signer \in Addresses /\ FeePayer(q) \in Addresses
           /\ q.nonce # "none" => q.nonce \in Addresses
<1>1. /\ q.signer \in Addresses /\ q.payer \in Addresses \union {"none"}
      /\ q.nonce \in Addresses \union {"none"} /\ q.reference \in Addresses \union {"none"}
  BY DEF SigningInput
<1>2. q.signer \in Addresses /\ FeePayer(q) \in Addresses
  BY <1>1 DEF FeePayer
<1>3. \A k \in Addresses : Reads(k) \in Asker(q) /\ Writes(k) \in Asker(q)
  BY DEF Asker, Reads, Writes, AccountMeta
<1>4. {q.signer, FeePayer(q)} \subseteq SigningKeys(q) \union {FeePayer(q)}
  BY DEF SigningKeys
<1>5. \A k \in {q.signer, FeePayer(q)} : Signs(k) \in Asker(q) /\ SignsOnly(k) \in Asker(q)
  BY <1>2, <1>4 DEF Asker, Signs, SignsOnly, AccountMeta
<1>6. ASSUME q.kind = "createNonce" PROVE Signs("newNonce") \in Asker(q)
  <2>1. "newNonce" \in Addresses
    BY BuilderAssumption DEF NamedAddresses
  <2>2. "newNonce" \in SigningKeys(q)
    BY <1>6 DEF SigningKeys
  <2> QED
    BY <2>1, <2>2 DEF Asker, Signs, AccountMeta
<1>7. References(q) \in Seq(Asker(q))
  <2>1. CASE q.reference = "none"
    BY <2>1, FewAccounts DEF References
  <2>2. CASE q.reference # "none"
    <3>1. Reads(q.reference) \in Asker(q)
      BY <1>1, <1>3, <2>2
    <3> QED
      BY <2>2, <3>1, FewAccounts DEF References
  <2> QED
    BY <2>1, <2>2
<1> QED
  BY <1>1, <1>2, <1>3, <1>5, <1>6, <1>7

\* Two lists one after the other are a list.
LEMMA TwoLists ==
    ASSUME NEW S, NEW s \in Seq(S), NEW t \in Seq(S)
    PROVE  /\ s \o t \in Seq(S)
           /\ s # <<>> => s \o t # <<>> /\ (s \o t)[1] = s[1]
           /\ s = <<>> => s \o t = t
  <1>1. s \o t \in Seq(S) /\ Len(s) \in Nat /\ Len(t) \in Nat
    OBVIOUS
  <1>2. /\ Len(s \o t) = Len(s) + Len(t)
        /\ \A i \in 1 .. Len(s) + Len(t) : (s \o t)[i] = IF i <= Len(s) THEN s[i] ELSE t[i - Len(s)]
    BY ConcatProperties
  <1>3. ASSUME s # <<>> PROVE s \o t # <<>> /\ (s \o t)[1] = s[1]
    <2>1. Len(s) > 0
      BY <1>3
    <2>2. 1 \in 1 .. Len(s) + Len(t) /\ 1 <= Len(s) /\ Len(s \o t) # 0
      BY <1>1, <1>2, <2>1
    <2> QED
      BY <1>2, <2>2
  <1>4. s = <<>> => s \o t = t
    OBVIOUS
  <1> QED
    BY <1>1, <1>3, <1>4

\* The builders issue instructions whose signers the input knows
\* (instruction_builder/*.rs).
LEMMA InstructionsIssued ==
    ASSUME NEW q \in SigningInput
    PROVE  /\ Beginning(q) \in Seq(Issued(q)) /\ Body(q) \in Seq(Issued(q))
           /\ ToPayer(q) \in Seq(Issued(q)) /\ Instructions(q) \in Seq(Issued(q))
<1> DEFINE A == Asker(q)
           X == Issued(q)
           me == q.signer
           payer == FeePayer(q)
           refs == References(q)
<1>1. \A k \in NamedAddresses : k \in Addresses /\ Reads(k) \in A /\ Writes(k) \in A
  BY BuilderAssumption, MetasAsked
<1>2. /\ me \in Addresses /\ payer \in Addresses
      /\ \A k \in {me, payer} : Reads(k) \in A /\ Writes(k) \in A /\ Signs(k) \in A /\ SignsOnly(k) \in A
      /\ refs \in Seq(A)
  BY MetasAsked
<1>3. \A p \in Addresses, s \in Seq(A), d \in Passed(q) :
        [program |-> p, accounts |-> s, data |-> d] \in X
  BY DEF Issued
<1>4. ASSUME NEW n \in InstructionNames, n # "advance" PROVE <<n, 0>> \in Passed(q)
  <2>1. <<n, 0>> \in Data
    BY BuilderAssumption
  <2>2. <<n, 0>> # Advance
    BY <1>4
  <2> QED
    BY <2>1, <2>2 DEF Passed
<1>5. \A p \in NamedAddresses, s \in Seq(A), n \in InstructionNames :
        n # "advance" => Ix(p, s, n) \in X
  BY <1>1, <1>3, <1>4 DEF Ix
<1> HIDE DEF A, X, me, payer, refs
<1>6. /\ \A ix \in X : <<ix>> \in Seq(X)
      /\ \A ix, iy \in X : <<ix, iy>> \in Seq(X)
      /\ \A ix, iy, iz \in X : <<ix, iy, iz>> \in Seq(X)
      /\ <<>> \in Seq(X)
  BY FewAccounts
<1>7. \A condition : \A ix \in X : Maybe(condition, ix) \in Seq(X)
  BY <1>6 DEF Maybe
<1>8. \A s, t \in Seq(X) : s \o t \in Seq(X)
  BY TwoLists
<1>9. Memo \in X
  BY <1>5, FewAccounts DEF Memo, NamedAddresses, InstructionNames
<1>10. \A to \in NamedAddresses : Transfer(me, to, refs) \in X
  <2> SUFFICES ASSUME NEW to \in NamedAddresses PROVE Transfer(me, to, refs) \in X
    OBVIOUS
  <2>1. <<Signs(me), Writes(to)>> \in Seq(A)
    BY <1>1, <1>2, FewAccounts
  <2>2. <<Signs(me), Writes(to)>> \o refs \in Seq(A)
    BY <1>2, <2>1, TwoLists
  <2> QED
    BY <1>5, <2>2 DEF Transfer, NamedAddresses, InstructionNames
<1>11. \A from, to, mint \in NamedAddresses, s \in Seq(A) : TransferChecked(from, mint, to, me, s) \in X
  <2> SUFFICES ASSUME NEW from \in NamedAddresses, NEW to \in NamedAddresses,
                      NEW mint \in NamedAddresses, NEW s \in Seq(A)
               PROVE  TransferChecked(from, mint, to, me, s) \in X
    OBVIOUS
  <2>1. <<Writes(from), Reads(mint), Writes(to), Signs(me)>> \in Seq(A)
    BY <1>1, <1>2, FewAccounts
  <2>2. <<Writes(from), Reads(mint), Writes(to), Signs(me)>> \o s \in Seq(A)
    BY <2>1, TwoLists
  <2> QED
    BY <1>5, <2>2 DEF TransferChecked, NamedAddresses, InstructionNames
<1>12. /\ "blockhashes" \in NamedAddresses /\ "rent" \in NamedAddresses /\ "clock" \in NamedAddresses
       /\ "history" \in NamedAddresses /\ "config" \in NamedAddresses /\ "nonce" \in NamedAddresses
       /\ "newNonce" \in NamedAddresses /\ "validator" \in NamedAddresses
       /\ "stake1" \in NamedAddresses /\ "stake2" \in NamedAddresses
       /\ "mint" \in NamedAddresses /\ "toToken" \in NamedAddresses /\ "token1" \in NamedAddresses
       /\ "to" \in NamedAddresses /\ "token" \in NamedAddresses /\ System \in NamedAddresses
       /\ "stake" \in NamedAddresses /\ "associated" \in NamedAddresses
       /\ "sponsor" \in NamedAddresses /\ "feeFrom" \in NamedAddresses
       /\ "feeMint" \in NamedAddresses /\ "feeTo" \in NamedAddresses
  BY DEF NamedAddresses
<1>13. \A n \in {"withdrawNonce", "create", "initNonce", "createSeeded", "initStake", "delegate",
                 "deactivate", "withdraw", "createToken"} : n \in InstructionNames /\ n # "advance"
  BY DEF InstructionNames
<1>14. ASSUME q.nonce # "none" PROVE AdvanceNonce(q.nonce, me) \in X
  <2>1. Writes(q.nonce) \in A
    BY <1>14, MetasAsked DEF A
  <2>2. <<Writes(q.nonce), Reads("blockhashes"), SignsOnly(me)>> \in Seq(A)
    BY <1>1, <1>2, <1>12, <2>1, FewAccounts
  <2>3. Advance \in Passed(q)
    BY <1>14, SolanaAssumption DEF Passed
  <2>4. AdvanceNonce(q.nonce, me) =
          [program |-> System, accounts |-> <<Writes(q.nonce), Reads("blockhashes"), SignsOnly(me)>>,
           data |-> Advance]
    BY DEF AdvanceNonce, Ix
  <2>5. System \in Addresses
    BY <1>1, <1>12
  <2> QED
    BY <1>3, <2>2, <2>3, <2>4, <2>5 DEF A, X
<1>15. WithdrawNonce("nonce", me, "to") \in X
  <2>1. <<Writes("nonce"), Writes("to"), Reads("blockhashes"), Reads("rent"), SignsOnly(me)>> \in Seq(A)
    BY <1>1, <1>2, <1>12, FewAccounts
  <2> QED
    BY <1>5, <1>12, <1>13, <2>1 DEF WithdrawNonce
<1>16. ASSUME q.kind = "createNonce" PROVE CreateNonce(me, "newNonce") \in Seq(X)
  <2>1. <<Signs(me), Signs("newNonce")>> \in Seq(A)
    BY <1>2, <1>16, MetasAsked, FewAccounts DEF A
  <2>2. <<Writes("newNonce"), Reads("blockhashes"), Reads("rent")>> \in Seq(A)
    BY <1>1, <1>12, FewAccounts
  <2>3. /\ Ix(System, <<Signs(me), Signs("newNonce")>>, "create") \in X
        /\ Ix(System, <<Writes("newNonce"), Reads("blockhashes"), Reads("rent")>>, "initNonce") \in X
    BY <1>5, <1>12, <1>13, <2>1, <2>2
  <2> QED
    BY <1>6, <2>3 DEF CreateNonce
<1>17. DepositStake(me, "validator", "stake1") \in Seq(X)
  <2>1. /\ <<Signs(me), Writes("stake1"), SignsOnly(me)>> \in Seq(A)
        /\ <<Writes("stake1"), Reads("rent")>> \in Seq(A)
        /\ <<Writes("stake1"), Reads("validator"), Reads("clock"), Reads("history"),
             Reads("config"), SignsOnly(me)>> \in Seq(A)
    BY <1>1, <1>2, <1>12, FewAccounts
  <2>2. /\ Ix(System, <<Signs(me), Writes("stake1"), SignsOnly(me)>>, "createSeeded") \in X
        /\ Ix("stake", <<Writes("stake1"), Reads("rent")>>, "initStake") \in X
        /\ Ix("stake", <<Writes("stake1"), Reads("validator"), Reads("clock"), Reads("history"),
                         Reads("config"), SignsOnly(me)>>, "delegate") \in X
    BY <1>5, <1>12, <1>13, <2>1
  <2> QED
    BY <1>6, <2>2 DEF DepositStake
<1>18. \A stake \in NamedAddresses : Deactivate(stake, me) \in X /\ WithdrawStake(stake, me) \in X
  <2> SUFFICES ASSUME NEW stake \in NamedAddresses
               PROVE  Deactivate(stake, me) \in X /\ WithdrawStake(stake, me) \in X
    OBVIOUS
  <2>1. /\ <<Writes(stake), Reads("clock"), Signs(me)>> \in Seq(A)
        /\ <<Writes(stake), Writes(me), Reads("clock"), Reads("history"), SignsOnly(me)>> \in Seq(A)
    BY <1>1, <1>2, <1>12, FewAccounts
  <2> QED
    BY <1>5, <1>12, <1>13, <2>1 DEF Deactivate, WithdrawStake
<1>19. \A k \in {me, payer} : CreateTokenAccount(k, "to", "mint", "toToken") \in X
  <2> SUFFICES ASSUME NEW k \in {me, payer}
               PROVE  CreateTokenAccount(k, "to", "mint", "toToken") \in X
    OBVIOUS
  <2>1. /\ Signs(k) \in A /\ Writes("toToken") \in A /\ Reads("to") \in A /\ Reads("mint") \in A
        /\ Reads(System) \in A /\ Reads("token") \in A /\ Reads("rent") \in A
    BY <1>1, <1>2, <1>12
  <2>2. <<Signs(k), Writes("toToken"), Reads("to"), Reads("mint"),
          Reads(System), Reads("token"), Reads("rent")>> \in Seq(A)
    BY <2>1, FewAccounts
  <2> QED
    BY <1>5, <1>12, <1>13, <2>2 DEF CreateTokenAccount
<1>20. \A kind \in {"price", "limit"}, u \in Nat : u > 0 /\ <<kind, u>> \in Data => SetUnits(kind, u) \in X
  <2> SUFFICES ASSUME NEW kind \in {"price", "limit"}, NEW u \in Nat, <<kind, u>> \in Data
               PROVE  SetUnits(kind, u) \in X
    OBVIOUS
  <2>1. <<kind, u>> \in Passed(q)
    BY DEF Passed
  <2>2. <<>> \in Seq(A) /\ Budget \in Addresses
    BY FewAccounts, SolanaAssumption
  <2> QED
    BY <1>3, <2>1, <2>2 DEF SetUnits, A, X
<1>21. Beginning(q) \in Seq(X)
  <2>1. Maybe(q.tokenToPayer, TransferChecked("feeFrom", "feeMint", "feeTo", me, <<>>)) \in Seq(X)
    BY <1>7, <1>11, <1>12, FewAccounts
  <2>2. Maybe(q.nonce # "none", AdvanceNonce(q.nonce, me)) \in Seq(X)
    BY <1>6, <1>14 DEF Maybe
  <2>3. q.price \in BudgetUnits("price") /\ q.limit \in BudgetUnits("limit")
    BY DEF SigningInput
  <2>4. /\ Maybe(q.price > 0, SetUnits("price", q.price)) \in Seq(X)
        /\ Maybe(q.limit > 0, SetUnits("limit", q.limit)) \in Seq(X)
    BY <1>6, <1>20, <2>3 DEF Maybe, BudgetUnits
  <2> QED
    BY <1>8, <2>1, <2>2, <2>4 DEF Beginning, me
<1>22. TransferBody(q) \in Seq(X)
  BY <1>6, <1>7, <1>8, <1>9, <1>10, <1>12 DEF TransferBody, me, refs
<1>23. q.kind \in StakeKinds => StakeBody(q) \in Seq(X)
  BY <1>6, <1>12, <1>17, <1>18 DEF StakeBody, StakeKinds, me
<1>24. q.kind \in TokenKinds => TokenBody(q) \in Seq(X)
  <2> DEFINE transfer == Maybe(q.memo, Memo)
                \o <<TransferChecked("token1", "mint", "toToken", q.signer, References(q))>>
  <2>1. transfer \in Seq(X)
    BY <1>2, <1>6, <1>7, <1>8, <1>9, <1>11, <1>12 DEF me, refs
  <2>2. /\ <<CreateTokenAccount(me, "to", "mint", "toToken")>> \in Seq(X)
        /\ <<CreateTokenAccount(payer, "to", "mint", "toToken")>> \in Seq(X)
    BY <1>6, <1>19
  <2>3. <<CreateTokenAccount(payer, "to", "mint", "toToken")>> \o transfer \in Seq(X)
    BY <1>8, <2>1, <2>2
  <2> QED
    BY <2>1, <2>2, <2>3 DEF TokenBody, TokenKinds, me, payer
<1>25. q.kind \in NonceKinds => NonceBody(q) \in Seq(X)
  BY <1>6, <1>15, <1>16 DEF NonceBody, NonceKinds, me
<1>26. Body(q) \in Seq(X)
  <2>1. q.kind \in Kinds
    BY DEF SigningInput
  <2> QED
    BY <1>22, <1>23, <1>24, <1>25, <2>1 DEF Body, Kinds, StakeKinds, TokenKinds, NonceKinds
<1>27. ToPayer(q) \in Seq(X)
  BY <1>7, <1>10, <1>12 DEF ToPayer, me, refs
<1> QED
  BY <1>8, <1>21, <1>26, <1>27 DEF Instructions, X

\* The parts of what an input issues.
LEMMA IssuedParts ==
    ASSUME NEW q \in SigningInput, NEW s \in Seq(Issued(q))
    PROVE  /\ s \in Seq(Instruction) /\ DOMAIN s = 1 .. Len(s) /\ Len(s) \in Nat
           /\ \A i \in DOMAIN s :
                /\ s[i].data = Advance => q.nonce # "none"
                /\ \A n \in DOMAIN s[i].accounts :
                    s[i].accounts[n].signer =>
                        s[i].accounts[n].key \in SigningKeys(q) \union {FeePayer(q)}
<1>1. ASSUME NEW ix \in Issued(q)
      PROVE  /\ ix \in Instruction /\ (ix.data = Advance => q.nonce # "none")
             /\ \A n \in DOMAIN ix.accounts :
                    ix.accounts[n].signer => ix.accounts[n].key \in SigningKeys(q) \union {FeePayer(q)}
  <2>1. /\ ix.program \in Addresses /\ ix.accounts \in Seq(Asker(q)) /\ ix.data \in Passed(q)
        /\ ix = [program |-> ix.program, accounts |-> ix.accounts, data |-> ix.data]
    BY DEF Issued
  <2>2. \A n \in DOMAIN ix.accounts : ix.accounts[n] \in Asker(q)
    BY <2>1
  <2>3. ix.accounts \in Seq(AccountMeta)
    <3>1. \A n \in DOMAIN ix.accounts : ix.accounts[n] \in AccountMeta
      BY <2>2 DEF Asker
    <3>2. Len(ix.accounts) \in Nat /\ DOMAIN ix.accounts = 1 .. Len(ix.accounts)
      BY <2>1
    <3>3. ix.accounts = [n \in 1 .. Len(ix.accounts) |-> ix.accounts[n]]
      BY <2>1
    <3>4. ix.accounts \in [1 .. Len(ix.accounts) -> AccountMeta]
      BY <3>1, <3>2, <3>3
    <3> QED
      BY <3>2, <3>4
  <2>4. ix \in Instruction
    BY <2>1, <2>3 DEF Instruction, Passed
  <2>5. ix.data = Advance => q.nonce # "none"
    BY <2>1 DEF Passed
  <2>6. \A n \in DOMAIN ix.accounts :
            ix.accounts[n].signer => ix.accounts[n].key \in SigningKeys(q) \union {FeePayer(q)}
    BY <2>2 DEF Asker
  <2> QED
    BY <2>4, <2>5, <2>6
<1>2. DOMAIN s = 1 .. Len(s) /\ Len(s) \in Nat /\ \A i \in DOMAIN s : s[i] \in Issued(q)
  OBVIOUS
<1>3. s \in Seq(Instruction)
  <2>1. \A i \in 1 .. Len(s) : s[i] \in Instruction
    BY <1>1, <1>2
  <2>2. s = [i \in 1 .. Len(s) |-> s[i]]
    BY <1>2
  <2>3. s \in [1 .. Len(s) -> Instruction]
    BY <2>1, <2>2
  <2> QED
    BY <1>2, <2>3
<1> QED
  BY <1>1, <1>2, <1>3

\* An input with a nonce begins with its advance, or with a token transfer to the
\* fee payer (message_builder.rs:152, 165).
LEMMA BeginsWithNonce ==
    ASSUME NEW q \in SigningInput, q.nonce # "none"
    PROVE  LET list == Instructions(q)
           IN  /\ list # <<>>
               /\ IF q.tokenToPayer THEN list[1].data = <<"transferChecked", 0>>
                  ELSE list[1].program = System /\ list[1].data = Advance
<1> DEFINE token == TransferChecked("feeFrom", "feeMint", "feeTo", q.signer, <<>>)
           advance == AdvanceNonce(q.nonce, q.signer)
           S == {token, advance, SetUnits("price", q.price), SetUnits("limit", q.limit)}
           a == Maybe(q.tokenToPayer, token)
           b == Maybe(q.nonce # "none", advance)
           c == Maybe(q.price > 0, SetUnits("price", q.price))
           d == Maybe(q.limit > 0, SetUnits("limit", q.limit))
           first == IF q.tokenToPayer THEN token ELSE advance
<1>1. a \in Seq(S) /\ b \in Seq(S) /\ c \in Seq(S) /\ d \in Seq(S)
  <2> HIDE DEF token, advance
  <2>1. /\ <<>> \in Seq(S) /\ <<token>> \in Seq(S) /\ <<advance>> \in Seq(S)
        /\ <<SetUnits("price", q.price)>> \in Seq(S) /\ <<SetUnits("limit", q.limit)>> \in Seq(S)
    BY FewAccounts
  <2> HIDE DEF S
  <2> QED
    BY <2>1 DEF Maybe
<1>2. /\ token.data = <<"transferChecked", 0>>
      /\ advance.program = System /\ advance.data = Advance
  BY DEF TransferChecked, AdvanceNonce, Ix
<1>3. q.tokenToPayer \in BOOLEAN
  BY DEF SigningInput
<1> HIDE DEF S, token, advance
<1>4. a \o b # <<>> /\ (a \o b)[1] = first
  <2>1. CASE q.tokenToPayer
    <3>1. a = <<token>>
      BY <2>1 DEF Maybe
    <3>2. a # <<>> /\ a[1] = token
      BY <3>1
    <3> HIDE DEF a, b
    <3>3. a \o b # <<>> /\ (a \o b)[1] = a[1]
      BY <1>1, <3>2, TwoLists
    <3> QED
      BY <2>1, <3>2, <3>3
  <2>2. CASE ~q.tokenToPayer
    <3>1. a = <<>> /\ b = <<advance>>
      BY <2>2 DEF Maybe
    <3>2. b # <<>> /\ b[1] = advance
      BY <3>1
    <3> HIDE DEF a, b
    <3>3. a \o b = b
      BY <1>1, <3>1, TwoLists
    <3> QED
      BY <2>2, <3>2, <3>3
  <2> QED
    BY <1>3, <2>1, <2>2
<1>5. Beginning(q) = ((a \o b) \o c) \o d
  BY DEF Beginning, token, advance
<1> DEFINE ab == a \o b
           abc == ab \o c
           B == Beginning(q)
           list == Instructions(q)
<1>14. B = abc \o d
  BY <1>5
<1> HIDE DEF a, b, c, d, first
<1>6. ab \in Seq(S)
  BY <1>1, TwoLists
<1> HIDE DEF ab
<1>7. abc \in Seq(S) /\ abc # <<>> /\ abc[1] = ab[1]
  BY <1>1, <1>4, <1>6, TwoLists DEF ab
<1> HIDE DEF abc, B
<1>8. B # <<>> /\ B[1] = abc[1]
  BY <1>1, <1>7, <1>14, TwoLists
<1>9. B \in Seq(Issued(q)) /\ Body(q) \in Seq(Issued(q)) /\ ToPayer(q) \in Seq(Issued(q))
  BY InstructionsIssued DEF B
<1> DEFINE BB == B \o Body(q)
<1>10. BB \in Seq(Issued(q)) /\ BB # <<>> /\ BB[1] = B[1]
  BY <1>8, <1>9, TwoLists
<1>11. list = BB \o ToPayer(q)
  BY DEF Instructions, B
<1> HIDE DEF BB
<1>12. list # <<>> /\ list[1] = BB[1]
  BY <1>9, <1>10, <1>11, TwoLists
<1>13. list[1] = first
  BY <1>4, <1>7, <1>8, <1>10, <1>12 DEF ab
<1> QED
  BY <1>2, <1>3, <1>12, <1>13 DEF first

\* Every signing input gives a message that a client may start from: its indices name
\* what its instructions were asked to name, with the privileges asked for
\* (message_builder.rs:30, compiled_keys.rs:48, compiled_instructions.rs:13).
THEOREM InputsStart ==
    ASSUME NEW q \in SigningInput, NEW hash \in Nat
    PROVE  Startable(FromInput(q, hash))
<1> DEFINE ixs == Instructions(q)
           b == FromInput(q, hash)
<1>1. ixs \in Seq(Instruction) /\ FeePayer(q) \in Addresses
  BY InstructionsIssued, IssuedParts, MetasAsked
<1>2. b.message = Build(FeePayer(q), ixs, hash) /\ b.asked = AskedBy(ixs)
  BY DEF FromInput
<1> HIDE DEF b, ixs
<1>3. Right(b.message, b.asked)
  BY <1>1, <1>2, BuildRight
<1>4. b.message \in Message /\ Sound(b.message)
  BY <1>3 DEF Right
<1>5. b.message # NoMessage
  BY <1>4, SoundIsMessage
<1>6. Startable(b)
  BY <1>3, <1>5 DEF Right, Startable
<1> QED
  BY <1>6 DEF b

\* A transaction comes from an input, or from elsewhere.
Origin(b) ==
    \/ \E q \in SigningInput, hash \in Nat : b = FromInput(q, hash)
    \/ Elsewhere(b)

\* What signs an input's message is its keys, and the payer.
LEMMA InputSigners ==
    ASSUME NEW q \in SigningInput, NEW hash \in Nat
    PROVE  SignerKeys(FromInput(q, hash).message) \subseteq SigningKeys(q) \union {FeePayer(q)}
<1> DEFINE ixs == Instructions(q)
<1>1. /\ ixs \in Seq(Instruction) /\ FeePayer(q) \in Addresses
      /\ \A i \in DOMAIN ixs : \A n \in DOMAIN ixs[i].accounts :
            ixs[i].accounts[n].signer =>
                ixs[i].accounts[n].key \in SigningKeys(q) \union {FeePayer(q)}
  BY InstructionsIssued, IssuedParts, MetasAsked
<1>2. FromInput(q, hash).message = Build(FeePayer(q), ixs, hash)
  BY DEF FromInput
<1> HIDE DEF ixs
<1> SUFFICES ASSUME NEW k \in SignerKeys(Build(FeePayer(q), ixs, hash))
             PROVE  k \in SigningKeys(q) \union {FeePayer(q)}
  BY <1>2
<1> QED
  BY <1>1, BuildSigners

\* The signatures that are missing are those that are to come from others
\* (tx_signer.rs:26).
LEMMA MissingAbsent ==
    ASSUME NEW b, Startable(b), Origin(b), NEW i \in DOMAIN Signed(b.message, b.held)
    PROVE  Signed(b.message, b.held)[i] = Zero <=> b.message.keys[i] \in b.absent
<1> DEFINE m == b.message
           k == m.keys[i]
<1>1. i \in 1 .. m.signers
  BY DEF Signed
<1>2. k \in SignerKeys(m)
  BY <1>1 DEF SignerKeys
<1>3. m # NoMessage
  BY DEF Startable
<1>4. Signed(m, b.held)[i] = Zero <=> k \notin b.held
  <2>1. Signed(m, b.held)[i] = IF k \in b.held THEN [by |-> k, over |-> m] ELSE Zero
    BY <1>1 DEF Signed
  <2>2. [by |-> k, over |-> m] # Zero
    BY <1>3 DEF Zero
  <2> QED
    BY <2>1, <2>2
<1>5. k \notin b.held <=> k \in b.absent
  <2>1. CASE Elsewhere(b)
    BY <1>2, <2>1 DEF Elsewhere
  <2>2. ASSUME NEW q \in SigningInput, NEW hash \in Nat, b = FromInput(q, hash)
        PROVE  k \notin b.held <=> k \in b.absent
    <3>1. b.held = SigningKeys(q) /\ b.absent = {FeePayer(q)} \ SigningKeys(q)
      BY <2>2 DEF FromInput
    <3>2. k \in SigningKeys(q) \union {FeePayer(q)}
      BY <1>2, <2>2, InputSigners
    <3> QED
      BY <3>1, <3>2
  <2> QED
    BY <2>1, <2>2 DEF Origin
<1> QED
  BY <1>4, <1>5

\* Only a client that has nothing obtains a transaction.
LEMMA ObtainsFirst ==
    ASSUME SolanaInv, [SolanaNext]_solanaVars, ~Have, Have' PROVE Obtain
<1>1. ~(at > 0) /\ ~Idle
  BY Facts DEF Idle
<1>2. ~UNCHANGED solanaVars
  BY DEF Have, solanaVars
<1>3. ~(PushAccount \/ RefuseAccount \/ FinishInsert)
  BY <1>1 DEF PushAccount, RefuseAccount, FinishInsert
<1>4. \A hash, held : ~Resign(hash, held)
  BY <1>1 DEF Resign
<1>5. \A k, signature : ~Cosign(k, signature)
  BY <1>1 DEF Cosign
<1>6. \A units : ~SetPrice(units) /\ ~SetLimit(units)
  BY <1>1 DEF SetPrice, SetLimit, SetBudget
<1>7. \A k, ix, i : ~SetFeePayer(k) /\ ~BeginInsert(ix, i)
  BY <1>1 DEF SetFeePayer, BeginInsert
<1> QED
  BY <1>2, <1>3, <1>4, <1>5, <1>6, <1>7 DEF SolanaNext

\* A transaction that a client has built and signed, or received and signed, lacks
\* only the signatures that are to come from others (tx_signer.rs:26,
\* message_builder.rs:38).
THEOREM OnlyOthersMissing ==
    ASSUME \A b \in Built : Origin(b)
    PROVE  SolanaSpec => OthersSign
<1>1. SolanaInv /\ [SolanaNext]_solanaVars =>
        [~Have /\ Have' => \E b \in Built :
            /\ b.message = message'
            /\ \A i \in DOMAIN slots' :
                slots'[i] = Zero <=> message'.keys[i] \in b.absent]_solanaVars
  <2> SUFFICES ASSUME SolanaInv, [SolanaNext]_solanaVars, ~Have, Have'
               PROVE  \E b \in Built :
                        /\ b.message = message'
                        /\ \A i \in DOMAIN slots' :
                            slots'[i] = Zero <=> message'.keys[i] \in b.absent
    OBVIOUS
  <2>1. PICK b \in Built : message' = b.message /\ slots' = Signed(b.message, b.held)
    BY ObtainsFirst DEF Obtain
  <2>2. Startable(b) /\ Origin(b)
    BY BuiltAssumption
  <2>3. \A i \in DOMAIN slots' : slots'[i] = Zero <=> message'.keys[i] \in b.absent
    BY <2>1, <2>2, MissingAbsent
  <2> QED
    BY <2>1, <2>3
<1> QED
  BY <1>1, SolanaInvariant, PTL DEF SolanaSpec, OthersSign

\* A message advances a nonce first when its first instruction was asked to.
LEMMA FirstAsked ==
    ASSUME NEW m, NEW list, Right(m, list)
    PROVE  AdvancesNonce(m) <=>
                list # <<>> /\ list[1].program = System /\ list[1].data = Advance
<1>1. /\ m.ixs \in Seq(CompiledInstruction) /\ list \in Seq(Asked) /\ Len(list) = Len(m.ixs)
      /\ MeansAsked(m, list) /\ Sound(m) /\ m \in Message
  BY MessageParts DEF Right
<1>2. list = <<>> <=> m.ixs = <<>>
  BY <1>1
<1>3. CASE m.ixs # <<>>
  <2>1. 1 \in DOMAIN m.ixs
    BY <1>1, <1>3
  <2>2. /\ Meaning(m, m.ixs[1]).program = list[1].program
        /\ Meaning(m, m.ixs[1]).data = list[1].data
    BY <1>1, <2>1 DEF MeansAsked
  <2>3. m.ixs[1].program <= Len(m.keys)
    <3>1. m.ixs[1].program \in 1 .. Len(m.keys) /\ Len(m.keys) \in Nat
      BY <1>1, <2>1, MessageParts DEF Sound
    <3> QED
      BY <3>1
  <2>4. list[1].program = m.keys[m.ixs[1].program] /\ list[1].data = m.ixs[1].data
    BY <2>2, <2>3 DEF Meaning, AddressAt
  <2> QED
    BY <1>2, <1>3, <2>4 DEF AdvancesNonce
<1> QED
  BY <1>2, <1>3 DEF AdvancesNonce

\* What is inserted behind the first leaves it.
LEMMA FirstKept ==
    ASSUME NEW S, NEW s \in Seq(S), NEW e \in S, s # <<>>,
           NEW p \in 1 .. Len(s) + 1, p # 1
    PROVE  InsertAt(s, p, e) # <<>> /\ InsertAt(s, p, e)[1] = s[1]
<1> DEFINE t == InsertAt(s, p, e)
<1>1. IsInserted(S, t, s, p, e)
  BY Inserted
<1> HIDE DEF t
<1>2. /\ Len(s) \in Nat /\ p \in Nat /\ 1 < p
  OBVIOUS
<1>3. Len(t) = Len(s) + 1 /\ t[1] = s[1]
  <2>1. 1 \in 1 .. Len(s) + 1
    BY <1>2
  <2> QED
    BY <1>1, <1>2, <2>1 DEF IsInserted
<1>4. t # <<>>
  <2>1. Len(t) # 0
    BY <1>2, <1>3
  <2> QED
    BY <2>1
<1> QED
  BY <1>3, <1>4 DEF t

\* An input that advances a nonce does it first, or after a token transfer to the fee
\* payer (message_builder.rs:152).
LEMMA StartsWithNonce ==
    ASSUME NEW b, Startable(b), Origin(b),
           \E i \in DOMAIN b.message.ixs : b.message.ixs[i].data = Advance
    PROVE  AdvancesNonce(b.message) \/ b.asked[1].data[1] = "transferChecked"
<1>1. CASE ~\E q \in SigningInput, hash \in Nat : b = FromInput(q, hash)
  BY <1>1 DEF Origin, Elsewhere
<1>2. ASSUME NEW q \in SigningInput, NEW hash \in Nat, b = FromInput(q, hash)
      PROVE  AdvancesNonce(b.message) \/ b.asked[1].data[1] = "transferChecked"
  <2> DEFINE ixs == Instructions(q)
  <2>1. /\ ixs \in Seq(Instruction) /\ DOMAIN ixs = 1 .. Len(ixs) /\ Len(ixs) \in Nat
        /\ \A i \in DOMAIN ixs : ixs[i].data = Advance => q.nonce # "none"
    BY InstructionsIssued, IssuedParts
  <2>2. b.message = Build(FeePayer(q), ixs, hash) /\ b.asked = AskedBy(ixs)
    BY <1>2 DEF FromInput
  <2>3. q.nonce # "none" =>
            /\ ixs # <<>>
            /\ IF q.tokenToPayer THEN ixs[1].data = <<"transferChecked", 0>>
               ELSE ixs[1].program = System /\ ixs[1].data = Advance
    BY BeginsWithNonce
  <2> HIDE DEF ixs
  <2>4. /\ DOMAIN b.message.ixs = DOMAIN ixs
        /\ \A i \in DOMAIN ixs : b.message.ixs[i].data = ixs[i].data
    <3> DEFINE m == Build(FeePayer(q), ixs, hash)
    <3>1. m.ixs = [i \in DOMAIN ixs |-> Compile(m.keys, ixs[i])]
      BY DEF Build
    <3> HIDE DEF m
    <3>2. DOMAIN m.ixs = DOMAIN ixs /\ \A i \in DOMAIN ixs : m.ixs[i].data = ixs[i].data
      BY <3>1 DEF Compile
    <3> QED
      BY <2>2, <3>2 DEF m
  <2>5. q.nonce # "none"
    BY <2>1, <2>4
  <2>6. 1 \in DOMAIN ixs
    BY <2>1, <2>3, <2>5
  <2>7. /\ b.asked[1].program = ixs[1].program /\ b.asked[1].data = ixs[1].data
        /\ DOMAIN b.asked = DOMAIN ixs
    BY <2>2, <2>6 DEF AskedBy
  <2>8. CASE q.tokenToPayer
    BY <2>3, <2>5, <2>7, <2>8
  <2>9. CASE ~q.tokenToPayer
    <3>1. b.asked # <<>>
      BY <2>6, <2>7
    <3>2. Right(b.message, b.asked)
      BY DEF Startable, Right
    <3>3. b.asked[1].program = System /\ b.asked[1].data = Advance
      BY <2>3, <2>5, <2>7, <2>9
    <3> QED
      BY <3>1, <3>2, <3>3, FirstAsked
  <2> QED
    BY <2>8, <2>9
<1> QED
  BY <1>1, <1>2

\* What the invariant says of the message after a step.
LEMMA RightAfter == ASSUME SolanaInv', Have' PROVE Right(message', asked')
<1>1. SolanaTypeOK' /\ MeansAsAsked' /\ PrivilegesEnough'
  BY DEF SolanaInv
<1>2. /\ message' \in Message /\ Sound(message')
      /\ asked' \in Seq(Asked) /\ Len(asked') = Len(message'.ixs)
  BY <1>1 DEF SolanaTypeOK
<1>3. MeansAsked(message', asked') /\ AllGranted(message', asked')
  BY <1>1 DEF MeansAsAsked, PrivilegesEnough
<1> QED
  BY <1>2, <1>3 DEF Right

\* Setting the compute budget leaves an advance of the nonce first (utils.rs:152).
LEMMA BudgetBehindNonce ==
    ASSUME SolanaInv, Have, SolanaInv', Have', AdvancesNonce(message),
           NEW kind \in {"price", "limit"}, NEW units \in BudgetValues,
           NEW where \in 1 .. Len(message.ixs) + 1, where # 1,
           SetBudget(kind, units, where)
    PROVE  AdvancesNonce(message')
<1> DEFINE found == Budgets(message, kind)
           data == <<kind, units>>
           e == [program |-> Budget, accounts |-> <<>>, data |-> data, overtaken |-> FALSE]
<1>1. Right(message, asked) /\ asked # <<>> /\ asked[1].program = System /\ asked[1].data = Advance
  BY Facts, FirstAsked
<1>2. Right(message', asked')
  BY RightAfter
<1>3. CASE found # {}
  <2>1. asked' = [asked EXCEPT ![Min(found)].data = data]
    BY <1>3 DEF SetBudget
  <2>2. Min(found) \in found
    <3>1. found \subseteq Nat
      BY <1>1, MessageParts DEF Right, Budgets
    <3> QED
      BY <1>3, <3>1, FirstFound
  <2>3. Min(found) # 1
    BY <2>2 DEF Budgets, AdvancesNonce
  <2> HIDE DEF found, data
  <2>4. asked' # <<>> /\ asked'[1] = asked[1]
    BY <1>1, <2>1, <2>3 DEF Right
  <2> QED
    BY <1>1, <1>2, <2>4, FirstAsked
<1>4. CASE found = {}
  <2>1. asked' = InsertAt(asked, where, e)
    BY <1>4 DEF SetBudget
  <2>2. asked \in Seq(Asked) /\ Len(asked) = Len(message.ixs)
    BY <1>1 DEF Right
  <2>3. e \in Asked
    <3>1. data \in Data /\ Budget \in Addresses /\ <<>> \in Seq(AccountMeta)
      BY SolanaAssumption, FewAccounts
    <3> QED
      BY <3>1 DEF Asked
  <2> HIDE DEF e
  <2>4. asked' # <<>> /\ asked'[1] = asked[1]
    BY <1>1, <2>1, <2>2, <2>3, FirstKept
  <2> QED
    BY <1>1, <1>2, <2>4, FirstAsked
<1> QED
  BY <1>3, <1>4

\* A step of a client that has a transaction leaves its advance of the nonce first,
\* unless the client inserts an instruction before it.
LEMMA NonceLeft ==
    ASSUME SolanaInv, [SolanaNext]_solanaVars, Have, AdvancesNonce(message), at # 1
    PROVE  AdvancesNonce(message')
<1>1. /\ Right(message, asked) /\ asked # <<>>
      /\ asked[1].program = System /\ asked[1].data = Advance
  BY Facts, FirstAsked
<1>2. SolanaInv' /\ SamePrivileges(message, message')
  BY SolanaStep
<1>3. Have'
  <2>1. /\ message \in Message /\ Sound(message)
    BY <1>1 DEF Right
  <2>2. DOMAIN message.keys # {}
    <3>1. Len(message.keys) \in Nat /\ DOMAIN message.keys = 1 .. Len(message.keys)
          /\ message.keys # <<>>
      BY <2>1, MessageParts, SoundIsMessage
    <3> QED
      BY <3>1
  <2>3. DOMAIN message'.keys # {}
    BY <1>2, <2>2 DEF SamePrivileges
  <2> QED
    BY <2>3 DEF Have, NoMessage
<1>4. Right(message', asked')
  BY <1>2, <1>3, RightAfter
<1>5. /\ asked \in Seq(Asked) /\ Len(asked) = Len(message.ixs) /\ Len(asked) \in Nat
      /\ Len(asked) # 0
  BY <1>1 DEF Right
<1>6. asked' = asked => AdvancesNonce(message')
  BY <1>1, <1>4, FirstAsked
<1>7. CASE UNCHANGED solanaVars
  BY <1>6, <1>7 DEF solanaVars
<1>8. CASE Obtain
  BY <1>8 DEF Obtain
<1>9. ASSUME NEW hash, NEW held, Resign(hash, held) PROVE AdvancesNonce(message')
  BY <1>6, <1>9 DEF Resign
<1>10. ASSUME NEW k, NEW signature, Cosign(k, signature) PROVE AdvancesNonce(message')
  BY <1>6, <1>10 DEF Cosign
<1>11. ASSUME NEW units \in BudgetValues, SetPrice(units) \/ SetLimit(units)
       PROVE  AdvancesNonce(message')
  <2>1. CASE SetPrice(units)
    <3>1. Len(message.ixs) + 1 \in 1 .. Len(message.ixs) + 1 /\ Len(message.ixs) + 1 # 1
      BY <1>5
    <3> QED
      BY <1>2, <1>3, <2>1, <3>1, BudgetBehindNonce DEF SetPrice
  <2>2. CASE SetLimit(units)
    <3>1. LimitPlace(message) = 2 /\ 2 \in 1 .. Len(message.ixs) + 1 /\ 2 # 1
      BY <1>5 DEF LimitPlace
    <3>2. SetBudget("limit", units, 2)
      BY <2>2, <3>1 DEF SetLimit
    <3> QED
      BY <1>2, <1>3, <3>1, <3>2, BudgetBehindNonce
  <2> QED
    BY <1>11, <2>1, <2>2
<1>12. ASSUME NEW k, SetFeePayer(k) PROVE AdvancesNonce(message')
  BY <1>6, <1>12 DEF SetFeePayer
<1>13. ASSUME NEW ix, NEW i, BeginInsert(ix, i) PROVE AdvancesNonce(message')
  BY <1>6, <1>13 DEF BeginInsert
<1>14. CASE PushAccount \/ RefuseAccount
  BY <1>6, <1>14 DEF PushAccount, RefuseAccount
<1>15. CASE FinishInsert
  <2> DEFINE e == [program |-> inserting.program, accounts |-> inserting.accounts,
                   data |-> inserting.data, overtaken |-> overtaken]
  <2>1. asked' = InsertAt(asked, at, e)
    BY <1>15 DEF FinishInsert
  <2>2. inserting \in Instruction /\ overtaken \in BOOLEAN /\ at \in 0 .. Len(message.ixs) + 1
    BY DEF SolanaInv, SolanaTypeOK
  <2>3. e \in Asked
    BY <2>2 DEF Instruction, Asked
  <2>4. at \in 1 .. Len(asked) + 1
    BY <1>5, <1>15, <2>2 DEF FinishInsert
  <2> HIDE DEF e
  <2>5. asked' # <<>> /\ asked'[1] = asked[1]
    BY <1>1, <1>5, <2>1, <2>3, <2>4, FirstKept
  <2> QED
    BY <1>1, <1>4, <2>5, FirstAsked
<1> QED
  BY <1>7, <1>8, <1>9, <1>10, <1>11, <1>12, <1>13, <1>14, <1>15 DEF SolanaNext

\* utils.rs:152: a transaction with a nonce starts with its advance, and setting the
\* compute budget, the blockhash or the payer leaves it first.
THEOREM NonceIsFirst ==
    ASSUME \A b \in Built : Origin(b)
    PROVE  SolanaSpec => NonceStaysFirst
<1>1. SolanaInv /\ [SolanaNext]_solanaVars =>
        [IF Have
         THEN AdvancesNonce(message) /\ at # 1 => AdvancesNonce(message')
         ELSE Have' /\ (\E i \in DOMAIN message'.ixs : message'.ixs[i].data = Advance) =>
                AdvancesNonce(message') \/ asked'[1].data[1] = "transferChecked"]_solanaVars
  <2>1. ASSUME SolanaInv, [SolanaNext]_solanaVars, ~Have, Have',
               \E i \in DOMAIN message'.ixs : message'.ixs[i].data = Advance
        PROVE  AdvancesNonce(message') \/ asked'[1].data[1] = "transferChecked"
    <3>1. PICK b \in Built : message' = b.message /\ asked' = b.asked
      BY <2>1, ObtainsFirst DEF Obtain
    <3>2. Startable(b) /\ Origin(b)
      BY BuiltAssumption
    <3>3. AdvancesNonce(b.message) \/ b.asked[1].data[1] = "transferChecked"
      BY <2>1, <3>1, <3>2, StartsWithNonce
    <3> QED
      BY <3>1, <3>3
  <2> QED
    BY <2>1, NonceLeft
<1> QED
  BY <1>1, SolanaInvariant, PTL DEF SolanaSpec, NonceStaysFirst
=============================================================================
