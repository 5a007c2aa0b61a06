------------------------- MODULE HidPeripheralProofs -------------------------
(***************************************************************************)
(* The bond store of a HID peripheral is to be trusted when its chip       *)
(* advertises: what is in the EEPROM and what was written back to the chip *)
(* are whole messages of the peer's bond, for any sizes of the messages    *)
(* and wherever power is lost but in the first saving.                     *)
(*                                                                         *)
(* A list of writes and the places of messages are recursive functions; an *)
(* induction over Nat (SetInduction) says what they are.  The rest follows *)
(* the turn of module Nrf8001Proofs: the one command or event that has the *)
(* turn says how far saving or restoring has come.                         *)
(*                                                                         *)
(* And what the host sees pressed is what the sketch holds: the packets    *)
(* that are queued and taken, the data commands in tx and the chip's       *)
(* buffers are shown to agree at each step.                                *)
(***************************************************************************)
EXTENDS HidPeripheral, Nrf8001Proofs

Offsets == INSTANCE Iteration WITH Step <- OffsetAfter

------------------------------------------------------------------------------
(* What a list of writes leaves: the store after each of them.             *)
LEMMA WritesRecursion ==
  ASSUME NEW store, NEW writes
  PROVE  \A n \in Nat :
           \E f : f = [i \in 0 .. n |-> IF i = 0 THEN store
                                        ELSE WrittenTo(f[i - 1], writes[i])]
<1> DEFINE Is(f, n) == f = [i \in 0 .. n |-> IF i = 0 THEN store
                                             ELSE WrittenTo(f[i - 1], writes[i])]
           T == {n \in Nat : \E f : Is(f, n)}
<1>1. 0 \in T
  <2>1. Is([i \in 0 .. 0 |-> store], 0)
    OBVIOUS
  <2>2. QED
    BY <2>1
<1>2. ASSUME NEW n \in Nat, n \in T PROVE n + 1 \in T
  <2>1. PICK f : Is(f, n)
    BY <1>2
  <2> DEFINE g == [i \in 0 .. n + 1 |-> IF i <= n THEN f[i]
                                        ELSE WrittenTo(f[n], writes[n + 1])]
  <2>2. \A i \in 0 .. n : g[i] = f[i]
    OBVIOUS
  <2>3. g[n + 1] = WrittenTo(f[n], writes[n + 1])
    OBVIOUS
  <2>4. \A i \in 0 .. n : f[i] = IF i = 0 THEN store ELSE WrittenTo(f[i - 1], writes[i])
    BY <2>1
  <2>5. g = [i \in 0 .. n + 1 |-> g[i]]
    OBVIOUS
  <2> HIDE DEF g
  <2>6. \A i \in 0 .. n + 1 : g[i] = IF i = 0 THEN store ELSE WrittenTo(g[i - 1], writes[i])
    <3> TAKE i \in 0 .. n + 1
    <3>1. CASE i = n + 1
      BY <2>2, <2>3, <3>1
    <3>2. CASE i \in 1 .. n
      <4>1. i - 1 \in 0 .. n
        BY <3>2
      <4>2. QED
        BY <2>2, <2>4, <3>2, <4>1
    <3>3. CASE i = 0
      BY <2>2, <2>4, <3>3
    <3>4. QED
      BY <3>1, <3>2, <3>3
  <2>7. Is(g, n + 1)
    BY <2>5, <2>6
  <2>8. QED
    BY <2>7
<1> HIDE DEF T
<1>3. \A n \in Nat : n \in T
  BY <1>1, <1>2, SetInduction
<1>4. QED
  BY <1>3 DEF T

LEMMA WritesFacts ==
  ASSUME NEW store, NEW writes, Len(writes) \in Nat
  PROVE  \E f : /\ AfterWrites(store, writes) = f[Len(writes)]
                /\ f[0] = store
                /\ \A i \in 1 .. Len(writes) : f[i] = WrittenTo(f[i - 1], writes[i])
<1> DEFINE L == Len(writes)
           Is(f) == f = [i \in 0 .. L |-> IF i = 0 THEN store
                                          ELSE WrittenTo(f[i - 1], writes[i])]
           g == CHOOSE f : Is(f)
<1>1. Is(g)
  <2>1. \E f : Is(f)
    BY WritesRecursion
  <2> HIDE DEF Is
  <2>2. QED
    BY <2>1
<1>2. AfterWrites(store, writes) = g[L]
  BY DEF AfterWrites
<1> HIDE DEF g
<1>3. QED
  BY <1>1, <1>2

(* The places of a bond's messages: they follow each other, and all of     *)
(* them are in the EEPROM.                                                 *)
LEMMA PlaceRecursion ==
  ASSUME NEW bond, NEW n \in Nat
  PROVE  \E f : f = [i \in 1 .. n + 1 |-> IF i = 1 THEN 0
                                          ELSE f[i - 1] + 1 + Sizes[bond][i - 1]]
<1> DEFINE Is(f, m) == f = [i \in 1 .. m + 1 |-> IF i = 1 THEN 0
                                                 ELSE f[i - 1] + 1 + Sizes[bond][i - 1]]
           T == {m \in Nat : \E f : Is(f, m)}
<1>1. 0 \in T
  <2>1. Is([i \in 1 .. 0 + 1 |-> 0], 0)
    OBVIOUS
  <2>2. QED
    BY <2>1
<1>2. ASSUME NEW m \in Nat, m \in T PROVE m + 1 \in T
  <2>1. PICK f : Is(f, m)
    BY <1>2
  <2> DEFINE g == [i \in 1 .. (m + 1) + 1 |-> IF i <= m + 1 THEN f[i]
                                              ELSE f[m + 1] + 1 + Sizes[bond][m + 1]]
  <2>2. \A i \in 1 .. m + 1 : g[i] = f[i]
    OBVIOUS
  <2>3. g[m + 2] = f[m + 1] + 1 + Sizes[bond][m + 1]
    OBVIOUS
  <2>4. \A i \in 1 .. m + 1 : f[i] = IF i = 1 THEN 0 ELSE f[i - 1] + 1 + Sizes[bond][i - 1]
    BY <2>1
  <2>5. g = [i \in 1 .. (m + 1) + 1 |-> g[i]]
    OBVIOUS
  <2> HIDE DEF g
  <2>6. \A i \in 1 .. (m + 1) + 1 :
          g[i] = IF i = 1 THEN 0 ELSE g[i - 1] + 1 + Sizes[bond][i - 1]
    <3> TAKE i \in 1 .. (m + 1) + 1
    <3>1. CASE i = m + 2
      BY <2>2, <2>3, <3>1
    <3>2. CASE i \in 2 .. m + 1
      <4>1. i - 1 \in 1 .. m + 1
        BY <3>2
      <4>2. QED
        BY <2>2, <2>4, <3>2, <4>1
    <3>3. CASE i = 1
      BY <2>2, <2>4, <3>3
    <3>4. QED
      BY <3>1, <3>2, <3>3
  <2>7. Is(g, m + 1)
    BY <2>5, <2>6
  <2>8. QED
    BY <2>7
<1> HIDE DEF T
<1>3. \A m \in Nat : m \in T
  BY <1>1, <1>2, SetInduction
<1>4. QED
  BY <1>3 DEF T

LEMMA PlaceSteps ==
  ASSUME NEW bond, Len(Sizes[bond]) \in Nat
  PROVE  /\ Place(bond)[1] = 0
         /\ \A i \in 1 .. Len(Sizes[bond]) :
              Place(bond)[i + 1] = Place(bond)[i] + 1 + Sizes[bond][i]
<1> DEFINE L == Len(Sizes[bond])
           Is(f) == f = [i \in 1 .. L + 1 |-> IF i = 1 THEN 0
                                              ELSE f[i - 1] + 1 + Sizes[bond][i - 1]]
           g == CHOOSE f : Is(f)
<1>1. Is(g)
  <2>1. \E f : Is(f)
    BY PlaceRecursion
  <2> HIDE DEF Is
  <2>2. QED
    BY <2>1
<1>2. Place(bond) = g
  BY DEF Place
<1> HIDE DEF g
<1>3. g[1] = 0
  BY <1>1
<1>4. ASSUME NEW i \in 1 .. L PROVE g[i + 1] = g[i] + 1 + Sizes[bond][i]
  <2>1. i + 1 \in 1 .. L + 1 /\ i + 1 # 1 /\ (i + 1) - 1 = i
    OBVIOUS
  <2>2. QED
    BY <1>1, <2>1
<1>5. QED
  BY <1>2, <1>3, <1>4

(* The bonds there may be.                                                 *)
Bonds == 1 .. MaxBonds

LEMMA SizesFacts ==
  ASSUME NEW b \in Bonds
  PROVE  /\ \A i \in 1 .. Chunks : Sizes[b][i] \in Nat /\ Sizes[b][i] > 0
         /\ Len(Sizes[b]) = Chunks /\ Chunks \in Nat /\ Chunks > 0 /\ EepromSize \in Nat
         /\ Place(b)[Chunks + 1] <= EepromSize
<1>1. b \in DOMAIN Sizes /\ Len(Sizes[b]) = Chunks
  BY BondsAssumption DEF Bonds
<1>2. \A i \in 1 .. Chunks : Sizes[b][i] \in Nat \ {0}
  BY <1>1, SizesAssumption
<1>3. QED
  BY <1>1, <1>2, SizesAssumption, ChunksAssumption, EepromSizeAssumption

LEMMA PlaceFacts ==
  ASSUME NEW b \in Bonds
  PROVE  /\ Place(b)[1] = 0
         /\ \A i \in 1 .. Chunks :
              /\ Place(b)[i] \in Nat
              /\ Place(b)[i + 1] = Place(b)[i] + 1 + Sizes[b][i]
              /\ Place(b)[i] + Sizes[b][i] < EepromSize
         /\ \A i, j \in 1 .. Chunks : i < j => Place(b)[i] + Sizes[b][i] < Place(b)[j]
<1> DEFINE P == Place(b)
<1>1. /\ P[1] = 0 /\ Chunks \in Nat /\ Chunks > 0 /\ EepromSize \in Nat
      /\ P[Chunks + 1] <= EepromSize
      /\ \A i \in 1 .. Chunks :
           /\ P[i + 1] = P[i] + 1 + Sizes[b][i]
           /\ Sizes[b][i] \in Nat
  BY SizesFacts, PlaceSteps
<1> HIDE DEF P
<1>2. \A i \in 1 .. Chunks + 1 : P[i] \in Nat
  <2> DEFINE T == {n \in Nat : n <= Chunks => P[n + 1] \in Nat}
  <2>1. 0 \in T
    BY <1>1
  <2>2. ASSUME NEW n \in Nat, n \in T PROVE n + 1 \in T
    <3>1. CASE n + 1 <= Chunks
      <4>1. n + 1 \in 1 .. Chunks
        BY <3>1
      <4>2. P[n + 1] \in Nat
        BY <1>1, <2>2, <3>1
      <4>3. P[(n + 1) + 1] = P[n + 1] + 1 + Sizes[b][n + 1] /\ Sizes[b][n + 1] \in Nat
        BY <1>1, <4>1
      <4>4. QED
        BY <4>2, <4>3
    <3>2. CASE ~(n + 1 <= Chunks)
      BY <3>2
    <3>3. QED
      BY <3>1, <3>2
  <2> HIDE DEF T
  <2>3. \A n \in Nat : n \in T
    BY <2>1, <2>2, SetInduction
  <2>4. ASSUME NEW i \in 1 .. Chunks + 1 PROVE P[i] \in Nat
    <3>1. i - 1 \in Nat /\ i - 1 <= Chunks /\ (i - 1) + 1 = i
      BY <1>1
    <3>2. i - 1 \in T
      BY <2>3, <3>1
    <3>3. QED
      BY <3>1, <3>2 DEF T
  <2>5. QED
    BY <2>4
<1>3. ASSUME NEW i \in 1 .. Chunks
      PROVE  \A n \in Nat : i + 1 + n <= Chunks + 1 => P[i + 1] <= P[i + 1 + n]
  <2> DEFINE T == {n \in Nat : i + 1 + n <= Chunks + 1 => P[i + 1] <= P[i + 1 + n]}
  <2>0. i + 1 \in 1 .. Chunks + 1 /\ P[i + 1] \in Nat /\ i + 1 + 0 = i + 1
    BY <1>1, <1>2
  <2>1. 0 \in T
    BY <2>0
  <2>2. ASSUME NEW n \in Nat, n \in T PROVE n + 1 \in T
    <3>1. CASE i + 1 + (n + 1) <= Chunks + 1
      <4>1. i + 1 + n \in 1 .. Chunks
        BY <1>1, <3>1
      <4>2. P[i + 1] <= P[i + 1 + n]
        BY <1>1, <2>2, <3>1
      <4>3. P[(i + 1 + n) + 1] = P[i + 1 + n] + 1 + Sizes[b][i + 1 + n]
            /\ Sizes[b][i + 1 + n] \in Nat /\ P[i + 1 + n] \in Nat
        BY <1>1, <1>2, <4>1
      <4>4. i + 1 + (n + 1) = (i + 1 + n) + 1
        OBVIOUS
      <4>5. QED
        BY <2>0, <4>2, <4>3, <4>4
    <3>2. CASE ~(i + 1 + (n + 1) <= Chunks + 1)
      BY <3>2
    <3>3. QED
      BY <3>1, <3>2
  <2> HIDE DEF T
  <2>3. \A n \in Nat : n \in T
    BY <2>1, <2>2, SetInduction
  <2>4. QED
    BY <2>3 DEF T
<1>4. ASSUME NEW i \in 1 .. Chunks, NEW j \in i + 1 .. Chunks + 1 PROVE P[i + 1] <= P[j]
  <2>1. j - (i + 1) \in Nat /\ i + 1 + (j - (i + 1)) = j /\ j <= Chunks + 1
    BY <1>1
  <2>2. QED
    BY <1>3, <2>1
<1>5. ASSUME NEW i \in 1 .. Chunks PROVE P[i] + Sizes[b][i] < EepromSize
  <2>1. P[i + 1] <= P[Chunks + 1] /\ P[Chunks + 1] \in Nat
    BY <1>1, <1>2, <1>4
  <2>2. P[i] \in Nat /\ Sizes[b][i] \in Nat /\ P[i + 1] = P[i] + 1 + Sizes[b][i]
    BY <1>1, <1>2
  <2>3. QED
    BY <1>1, <2>1, <2>2
<1>6. ASSUME NEW i \in 1 .. Chunks, NEW j \in 1 .. Chunks, i < j
      PROVE  P[i] + Sizes[b][i] < P[j]
  <2>1. P[i + 1] <= P[j] /\ P[j] \in Nat
    BY <1>1, <1>2, <1>4, <1>6
  <2>2. P[i] \in Nat /\ Sizes[b][i] \in Nat /\ P[i + 1] = P[i] + 1 + Sizes[b][i]
    BY <1>1, <1>2
  <2>3. QED
    BY <2>1, <2>2
<1>7. QED
  BY <1>1, <1>2, <1>5, <1>6 DEF P


(* An EEPROM, and what a list of writes leaves in it.                      *)
Eeprom(store) ==
  /\ store = [flag |-> store.flag, bytes |-> store.bytes] /\ store.flag \in BOOLEAN
  /\ store.bytes = [a \in 0 .. EepromSize - 1 |-> store.bytes[a]]

IsByte(write) == write[1] # "flag"
(* The writes to a byte among the first n.                                 *)
Hits(writes, n, a) == {j \in 1 .. n : IsByte(writes[j]) /\ writes[j][2] = a}

LEMMA WrittenFacts ==
  ASSUME NEW store, Eeprom(store), NEW write
  PROVE  /\ Eeprom(WrittenTo(store, write))
         /\ WrittenTo(store, write).flag <=> store.flag \/ ~IsByte(write)
         /\ \A a \in 0 .. EepromSize - 1 :
              WrittenTo(store, write).bytes[a]
                = IF IsByte(write) /\ write[2] = a THEN write[3] ELSE store.bytes[a]
<1> DEFINE r == WrittenTo(store, write)
<1>1. CASE IsByte(write)
  <2> DEFINE bytes == [store.bytes EXCEPT ![write[2]] = write[3]]
  <2>1. r = [store EXCEPT !.bytes = bytes]
    BY <1>1 DEF WrittenTo, IsByte, Eeprom
  <2>2. bytes = [a \in 0 .. EepromSize - 1 |->
                   IF write[2] = a THEN write[3] ELSE store.bytes[a]]
    BY DEF Eeprom
  <2> HIDE DEF bytes
  <2>3. r = [flag |-> store.flag, bytes |-> bytes] /\ store.flag \in BOOLEAN
    BY <2>1 DEF Eeprom
  <2>4. r.flag = store.flag /\ r.bytes = bytes
    BY <2>3
  <2> HIDE DEF r
  <2>5. QED
    BY <1>1, <2>2, <2>3, <2>4 DEF Eeprom, r
<1>2. CASE ~IsByte(write)
  <2>1. r = [store EXCEPT !.flag = TRUE]
    BY <1>2 DEF WrittenTo, IsByte
  <2>2. r = [flag |-> TRUE, bytes |-> store.bytes]
    BY <2>1 DEF Eeprom
  <2>3. r.flag = TRUE /\ r.bytes = store.bytes
    BY <2>2
  <2>4. QED
    BY <1>2, <2>2, <2>3 DEF Eeprom
<1>3. QED
  BY <1>1, <1>2

LEMMA AfterWritesFacts ==
  ASSUME NEW store, Eeprom(store), NEW writes, Len(writes) \in Nat
  PROVE  /\ Eeprom(AfterWrites(store, writes))
         /\ AfterWrites(store, writes).flag
              <=> store.flag \/ \E i \in 1 .. Len(writes) : ~IsByte(writes[i])
         /\ \A a \in 0 .. EepromSize - 1 :
              IF Hits(writes, Len(writes), a) = {}
              THEN AfterWrites(store, writes).bytes[a] = store.bytes[a]
              ELSE \E j \in Hits(writes, Len(writes), a) :
                     AfterWrites(store, writes).bytes[a] = writes[j][3]
<1> DEFINE L == Len(writes)
<1>1. PICK f : /\ AfterWrites(store, writes) = f[L] /\ f[0] = store
               /\ \A i \in 1 .. L : f[i] = WrittenTo(f[i - 1], writes[i])
  BY WritesFacts
<1> DEFINE Good(n) ==
             /\ Eeprom(f[n])
             /\ f[n].flag <=> store.flag \/ \E i \in 1 .. n : ~IsByte(writes[i])
             /\ \A a \in 0 .. EepromSize - 1 :
                  IF Hits(writes, n, a) = {} THEN f[n].bytes[a] = store.bytes[a]
                  ELSE \E j \in Hits(writes, n, a) : f[n].bytes[a] = writes[j][3]
           T == {n \in Nat : n <= L => Good(n)}
<1>2. 0 \in T
  <2>1. \A a : Hits(writes, 0, a) = {}
    BY DEF Hits
  <2>2. Good(0)
    BY <1>1, <2>1
  <2>3. QED
    BY <2>2
<1>3. ASSUME NEW n \in Nat, n \in T PROVE n + 1 \in T
  <2>1. SUFFICES ASSUME n + 1 <= L PROVE Good(n + 1)
    OBVIOUS
  <2>2. Good(n)
    BY <1>3, <2>1
  <2>3. f[n + 1] = WrittenTo(f[n], writes[n + 1])
    <3>1. n + 1 \in 1 .. L /\ (n + 1) - 1 = n
      BY <2>1
    <3>2. QED
      BY <1>1, <3>1
  <2> DEFINE w == writes[n + 1]
  <2>4. /\ Eeprom(f[n + 1])
        /\ f[n + 1].flag <=> f[n].flag \/ ~IsByte(w)
        /\ \A a \in 0 .. EepromSize - 1 :
             f[n + 1].bytes[a] = IF IsByte(w) /\ w[2] = a THEN w[3] ELSE f[n].bytes[a]
    <3>1. Eeprom(f[n])
      BY <2>2
    <3> DEFINE store1 == f[n]
               r == WrittenTo(store1, w)
    <3>2. Eeprom(store1)
      BY <3>1
    <3> HIDE DEF w, Good, store1
    <3>3. /\ Eeprom(r)
          /\ r.flag <=> store1.flag \/ ~IsByte(w)
          /\ \A a \in 0 .. EepromSize - 1 :
               r.bytes[a] = IF IsByte(w) /\ w[2] = a THEN w[3] ELSE store1.bytes[a]
      BY <3>2, WrittenFacts
    <3>4. f[n + 1] = r
      BY <2>3 DEF w, store1
    <3> HIDE DEF r
    <3>5. QED
      BY <3>3, <3>4 DEF store1
  <2>5. \A i : i \in 1 .. n + 1 <=> i \in 1 .. n \/ i = n + 1
    OBVIOUS
  <2>6. f[n + 1].flag <=> store.flag \/ \E i \in 1 .. n + 1 : ~IsByte(writes[i])
    BY <2>2, <2>4, <2>5
  <2>7. ASSUME NEW a \in 0 .. EepromSize - 1
        PROVE  IF Hits(writes, n + 1, a) = {} THEN f[n + 1].bytes[a] = store.bytes[a]
               ELSE \E j \in Hits(writes, n + 1, a) : f[n + 1].bytes[a] = writes[j][3]
    <3>1. CASE IsByte(w) /\ w[2] = a
      <4>1. n + 1 \in Hits(writes, n + 1, a)
        BY <2>5, <3>1 DEF Hits
      <4>2. f[n + 1].bytes[a] = writes[n + 1][3]
        BY <2>4, <3>1
      <4>3. QED
        BY <4>1, <4>2
    <3>2. CASE ~(IsByte(w) /\ w[2] = a)
      <4>1. Hits(writes, n + 1, a) = Hits(writes, n, a)
        BY <2>5, <3>2 DEF Hits
      <4>2. f[n + 1].bytes[a] = f[n].bytes[a]
        BY <2>4, <3>2
      <4>3. QED
        BY <2>2, <4>1, <4>2
    <3>3. QED
      BY <3>1, <3>2
  <2>8. QED
    BY <2>4, <2>6, <2>7
<1> HIDE DEF T
<1>4. \A n \in Nat : n \in T
  BY <1>2, <1>3, SetInduction
<1>5. Good(L)
  BY <1>4 DEF T
<1>6. QED
  BY <1>1, <1>5

(* The writes of a message: the flag, its size, the flag, its bytes.       *)
Puts(writes, bond, version, i, from) ==
  /\ IsQueue(writes) /\ Len(writes) = Sizes[bond][i] + 3
  /\ ~IsByte(writes[1]) /\ ~IsByte(writes[3])
  /\ writes[2] = <<"byte", from, <<bond, version, i, 0>> >>
  /\ \A k \in 4 .. Sizes[bond][i] + 3 :
       writes[k] = <<"byte", from + (k - 3), <<bond, version, i, k - 3>> >>

LEMMA PutFacts ==
  ASSUME NEW bond, NEW version, NEW i, Sizes[bond][i] \in Nat, Sizes[bond][i] > 0,
         NEW from \in Nat
  PROVE  Puts(MessagePut(Message(bond, version, i), from), bond, version, i, from)
<1> DEFINE n == Sizes[bond][i]
           b == Message(bond, version, i)
           size == << <<bond, version, i, 0>> >>
           head == [k \in DOMAIN size |-> <<"byte", from + k - 1, size[k]>>]
           tail == [k \in DOMAIN b |-> <<"byte", from + 1 + k - 1, b[k]>>]
<1>1. b = [k \in 1 .. n |-> <<bond, version, i, k>>] /\ DOMAIN b = 1 .. n
  BY DEF Message
<1>2. b[1] = <<bond, version, i, 1>>
  BY <1>1
<1>3. << <<b[1][1], b[1][2], b[1][3], 0>> >> = size
  BY <1>2
<1>4. MessagePut(b, from) = (<<Flagged>> \o head) \o (<<Flagged>> \o tail)
  BY <1>3 DEF MessagePut, putData
<1>5. head = << <<"byte", from, <<bond, version, i, 0>> >> >>
  <2>1. DOMAIN size = 1 .. 1 /\ size[1] = <<bond, version, i, 0>> /\ from + 1 - 1 = from
    OBVIOUS
  <2> HIDE DEF size
  <2>2. head = [k \in 1 .. 1 |-> <<"byte", from, <<bond, version, i, 0>> >>]
    BY <2>1
  <2>3. QED
    BY <2>2
<1>6. tail = [k \in 1 .. n |-> <<"byte", from + k, <<bond, version, i, k>> >>]
  <2> HIDE DEF b
  <2>1. \A k \in 1 .. n : from + 1 + k - 1 = from + k
    OBVIOUS
  <2>2. QED
    BY <1>1, <2>1
<1> HIDE DEF head, tail, b, size
<1> HIDE DEF n
<1>7. n \in Nat /\ n > 0
  BY DEF n
<1> DEFINE S == {Flagged, head[1]} \cup {tail[k] : k \in 1 .. n}
<1>8. /\ head \in Seq(S) /\ Len(head) = 1
      /\ head[1] = <<"byte", from, <<bond, version, i, 0>> >>
  BY <1>5
<1>9. tail \in Seq(S) /\ Len(tail) = n
  <2>1. tail = [k \in 1 .. n |-> tail[k]]
    BY <1>6
  <2>2. \A k \in 1 .. n : tail[k] \in S
    OBVIOUS
  <2> HIDE DEF S
  <2>3. tail \in [1 .. n -> S]
    BY <2>1, <2>2
  <2>4. QED
    BY <1>7, <2>3
<1>10. <<Flagged>> \in Seq(S) /\ Len(<<Flagged>>) = 1 /\ <<Flagged>>[1] = Flagged
  OBVIOUS
<1> HIDE DEF S
<1> DEFINE x == <<Flagged>> \o head
           y == <<Flagged>> \o tail
<1>11. x \in Seq(S) /\ Len(x) = 2 /\ x[1] = Flagged /\ x[2] = head[1]
  <2>1. /\ x \in Seq(S) /\ Len(x) = 1 + 1
        /\ \A k \in 1 .. 1 + 1 : x[k] = IF k <= 1 THEN <<Flagged>>[k] ELSE head[k - 1]
    BY <1>8, <1>10, ConcatProperties
  <2> HIDE DEF x
  <2>2. 1 \in 1 .. 1 + 1 /\ 2 \in 1 .. 1 + 1 /\ 1 <= 1 /\ ~(2 <= 1) /\ 2 - 1 = 1
    OBVIOUS
  <2>3. x[1] = <<Flagged>>[1] /\ x[2] = head[1]
    BY <2>1, <2>2
  <2>4. x[1] = Flagged
    BY <1>10, <2>3
  <2>5. QED
    BY <2>1, <2>3, <2>4
<1>12. /\ y \in Seq(S) /\ Len(y) = n + 1 /\ y[1] = Flagged
       /\ \A k \in 1 .. n : y[k + 1] = tail[k]
  <2>1. /\ y \in Seq(S) /\ Len(y) = 1 + n
        /\ \A k \in 1 .. 1 + n : y[k] = IF k <= 1 THEN <<Flagged>>[k] ELSE tail[k - 1]
    BY <1>9, <1>10, ConcatProperties
  <2> HIDE DEF y
  <2>2. /\ 1 \in 1 .. 1 + n
        /\ \A k \in 1 .. n : k + 1 \in 1 .. 1 + n /\ ~(k + 1 <= 1) /\ (k + 1) - 1 = k
    BY <1>7
  <2>3. y[1] = <<Flagged>>[1]
    BY <2>1, <2>2
  <2>4. y[1] = Flagged
    BY <1>10, <2>3
  <2>5. \A k \in 1 .. n : y[k + 1] = tail[k]
    BY <2>1, <2>2
  <2>6. QED
    BY <1>7, <2>1, <2>4, <2>5
<1> DEFINE z == x \o y
<1>13. /\ IsQueue(z) /\ Len(z) = n + 3
       /\ \A k \in 1 .. n + 3 : z[k] = IF k <= 2 THEN x[k] ELSE y[k - 2]
  <2> HIDE DEF x, y
  <2>1. x \in Seq(S) /\ y \in Seq(S)
    BY <1>11, <1>12
  <2>2. /\ z \in Seq(S) /\ Len(z) = Len(x) + Len(y)
        /\ \A k \in 1 .. Len(x) + Len(y) : z[k] = IF k <= Len(x) THEN x[k] ELSE y[k - Len(x)]
    BY <2>1, ConcatProperties
  <2> HIDE DEF z
  <2>3. Len(x) = 2 /\ Len(x) + Len(y) = n + 3
    BY <1>7, <1>11, <1>12
  <2>4. QED
    BY <2>2, <2>3 DEF IsQueue
<1>14. MessagePut(b, from) = z
  BY <1>4
<1> HIDE DEF x, y, z
<1>15. z[1] = Flagged /\ z[2] = head[1] /\ z[3] = Flagged
  BY <1>7, <1>11, <1>12, <1>13
<1>16. ASSUME NEW k \in 4 .. n + 3
       PROVE  z[k] = <<"byte", from + (k - 3), <<bond, version, i, k - 3>> >>
  <2>1. /\ k \in 1 .. n + 3 /\ ~(k <= 2) /\ k - 2 = (k - 3) + 1
        /\ k - 3 \in 1 .. n
    BY <1>7
  <2>2. z[k] = tail[k - 3]
    BY <1>12, <1>13, <2>1
  <2>3. QED
    BY <1>6, <2>1, <2>2
<1>17. ~IsByte(Flagged)
  BY DEF Flagged, IsByte
<1>18. QED
  BY <1>8, <1>13, <1>14, <1>15, <1>16, <1>17 DEF b, n, Puts

(* A message of a bond in the store, its size and its bytes at its place,  *)
(* every one of them that of one of some versions; and the message as it   *)
(* is in the chip, or on its way to it.                                    *)
Laid(store, b, i, vs) ==
  \A j \in 0 .. Sizes[b][i] : \E v \in vs : store.bytes[Place(b)[i] + j] = <<b, v, i, j>>

Part(m, b, i, vs) ==
  /\ m = [k \in 1 .. Sizes[b][i] |-> m[k]]
  /\ \A k \in 1 .. Sizes[b][i] : \E v \in vs : m[k] = <<b, v, i, k>>

LEMMA LaidMore ==
  ASSUME NEW b, NEW i, NEW vs, NEW ws, \A v \in vs : v \in ws
  PROVE  /\ \A store : Laid(store, b, i, vs) => Laid(store, b, i, ws)
         /\ \A m : Part(m, b, i, vs) => Part(m, b, i, ws)
<1>1. ASSUME NEW store, Laid(store, b, i, vs) PROVE Laid(store, b, i, ws)
  BY <1>1 DEF Laid
<1>2. ASSUME NEW m, Part(m, b, i, vs) PROVE Part(m, b, i, ws)
  BY <1>2 DEF Part
<1>3. QED
  BY <1>1, <1>2

LEMMA MessageLength ==
  ASSUME NEW b \in Bonds, NEW v, NEW i \in 1 .. Chunks
  PROVE  Len(Message(b, v, i)) = Sizes[b][i]
<1>1. Sizes[b][i] \in Nat
  BY SizesFacts
<1>2. QED
  BY <1>1 DEF Message

LEMMA MessagePart ==
  ASSUME NEW b \in Bonds, NEW v, NEW i \in 1 .. Chunks
  PROVE  /\ Part(Message(b, v, i), b, i, {v})
         /\ Len(Message(b, v, i)) = Sizes[b][i]
         /\ \A m : Part(m, b, i, {v}) => m = Message(b, v, i)
<1>1. Sizes[b][i] \in Nat
  BY SizesFacts
<1>2. Message(b, v, i) = [k \in 1 .. Sizes[b][i] |-> <<b, v, i, k>>]
  BY DEF Message
<1>3. Len(Message(b, v, i)) = Sizes[b][i]
  BY <1>1, <1>2
<1>4. Part(Message(b, v, i), b, i, {v})
  <2> DEFINE m == Message(b, v, i)
  <2>1. m = [k \in 1 .. Sizes[b][i] |-> m[k]] /\ \A k \in 1 .. Sizes[b][i] : m[k] = <<b, v, i, k>>
    BY <1>2
  <2> HIDE DEF m
  <2>2. Part(m, b, i, {v})
    BY <2>1 DEF Part
  <2>3. QED
    BY <2>2 DEF m
<1>5. ASSUME NEW m, Part(m, b, i, {v}) PROVE m = Message(b, v, i)
  <2>1. /\ m = [k \in 1 .. Sizes[b][i] |-> m[k]]
        /\ \A k \in 1 .. Sizes[b][i] : m[k] = <<b, v, i, k>>
    BY <1>5 DEF Part
  <2>2. m = [k \in 1 .. Sizes[b][i] |-> <<b, v, i, k>>]
    BY <2>1
  <2>3. QED
    BY <1>2, <2>2
<1>6. QED
  BY <1>3, <1>4, <1>5

LEMMA PartLength ==
  ASSUME NEW b \in Bonds, NEW i \in 1 .. Chunks, NEW vs, NEW m, Part(m, b, i, vs)
  PROVE  Len(m) = Sizes[b][i] /\ DOMAIN m = 1 .. Sizes[b][i]
<1>1. Sizes[b][i] \in Nat
  BY SizesFacts
<1>2. m = [k \in 1 .. Sizes[b][i] |-> m[k]]
  BY DEF Part
<1>3. DOMAIN m = 1 .. Sizes[b][i]
  BY <1>2
<1>4. \E S : m \in [1 .. Sizes[b][i] -> S]
  <2>1. m \in [1 .. Sizes[b][i] -> {m[k] : k \in 1 .. Sizes[b][i]}]
    BY <1>2
  <2>2. QED
    BY <2>1
<1>5. QED
  BY <1>1, <1>3, <1>4

(* What the first writes of a message, or all of them, leave.              *)
Over(new, store, b, v, i, all) ==
  /\ Eeprom(new) /\ new.flag
  /\ \A a \in 0 .. EepromSize - 1 :
       \/ new.bytes[a] = store.bytes[a]
       \/ \E m \in 0 .. Sizes[b][i] : a = Place(b)[i] + m /\ new.bytes[a] = <<b, v, i, m>>
  /\ all => \A m \in 0 .. Sizes[b][i] : new.bytes[Place(b)[i] + m] = <<b, v, i, m>>

LEMMA PrefixBytes ==
  ASSUME NEW store, Eeprom(store), NEW b \in Bonds, NEW v, NEW i \in 1 .. Chunks,
         NEW writes, Len(writes) \in 1 .. Sizes[b][i] + 3,
         \A k \in 1 .. Len(writes) :
           writes[k] = MessagePut(Message(b, v, i), Place(b)[i])[k]
  PROVE  Over(AfterWrites(store, writes), store, b, v, i, Len(writes) = Sizes[b][i] + 3)
<1> DEFINE size == Sizes[b][i]
           place == Place(b)[i]
           n == Len(writes)
           new == AfterWrites(store, writes)
           put == MessagePut(Message(b, v, i), place)
<1>1. /\ size \in Nat /\ size > 0 /\ place \in Nat /\ place + size < EepromSize
      /\ EepromSize \in Nat
  BY SizesFacts, PlaceFacts
<1>2. n \in Nat /\ n \in 1 .. size + 3 /\ \A k \in 1 .. n : writes[k] = put[k]
  BY <1>1
<1>3. /\ ~IsByte(put[1]) /\ ~IsByte(put[3])
      /\ put[2] = <<"byte", place, <<b, v, i, 0>> >>
      /\ \A k \in 4 .. size + 3 : put[k] = <<"byte", place + (k - 3), <<b, v, i, k - 3>> >>
  <2>1. Puts(put, b, v, i, place)
    BY <1>1, PutFacts
  <2> HIDE DEF put, place
  <2>2. QED
    BY <2>1 DEF Puts
<1>4. /\ Eeprom(new)
      /\ new.flag <=> store.flag \/ \E k \in 1 .. n : ~IsByte(writes[k])
      /\ \A a \in 0 .. EepromSize - 1 :
           IF Hits(writes, n, a) = {} THEN new.bytes[a] = store.bytes[a]
           ELSE \E j \in Hits(writes, n, a) : new.bytes[a] = writes[j][3]
  <2>1. Len(writes) \in Nat
    BY <1>2
  <2>2. Eeprom(new)
    BY <2>1, AfterWritesFacts
  <2>3. new.flag <=> store.flag \/ \E k \in 1 .. n : ~IsByte(writes[k])
    BY <2>1, AfterWritesFacts
  <2>4. \A a \in 0 .. EepromSize - 1 :
          IF Hits(writes, n, a) = {} THEN new.bytes[a] = store.bytes[a]
          ELSE \E j \in Hits(writes, n, a) : new.bytes[a] = writes[j][3]
    BY <2>1, AfterWritesFacts
  <2>5. QED
    BY <2>2, <2>3, <2>4
<1> HIDE DEF size, place, n, new, put
<1>5. new.flag
  <2>1. 1 \in 1 .. n
    BY <1>2
  <2>2. QED
    BY <1>2, <1>3, <1>4, <2>1
<1>6. ASSUME NEW k \in 1 .. n, IsByte(writes[k])
      PROVE  \E m \in 0 .. size :
               /\ writes[k][2] = place + m /\ writes[k][3] = <<b, v, i, m>>
               /\ k = IF m = 0 THEN 2 ELSE m + 3
  <2>1. writes[k] = put[k]
    BY <1>2
  <2>2. CASE k = 2
    <3>1. writes[k][2] = place + 0 /\ writes[k][3] = <<b, v, i, 0>> /\ 0 \in 0 .. size
      BY <1>1, <1>3, <2>1, <2>2
    <3>2. QED
      BY <2>2, <3>1
  <2>3. CASE k > 3
    <3>1. k \in 4 .. size + 3 /\ k = (k - 3) + 3 /\ k - 3 # 0 /\ k - 3 \in 0 .. size
      BY <1>1, <1>2, <2>3
    <3>2. writes[k] = <<"byte", place + (k - 3), <<b, v, i, k - 3>> >>
      BY <1>3, <2>1, <3>1
    <3>3. writes[k][2] = place + (k - 3) /\ writes[k][3] = <<b, v, i, k - 3>>
      BY <3>2
    <3>4. QED
      BY <3>1, <3>3
  <2>4. k # 1 /\ k # 3
    BY <1>3, <1>6, <2>1
  <2>5. QED
    BY <1>2, <2>2, <2>3, <2>4
<1>7. ASSUME NEW a \in 0 .. EepromSize - 1
      PROVE  \/ new.bytes[a] = store.bytes[a]
             \/ \E m \in 0 .. size : a = place + m /\ new.bytes[a] = <<b, v, i, m>>
  <2>1. CASE Hits(writes, n, a) = {}
    BY <1>4, <2>1
  <2>2. CASE Hits(writes, n, a) # {}
    <3>1. PICK j \in Hits(writes, n, a) : new.bytes[a] = writes[j][3]
      BY <1>4, <2>2
    <3>2. j \in 1 .. n /\ IsByte(writes[j]) /\ writes[j][2] = a
      BY DEF Hits
    <3>3. QED
      BY <1>6, <3>1, <3>2
  <2>3. QED
    BY <2>1, <2>2
<1>8. ASSUME n = size + 3, NEW m \in 0 .. size PROVE new.bytes[place + m] = <<b, v, i, m>>
  <2> DEFINE a == place + m
             k == IF m = 0 THEN 2 ELSE m + 3
  <2>1. a \in 0 .. EepromSize - 1 /\ k \in 1 .. n
    BY <1>1, <1>8
  <2>2. IsByte(writes[k]) /\ writes[k][2] = a
    <3>1. CASE m = 0
      <4>1. writes[k] = <<"byte", place, <<b, v, i, 0>> >> /\ place = a
        BY <1>1, <1>2, <1>3, <2>1, <3>1
      <4>2. QED
        BY <4>1 DEF IsByte
    <3>2. CASE m # 0
      <4>1. k \in 4 .. size + 3 /\ k - 3 = m
        BY <1>1, <3>2
      <4>2. writes[k] = <<"byte", place + m, <<b, v, i, m>> >>
        BY <1>2, <1>3, <2>1, <4>1
      <4>3. QED
        BY <4>2 DEF IsByte
    <3>3. QED
      BY <3>1, <3>2
  <2>3. k \in Hits(writes, n, a)
    BY <2>1, <2>2 DEF Hits
  <2>4. PICK j \in Hits(writes, n, a) : new.bytes[a] = writes[j][3]
    BY <1>4, <2>1, <2>3
  <2>5. j \in 1 .. n /\ IsByte(writes[j]) /\ writes[j][2] = a
    BY DEF Hits
  <2> HIDE DEF k
  <2>6. PICK l \in 0 .. size : writes[j][2] = place + l /\ writes[j][3] = <<b, v, i, l>>
    BY <1>6, <2>5
  <2>7. l = m
    BY <1>1, <2>5, <2>6
  <2>8. QED
    BY <2>4, <2>6, <2>7
<1>9. QED
  BY <1>4, <1>5, <1>7, <1>8 DEF new, size, place, n, Over

(* So a message that is being written over another one of the bond leaves  *)
(* whole what is of one of the versions, wherever power is lost; once it   *)
(* is written it is of its own version.                                    *)
Kept(new, store, b, v, i) ==
  /\ Eeprom(new) /\ new.flag
  /\ \A l \in 1 .. Chunks : \A vs :
       (l # i \/ v \in vs) /\ Laid(store, b, l, vs) => Laid(new, b, l, vs)

LEMMA NotBehind ==
  ASSUME NEW p \in Nat, NEW size \in Nat, NEW q \in Nat, NEW j \in Nat, NEW m \in Nat,
         j <= size, p + j = q + m
  PROVE  ~(p + size < q)
OBVIOUS

LEMMA PrefixKeeps ==
  ASSUME NEW store, Eeprom(store), NEW b \in Bonds, NEW v, NEW i \in 1 .. Chunks,
         NEW writes, Len(writes) \in 1 .. Sizes[b][i] + 3,
         \A k \in 1 .. Len(writes) :
           writes[k] = MessagePut(Message(b, v, i), Place(b)[i])[k]
  PROVE  /\ Kept(AfterWrites(store, writes), store, b, v, i)
         /\ Len(writes) = Sizes[b][i] + 3 => Laid(AfterWrites(store, writes), b, i, {v})
<1> DEFINE new == AfterWrites(store, writes)
           P == Place(b)
<1>1. /\ Eeprom(new) /\ new.flag
      /\ \A a \in 0 .. EepromSize - 1 :
           \/ new.bytes[a] = store.bytes[a]
           \/ \E m \in 0 .. Sizes[b][i] : a = P[i] + m /\ new.bytes[a] = <<b, v, i, m>>
      /\ Len(writes) = Sizes[b][i] + 3 =>
           \A m \in 0 .. Sizes[b][i] : new.bytes[P[i] + m] = <<b, v, i, m>>
  <2>1. Over(new, store, b, v, i, Len(writes) = Sizes[b][i] + 3)
    BY PrefixBytes
  <2> HIDE DEF new
  <2>2. QED
    BY <2>1 DEF Over
<1> HIDE DEF new
<1>2. /\ \A l \in 1 .. Chunks :
           P[l] \in Nat /\ Sizes[b][l] \in Nat /\ P[l] + Sizes[b][l] < EepromSize
      /\ \A l, m \in 1 .. Chunks : l < m => P[l] + Sizes[b][l] < P[m]
      /\ EepromSize \in Nat /\ Chunks \in Nat
  BY SizesFacts, PlaceFacts
<1> HIDE DEF P
<1>3. ASSUME NEW l \in 1 .. Chunks, NEW vs, l # i \/ v \in vs, Laid(store, b, l, vs)
      PROVE  Laid(new, b, l, vs)
  <2> SUFFICES ASSUME NEW j \in 0 .. Sizes[b][l]
               PROVE  \E w \in vs : new.bytes[P[l] + j] = <<b, w, l, j>>
    BY DEF Laid, P
  <2>1. PICK w \in vs : store.bytes[P[l] + j] = <<b, w, l, j>>
    BY <1>3 DEF Laid, P
  <2>2. P[l] + j \in 0 .. EepromSize - 1
    BY <1>2
  <2>3. CASE new.bytes[P[l] + j] = store.bytes[P[l] + j]
    BY <2>1, <2>3
  <2>4. CASE \E m \in 0 .. Sizes[b][i] :
               P[l] + j = P[i] + m /\ new.bytes[P[l] + j] = <<b, v, i, m>>
    <3>1. PICK m \in 0 .. Sizes[b][i] :
            P[l] + j = P[i] + m /\ new.bytes[P[l] + j] = <<b, v, i, m>>
      BY <2>4
    <3>2. l = i
      <4>1. /\ P[l] \in Nat /\ Sizes[b][l] \in Nat /\ P[i] \in Nat /\ Sizes[b][i] \in Nat
            /\ j <= Sizes[b][l] /\ m <= Sizes[b][i] /\ j \in Nat /\ m \in Nat
        BY <1>2
      <4>2. l < i => P[l] + Sizes[b][l] < P[i]
        BY <1>2
      <4>3. i < l => P[i] + Sizes[b][i] < P[l]
        BY <1>2
      <4>4. ~(P[l] + Sizes[b][l] < P[i])
        BY <3>1, <4>1, NotBehind
      <4>5. P[i] + m = P[l] + j
        BY <3>1
      <4>6. ~(P[i] + Sizes[b][i] < P[l])
        BY <4>1, <4>5, NotBehind
      <4>7. ~(l < i) /\ ~(i < l)
        BY <4>2, <4>3, <4>4, <4>6
      <4>8. QED
        BY <1>2, <4>7
    <3>3. j = m
      BY <1>2, <3>1, <3>2
    <3>4. QED
      BY <1>3, <3>1, <3>2, <3>3
  <2>5. QED
    BY <1>1, <2>2, <2>3, <2>4
<1>4. ASSUME Len(writes) = Sizes[b][i] + 3 PROVE Laid(new, b, i, {v})
  BY <1>1, <1>4 DEF Laid, P
<1>5. Kept(new, store, b, v, i)
  BY <1>1, <1>3 DEF Kept
<1>6. QED
  BY <1>4, <1>5 DEF new

(* A message that is whole in the store is read from there as it is.       *)
LEMMA GotPart ==
  ASSUME NEW store, NEW b \in Bonds, NEW i \in 1 .. Chunks, NEW vs, Laid(store, b, i, vs)
  PROVE  /\ Part(MessageGot(store, Place(b)[i]), b, i, vs)
         /\ Len(MessageGot(store, Place(b)[i])) = Sizes[b][i]
         /\ Place(b)[i] + 1 + Len(MessageGot(store, Place(b)[i])) = Place(b)[i + 1]
<1> DEFINE P == Place(b)[i]
           size == Sizes[b][i]
           got == MessageGot(store, P)
<1>1. /\ P \in Nat /\ size \in Nat /\ P + size < EepromSize /\ EepromSize \in Nat
      /\ Place(b)[i + 1] = P + 1 + size
  BY SizesFacts, PlaceFacts
<1>2. \A j \in 0 .. size : \E v \in vs : store.bytes[P + j] = <<b, v, i, j>>
  BY DEF Laid
<1> HIDE DEF P, size
<1>3. getData(store, P, 1)[1] = store.bytes[P]
  <2>1. P + 1 - 1 = P /\ P < EepromSize
    BY <1>1
  <2>2. QED
    BY <2>1 DEF getData
<1>4. SizeOf(store.bytes[P]) = size
  <2>1. P + 0 = P /\ 0 \in 0 .. size
    BY <1>1
  <2>2. PICK v \in vs : store.bytes[P] = <<b, v, i, 0>>
    BY <1>2, <2>1
  <2>3. QED
    BY <2>2 DEF SizeOf, size
<1>5. got = getData(store, P + 1, size)
  BY <1>3, <1>4 DEF MessageGot
<1>6. got = [k \in 1 .. size |-> store.bytes[P + k]]
  <2>1. \A k \in 1 .. size : (P + 1) + k - 1 = P + k /\ P + k < EepromSize
    BY <1>1
  <2>2. QED
    BY <1>5, <2>1 DEF getData
<1> HIDE DEF got
<1>7. got = [k \in 1 .. size |-> got[k]] /\ \A k \in 1 .. size : got[k] = store.bytes[P + k]
  BY <1>6
<1>8. ASSUME NEW k \in 1 .. size PROVE \E v \in vs : got[k] = <<b, v, i, k>>
  <2>1. k \in 0 .. size
    BY <1>1
  <2>2. PICK v \in vs : store.bytes[P + k] = <<b, v, i, k>>
    BY <1>2, <2>1
  <2>3. QED
    BY <1>7, <2>2
<1>9. Part(got, b, i, vs)
  BY <1>7, <1>8 DEF Part, size
<1>10. Len(got) = size
  BY <1>9, PartLength DEF size
<1>11. QED
  BY <1>1, <1>9, <1>10 DEF got, P, size

(* The two ways in which a message is saved: to the end, or until power is *)
(* lost.                                                                   *)
LEMMA MessageSaved ==
  ASSUME NEW store, Eeprom(store), NEW b \in Bonds, NEW v, NEW i \in 1 .. Chunks
  PROVE  LET put == MessagePut(Message(b, v, i), Place(b)[i])
         IN  /\ Kept(AfterWrites(store, put), store, b, v, i)
             /\ Laid(AfterWrites(store, put), b, i, {v})
             /\ \A n \in 1 .. Len(put) - 1 :
                  Kept(AfterWrites(store, SubSeq(put, 1, n)), store, b, v, i)
<1> DEFINE place == Place(b)[i]
           put == MessagePut(Message(b, v, i), place)
           size == Sizes[b][i]
<1>1. size \in Nat /\ size > 0 /\ place \in Nat
  BY SizesFacts, PlaceFacts
<1>2. Puts(put, b, v, i, place)
  BY <1>1, PutFacts
<1>3. IsQueue(put) /\ Len(put) = size + 3
  <2> HIDE DEF put
  <2>1. QED
    BY <1>2 DEF Puts
<1>4. ASSUME NEW writes, Len(writes) \in 1 .. size + 3,
             \A k \in 1 .. Len(writes) : writes[k] = put[k]
      PROVE  /\ Kept(AfterWrites(store, writes), store, b, v, i)
             /\ Len(writes) = size + 3 => Laid(AfterWrites(store, writes), b, i, {v})
  BY <1>4, PrefixKeeps
<1>5. Kept(AfterWrites(store, put), store, b, v, i) /\ Laid(AfterWrites(store, put), b, i, {v})
  <2>1. Len(put) \in 1 .. size + 3
    BY <1>1, <1>3
  <2> HIDE DEF put, size
  <2>2. QED
    BY <1>3, <1>4, <2>1
<1>6. ASSUME NEW n \in 1 .. Len(put) - 1
      PROVE  Kept(AfterWrites(store, SubSeq(put, 1, n)), store, b, v, i)
  <2> DEFINE writes == SubSeq(put, 1, n)
  <2> HIDE DEF put, size
  <2>1. PICK S : put \in Seq(S)
    BY <1>3 DEF IsQueue
  <2>2. 1 \in 1 .. Len(put) + 1 /\ n \in 1 - 1 .. Len(put) /\ n \in 1 .. size + 3
    BY <1>1, <1>3
  <2>3. /\ Len(writes) = n - 1 + 1
        /\ \A k \in 1 .. n - 1 + 1 : writes[k] = put[1 + k - 1]
    BY <2>1, <2>2, SubSeqProperties
  <2> HIDE DEF writes
  <2>4. n - 1 + 1 = n /\ n \in Nat /\ \A k \in 1 .. n : 1 + k - 1 = k
    BY <2>2
  <2>5. Len(writes) = n /\ \A k \in 1 .. n : writes[k] = put[k]
    BY <2>3, <2>4
  <2>6. Kept(AfterWrites(store, writes), store, b, v, i)
    BY <1>4, <2>2, <2>5
  <2>7. QED
    BY <2>6 DEF writes
<1>7. QED
  BY <1>5, <1>6

(* Messages that are whole in the store are found one after the other.     *)
Starts(f, store, n) ==
  f = [i \in 1 .. n |-> IF i = 1 THEN 0
                        ELSE f[i - 1] + 1 + Len(MessageGot(store, f[i - 1]))]

LEMMA StartRecursion ==
  ASSUME NEW store, NEW n \in Nat
  PROVE  \E f : Starts(f, store, n)
<1> DEFINE T == {m \in Nat : \E f : Starts(f, store, m)}
<1>1. 0 \in T
  <2>1. Starts([i \in 1 .. 0 |-> 0], store, 0)
    BY DEF Starts
  <2>2. QED
    BY <2>1
<1>2. ASSUME NEW m \in Nat, m \in T PROVE m + 1 \in T
  <2>1. PICK f : Starts(f, store, m)
    BY <1>2
  <2> DEFINE next == IF m = 0 THEN 0 ELSE f[m] + 1 + Len(MessageGot(store, f[m]))
             g == [i \in 1 .. m + 1 |-> IF i <= m THEN f[i] ELSE next]
  <2>2. \A i \in 1 .. m : g[i] = f[i]
    OBVIOUS
  <2>3. g[m + 1] = IF m = 0 THEN 0 ELSE f[m] + 1 + Len(MessageGot(store, f[m]))
    OBVIOUS
  <2>4. \A i \in 1 .. m :
          f[i] = IF i = 1 THEN 0 ELSE f[i - 1] + 1 + Len(MessageGot(store, f[i - 1]))
    BY <2>1 DEF Starts
  <2>5. g = [i \in 1 .. m + 1 |-> g[i]]
    OBVIOUS
  <2> HIDE DEF g
  <2>6. \A i \in 1 .. m + 1 :
          g[i] = IF i = 1 THEN 0 ELSE g[i - 1] + 1 + Len(MessageGot(store, g[i - 1]))
    <3> TAKE i \in 1 .. m + 1
    <3>1. CASE i = 1
      BY <2>2, <2>3, <2>4, <3>1
    <3>2. CASE i = m + 1 /\ i # 1
      <4>1. i - 1 = m /\ m \in 1 .. m /\ m # 0
        BY <3>2
      <4>2. QED
        BY <2>2, <2>3, <3>2, <4>1
    <3>3. CASE i \in 2 .. m
      <4>1. i - 1 \in 1 .. m /\ i \in 1 .. m
        BY <3>3
      <4>2. QED
        BY <2>2, <2>4, <3>3, <4>1
    <3>4. QED
      BY <3>1, <3>2, <3>3
  <2>7. Starts(g, store, m + 1)
    BY <2>5, <2>6 DEF Starts
  <2>8. QED
    BY <2>7
<1> HIDE DEF T
<1>3. \A m \in Nat : m \in T
  BY <1>1, <1>2, SetInduction
<1>4. QED
  BY <1>3 DEF T

LEMMA MessagesFound ==
  ASSUME NEW store, NEW b \in Bonds, NEW vs, \A i \in 1 .. Chunks : Laid(store, b, i, vs)
  PROVE  /\ MessagesIn(store, Chunks) = [i \in 1 .. Chunks |-> MessagesIn(store, Chunks)[i]]
         /\ \A i \in 1 .. Chunks : Part(MessagesIn(store, Chunks)[i], b, i, vs)
<1> DEFINE g == CHOOSE f : Starts(f, store, Chunks)
           P == Place(b)
<1>0. Chunks \in Nat /\ Chunks > 0
  BY SizesFacts
<1>1. Starts(g, store, Chunks)
  BY <1>0, StartRecursion
<1>2. MessagesIn(store, Chunks) = [i \in 1 .. Chunks |-> MessageGot(store, g[i])]
  BY DEF MessagesIn, Starts
<1> HIDE DEF g
<1>3. /\ g[1] = 0
      /\ \A i \in 2 .. Chunks : g[i] = g[i - 1] + 1 + Len(MessageGot(store, g[i - 1]))
  BY <1>0, <1>1 DEF Starts
<1>4. /\ P[1] = 0
      /\ \A i \in 1 .. Chunks :
           /\ Part(MessageGot(store, P[i]), b, i, vs)
           /\ P[i] + 1 + Len(MessageGot(store, P[i])) = P[i + 1]
  BY GotPart, PlaceFacts
<1> HIDE DEF P
<1>5. \A i \in 1 .. Chunks : g[i] = P[i]
  <2> DEFINE T == {n \in Nat : n + 1 <= Chunks => g[n + 1] = P[n + 1]}
  <2>1. 0 \in T
    <3>1. g[0 + 1] = P[0 + 1]
      BY <1>3, <1>4
    <3>2. QED
      BY <3>1
  <2>2. ASSUME NEW n \in Nat, n \in T PROVE n + 1 \in T
    <3> SUFFICES ASSUME (n + 1) + 1 <= Chunks PROVE g[(n + 1) + 1] = P[(n + 1) + 1]
      OBVIOUS
    <3>1. /\ (n + 1) + 1 \in 2 .. Chunks /\ ((n + 1) + 1) - 1 = n + 1
          /\ n + 1 \in 1 .. Chunks /\ n + 1 <= Chunks
      BY <1>0
    <3>2. g[n + 1] = P[n + 1]
      BY <2>2, <3>1
    <3>3. g[(n + 1) + 1] = g[n + 1] + 1 + Len(MessageGot(store, g[n + 1]))
      BY <1>3, <3>1
    <3>4. P[n + 1] + 1 + Len(MessageGot(store, P[n + 1])) = P[(n + 1) + 1]
      BY <1>4, <3>1
    <3>5. QED
      BY <3>2, <3>3, <3>4
  <2> HIDE DEF T
  <2>3. \A n \in Nat : n \in T
    BY <2>1, <2>2, SetInduction
  <2>4. ASSUME NEW i \in 1 .. Chunks PROVE g[i] = P[i]
    <3>1. i - 1 \in Nat /\ (i - 1) + 1 = i /\ i <= Chunks
      BY <1>0
    <3>2. i - 1 \in T
      BY <2>3, <3>1
    <3>3. QED
      BY <3>1, <3>2 DEF T
  <2>5. QED
    BY <2>4
<1>6. QED
  BY <1>2, <1>4, <1>5

------------------------------------------------------------------------------
(* What the store, the chip's data and the peer have to do with each       *)
(* other, by what is known of the driver's turn.  A state s is of the      *)
(* variables that a poll reads before it changes them.                     *)
Now ==
  [store |-> eeprom, offset |-> offset, message |-> message, peer |-> peer, saved |-> saved,
   stored |-> stored, marked |-> storeDynamicData, linked |-> central]

Versions(s) == 1 .. s.peer.version
Holds(s, vs) == s.peer.bond \in Bonds /\ \A i \in 1 .. Chunks : Laid(s.store, s.peer.bond, i, vs)
Parts(s, dyn) == \A i \in 1 .. Len(dyn) : Part(dyn[i], s.peer.bond, i, Versions(s))

StoreOK(s) ==
  /\ Eeprom(s.store)
  /\ s.peer = [bond |-> s.peer.bond, version |-> s.peer.version]
  /\ s.peer.version \in Nat /\ s.peer.bond \in 0 .. MaxBonds
  /\ s.peer.bond > 0 => s.peer.version > 0
  /\ s.saved \in {Mixed} \cup 0 .. s.peer.version
  /\ s.stored \in Nat /\ (s.store.flag <=> s.stored > 0)
  /\ s.saved # 0 => s.stored > 0 /\ Holds(s, Versions(s))
  /\ s.saved > 0 => Holds(s, {s.saved})

(* The chip may advertise: it has all of the bond, or none of it and the   *)
(* store neither.                                                          *)
Ready(s, dyn) ==
  /\ s.stored > 0 => s.saved # 0 /\ dyn # << >>
  /\ dyn # << >> => s.peer.bond \in Bonds /\ Len(dyn) = Chunks /\ Parts(s, dyn)

(* The chip has the data of one version, as the peer left them.            *)
Pure(s, dyn) ==
  s.peer.bond \in Bonds /\ s.peer.version > 0 /\ dyn = Data(s.peer.bond, s.peer.version)

(* The first m messages are saved, or written back.                        *)
SavingAt(s, m, dyn) ==
  /\ Pure(s, dyn)
  /\ m > 0 => /\ s.offset = Place(s.peer.bond)[m + 1]
              /\ \A i \in 1 .. m : Laid(s.store, s.peer.bond, i, {s.peer.version})

RestoringAt(s, m, dyn) == s.saved # 0 /\ Len(dyn) = m /\ Parts(s, dyn)

CommandAt(s, c, k, dyn) ==
  /\ c[1] \in Advertising => Ready(s, dyn)
  /\ c[1] = "readDynamic" => SavingAt(s, k.read, dyn)
  /\ c[1] = "writeDynamic" =>
       /\ RestoringAt(s, k.restored, dyn) /\ k.restored < Chunks
       /\ Part(s.message, s.peer.bond, k.restored + 1, Versions(s))
       /\ s.offset = Place(s.peer.bond)[k.restored + 2]

EventAt(s, e, k, dyn) ==
  /\ e.type = "DeviceStarted" => dyn = << >> /\ (s.stored > 0 => s.saved # 0)
  /\ e.type = "Disconnected" => Ready(s, dyn)
  /\ e.type = "DataRead" =>
       /\ e.seqNo \in 1 .. Chunks /\ (e.complete <=> e.seqNo = Chunks)
       /\ SavingAt(s, e.seqNo - 1, dyn)
       /\ ~e.complete => k.read = e.seqNo
  /\ e.type = "DataWritten" =>
       /\ RestoringAt(s, k.restored, dyn) /\ k.restored > 0
       /\ s.offset = Place(s.peer.bond)[k.restored + 1]
       /\ e.complete <=> k.restored = Chunks
  /\ e.type = "BondStatus" /\ e.success => Pure(s, dyn)

StoreAt(s, tx, ev, k, dyn) ==
  /\ IsQueue(dyn) /\ k.restored \in 0 .. Chunks /\ k.read \in 0 .. Chunks - 1
  /\ s.marked => s.linked /\ Pure(s, dyn)
  /\ k.mode # "standby" => Ready(s, dyn)
  /\ \A i \in DOMAIN tx : CommandAt(s, tx[i], k, dyn)
  /\ \A j \in DOMAIN ev : EventAt(s, ev[j], k, dyn)

(* The inductive invariant.                                                *)
StoreInv ==
  BondingInv /\ StoreOK(Now) /\ StoreAt(Now, out.tx, events, chip, dynamic)

(* Events that say something of the data.                                  *)
Tells(e) == Starter(e) \/ (e.type = "BondStatus" /\ e.success)

LEMMA Silent ==
  /\ \A s, c, k, dyn : ~Control(c) => CommandAt(s, c, k, dyn)
  /\ \A s, e, k, dyn : ~Tells(e) => EventAt(s, e, k, dyn)
<1>1. ASSUME NEW s, NEW c, NEW k, NEW dyn, ~Control(c) PROVE CommandAt(s, c, k, dyn)
  BY <1>1 DEF Control, CommandAt
<1>2. ASSUME NEW s, NEW e, NEW k, NEW dyn, ~Tells(e) PROVE EventAt(s, e, k, dyn)
  BY <1>2 DEF Tells, Starter, EventAt
<1>3. QED
  BY <1>1, <1>2

LEMMA SameAt ==
  ASSUME NEW s, NEW k, NEW n, SameData(k, n), NEW dyn
  PROVE  /\ \A c : CommandAt(s, c, k, dyn) => CommandAt(s, c, n, dyn)
         /\ \A e : EventAt(s, e, k, dyn) => EventAt(s, e, n, dyn)
<1>1. n.read = k.read /\ n.restored = k.restored
  BY DEF SameData
<1>2. ASSUME NEW c, CommandAt(s, c, k, dyn) PROVE CommandAt(s, c, n, dyn)
  BY <1>1, <1>2 DEF CommandAt
<1>3. ASSUME NEW e, EventAt(s, e, k, dyn) PROVE EventAt(s, e, n, dyn)
  BY <1>1, <1>3 DEF EventAt
<1>4. QED
  BY <1>2, <1>3

(* What is not about the data changes nothing.                             *)
LEMMA StoreKept ==
  ASSUME NEW s, NEW tx, NEW ux, NEW ev, NEW fv, NEW k, NEW n, NEW dyn,
         StoreAt(s, tx, ev, k, dyn), SameData(k, n),
         n.mode # "standby" => k.mode # "standby",
         \A i \in DOMAIN ux : Control(ux[i]) => \E j \in DOMAIN tx : ux[i] = tx[j],
         \A i \in DOMAIN fv : Tells(fv[i]) =>
           (\E j \in DOMAIN ev : fv[i] = ev[j])
             \/ (fv[i].type = "Disconnected" /\ k.mode # "standby")
  PROVE  StoreAt(s, ux, fv, n, dyn)
<1>1. n.read = k.read /\ n.restored = k.restored
  BY DEF SameData
<1>2. ASSUME NEW i \in DOMAIN ux PROVE CommandAt(s, ux[i], n, dyn)
  <2>1. CASE Control(ux[i])
    <3>1. PICK j \in DOMAIN tx : ux[i] = tx[j]
      BY <2>1
    <3>2. CommandAt(s, ux[i], k, dyn)
      BY <3>1 DEF StoreAt
    <3>3. QED
      BY <3>2, SameAt
  <2>2. CASE ~Control(ux[i])
    BY <2>2, Silent
  <2>3. QED
    BY <2>1, <2>2
<1>3. ASSUME NEW i \in DOMAIN fv PROVE EventAt(s, fv[i], n, dyn)
  <2>1. CASE \E j \in DOMAIN ev : fv[i] = ev[j]
    <3>1. PICK j \in DOMAIN ev : fv[i] = ev[j]
      BY <2>1
    <3>2. EventAt(s, fv[i], k, dyn)
      BY <3>1 DEF StoreAt
    <3>3. QED
      BY <3>2, SameAt
  <2>2. CASE fv[i].type = "Disconnected" /\ k.mode # "standby"
    BY <2>2 DEF StoreAt, EventAt
  <2>3. CASE ~Tells(fv[i])
    BY <2>3, Silent
  <2>4. QED
    BY <2>1, <2>2, <2>3
<1>4. QED
  BY <1>1, <1>2, <1>3 DEF StoreAt

(* A command that is taken out of tx and obeyed.                           *)
Restored(s, k, c, dyn) ==
  IF c[1] = "writeDynamic" /\ k.mode = "standby" /\ k.restored < Chunks
  THEN Append(dyn, s.message) ELSE dyn

LEMMA WriteTaken ==
  ASSUME NEW k, ChipShape(k), NEW c, c[1] = "writeDynamic", k.mode = "standby",
         k.restored < Chunks
  PROVE  Written(k, c, ChipAfter(k, c), Replies(k, c))
<1>1. /\ ChipAfter(k, c) = [k EXCEPT !.restored = k.restored + 1]
      /\ Replies(k, c) = << [type |-> "DataWritten", complete |-> k.restored + 1 = Chunks] >>
  BY DEF ChipAfter, Replies, Advertising, Connectable
<1>2. QED
  BY <1>1 DEF Written, SameLink, ChipShape

LEMMA StoreCommand ==
  ASSUME NEW tx, IsQueue(tx), tx # << >>, NEW ev, IsQueue(ev), NEW k, ChipShape(k),
         NEW s, NEW dyn, Turn(tx, ev, k), StoreAt(s, tx, ev, k, dyn), StoreOK(s),
         \A i \in DOMAIN tx : Control(tx[i]) =>
           ~s.linked /\ \A j \in DOMAIN ev : ~Tells(ev[j])
  PROVE  StoreAt(s, Rest(tx), ev \o Replies(k, Head(tx)), ChipAfter(k, Head(tx)),
                 Restored(s, k, Head(tx), dyn))
<1> DEFINE c == Head(tx)
           n == ChipAfter(k, c)
           r == Replies(k, c)
           a == ev \o r
           rest == Rest(tx)
           dyn2 == Restored(s, k, c, dyn)
<1> SUFFICES StoreAt(s, rest, a, n, dyn2)
  OBVIOUS
<1>0. /\ n = ChipAfter(k, c) /\ r = Replies(k, c) /\ a = ev \o r /\ c = Head(tx)
      /\ rest = Rest(tx) /\ dyn2 = Restored(s, k, c, dyn)
  OBVIOUS
<1> HIDE DEF c, n, r, a, rest, dyn2
<1>1. /\ Turn(rest, ev, k)
      /\ Control(c) => NoControl(rest) /\ NoStarter(ev) /\ k.mode = "standby"
  BY <1>0, TurnPop
<1>2. /\ \A i \in DOMAIN rest : i + 1 \in DOMAIN tx /\ rest[i] = tx[i + 1]
      /\ 1 \in DOMAIN tx /\ c = tx[1]
  BY <1>0, RestIndex
<1>3. CommandAt(s, c, k, dyn)
  BY <1>2 DEF StoreAt
<1>4. ASSUME r = << >> PROVE a = ev
  BY <1>0, <1>4, ConcatCases
<1>5. ASSUME NEW e, r = << e >>
      PROVE  \A i \in DOMAIN a : a[i] = e \/ (i \in DOMAIN ev /\ a[i] = ev[i])
  <2>1. a = Append(ev, e)
    BY <1>0, <1>5, ConcatCases
  <2>2. /\ DOMAIN a = 1 .. Len(ev) + 1 /\ a[Len(ev) + 1] = e
        /\ \A i \in 1 .. Len(ev) : a[i] = ev[i]
        /\ DOMAIN ev = 1 .. Len(ev) /\ Len(ev) \in Nat
    BY <2>1, AppendFacts, QueueFacts
  <2>3. QED
    BY <2>2
<1>6. Chunks \in Nat /\ Chunks > 0
  BY ChunksAssumption
<1>7. k.restored \in 0 .. Chunks /\ k.read \in 0 .. Chunks - 1 /\ IsQueue(dyn)
  BY DEF StoreAt
<1>8. CASE Advertised(k, c, n, r)
  <2>1. /\ Control(c) /\ c[1] \in Advertising /\ r = << >> /\ c[1] # "writeDynamic"
        /\ SameData(k, n)
    BY <1>8 DEF Advertised, Control, Advertising, Connectable
  <2>2. dyn2 = dyn /\ a = ev
    BY <1>0, <1>4, <2>1 DEF Restored
  <2>3. Ready(s, dyn)
    BY <1>3, <2>1 DEF CommandAt
  <2>4. \A i \in DOMAIN rest : CommandAt(s, rest[i], n, dyn)
    BY <1>1, <2>1, Silent DEF NoControl
  <2>5. \A j \in DOMAIN ev : EventAt(s, ev[j], n, dyn)
    BY <2>1, SameAt DEF StoreAt
  <2>6. n.read = k.read /\ n.restored = k.restored
    BY <2>1 DEF SameData
  <2>7. QED
    BY <2>2, <2>3, <2>4, <2>5, <2>6 DEF StoreAt
<1>9. CASE Fetched(k, c, n, r)
  <2> DEFINE e == [type |-> "DataRead", seqNo |-> k.read + 1,
                   complete |-> k.read + 1 = Chunks]
  <2>1. /\ Control(c) /\ c[1] = "readDynamic" /\ r = << e >> /\ n.mode = "standby"
        /\ n.read = (k.read + 1) % Chunks /\ n.restored = k.restored
    BY <1>9 DEF Fetched, Control
  <2>2. /\ e.type = "DataRead" /\ e.seqNo = k.read + 1
        /\ e.complete <=> k.read + 1 = Chunks
    OBVIOUS
  <2> HIDE DEF e
  <2>3. dyn2 = dyn
    BY <1>0, <2>1 DEF Restored
  <2>4. SavingAt(s, k.read, dyn)
    BY <1>3, <2>1 DEF CommandAt
  <2>5. /\ n.read \in 0 .. Chunks - 1
        /\ ~e.complete => n.read = e.seqNo
    <3>1. n.read \in 0 .. Chunks - 1
      BY <1>7, <2>1, NextRead
    <3>2. ASSUME k.read + 1 # Chunks PROVE (k.read + 1) % Chunks = k.read + 1
      <4>1. k.read + 1 \in 0 .. Chunks - 1
        BY <1>6, <1>7, <3>2
      <4>2. QED
        BY <1>6, <4>1
    <3>3. QED
      BY <2>1, <2>2, <3>1, <3>2
  <2>6. EventAt(s, e, n, dyn)
    <3>1. e.seqNo \in 1 .. Chunks /\ e.seqNo - 1 = k.read
      BY <1>6, <1>7, <2>2
    <3>2. QED
      BY <2>2, <2>4, <2>5, <3>1 DEF EventAt
  <2>7. ASSUME NEW j \in DOMAIN ev PROVE EventAt(s, ev[j], n, dyn)
    <3>1. EventAt(s, ev[j], k, dyn) /\ ~Starter(ev[j])
      BY <1>1, <2>1 DEF StoreAt, NoStarter
    <3>2. QED
      BY <3>1 DEF EventAt, Starter
  <2>8. \A j \in DOMAIN a : EventAt(s, a[j], n, dyn)
    BY <1>5, <2>1, <2>6, <2>7
  <2>9. \A i \in DOMAIN rest : CommandAt(s, rest[i], n, dyn)
    BY <1>1, <2>1, Silent DEF NoControl
  <2>10. QED
    BY <1>7, <2>1, <2>3, <2>5, <2>8, <2>9 DEF StoreAt
<1>10. CASE Written(k, c, n, r)
  <2> DEFINE e == [type |-> "DataWritten", complete |-> k.restored + 1 = Chunks]
  <2>1. /\ Control(c) /\ c[1] = "writeDynamic" /\ r = << e >> /\ n.mode = "standby"
        /\ n.read = k.read /\ n.restored = k.restored + 1
        /\ k.mode = "standby" /\ k.restored < Chunks
    BY <1>10 DEF Written, Control
  <2>2. e.type = "DataWritten" /\ (e.complete <=> k.restored + 1 = Chunks)
    OBVIOUS
  <2> HIDE DEF e
  <2>3. dyn2 = Append(dyn, s.message)
    BY <1>0, <2>1 DEF Restored
  <2>4. /\ RestoringAt(s, k.restored, dyn)
        /\ Part(s.message, s.peer.bond, k.restored + 1, Versions(s))
        /\ s.offset = Place(s.peer.bond)[k.restored + 2]
    BY <1>3, <2>1 DEF CommandAt
  <2>5. RestoringAt(s, n.restored, dyn2) /\ IsQueue(dyn2)
    <3>1. /\ IsQueue(dyn2) /\ Len(dyn2) = Len(dyn) + 1 /\ dyn2[Len(dyn) + 1] = s.message
          /\ \A i \in 1 .. Len(dyn) : dyn2[i] = dyn[i]
      BY <1>7, <2>3, AppendFacts
    <3>2. Len(dyn) = k.restored
      BY <2>4 DEF RestoringAt
    <3>3. ASSUME NEW i \in 1 .. Len(dyn2) PROVE Part(dyn2[i], s.peer.bond, i, Versions(s))
      <4>1. CASE i = k.restored + 1
        BY <2>4, <3>1, <3>2, <4>1
      <4>2. CASE i # k.restored + 1
        <5>1. i \in 1 .. Len(dyn)
          BY <1>7, <3>1, <3>2, <4>2
        <5>2. QED
          BY <2>4, <3>1, <5>1 DEF RestoringAt, Parts
      <4>3. QED
        BY <4>1, <4>2
    <3>4. QED
      BY <2>1, <2>4, <3>1, <3>2, <3>3 DEF RestoringAt, Parts
  <2>6. n.restored \in 0 .. Chunks /\ n.restored > 0 /\ n.restored + 1 = k.restored + 2
    BY <1>6, <1>7, <2>1
  <2>7. EventAt(s, e, n, dyn2)
    BY <2>1, <2>2, <2>4, <2>5, <2>6 DEF EventAt
  <2>8. ~s.linked /\ \A j \in DOMAIN ev : ~Tells(ev[j])
    BY <1>2, <2>1
  <2>9. \A j \in DOMAIN a : EventAt(s, a[j], n, dyn2)
    BY <1>5, <2>1, <2>7, <2>8, Silent
  <2>10. \A i \in DOMAIN rest : CommandAt(s, rest[i], n, dyn2)
    BY <1>1, <2>1, Silent DEF NoControl
  <2>11. ~s.marked
    BY <2>8 DEF StoreAt
  <2>12. QED
    BY <1>7, <2>1, <2>5, <2>6, <2>9, <2>10, <2>11 DEF StoreAt
<1>11. ASSUME SameData(k, n) PROVE dyn2 = dyn
  <2>1. CASE c[1] = "writeDynamic" /\ k.mode = "standby" /\ k.restored < Chunks
    <3>1. n.restored = k.restored + 1
      BY <1>0, <2>1, WriteTaken DEF Written
    <3>2. QED
      BY <1>7, <1>11, <3>1 DEF SameData
  <2>2. CASE ~(c[1] = "writeDynamic" /\ k.mode = "standby" /\ k.restored < Chunks)
    BY <1>0, <2>2 DEF Restored
  <2>3. QED
    BY <2>1, <2>2
<1>12. CASE Buffered(k, c, n, r) \/ Timed(k, c, n, r) \/ Other(k, c, n, r)
  <2>1. /\ r = << >> /\ SameData(k, n)
        /\ n.mode # "standby" => k.mode # "standby"
    BY <1>12 DEF Buffered, Timed, Other
  <2>2. a = ev /\ dyn2 = dyn
    BY <1>4, <1>11, <2>1
  <2>3. QED
    BY <1>2, <2>1, <2>2, StoreKept
<1>13. CASE Declined(k, c, n, r)
  <2> DEFINE e == [type |-> "PipeError", peer |-> FALSE]
  <2>1. n = k /\ r = << e >> /\ ~Tells(e)
    BY <1>13 DEF Declined, Tells, Starter
  <2> HIDE DEF e
  <2>2. SameData(k, n) /\ dyn2 = dyn
    BY <1>11, <2>1 DEF SameData
  <2>3. \A i \in DOMAIN a : Tells(a[i]) => \E j \in DOMAIN ev : a[i] = ev[j]
    BY <1>5, <2>1
  <2>4. QED
    BY <1>2, <2>1, <2>2, <2>3, StoreKept
<1>14. \/ Advertised(k, c, n, r) \/ Fetched(k, c, n, r) \/ Written(k, c, n, r)
       \/ Buffered(k, c, n, r) \/ Declined(k, c, n, r) \/ Timed(k, c, n, r)
       \/ Other(k, c, n, r)
  BY <1>0, CommandCases
<1>15. QED
  BY <1>8, <1>9, <1>10, <1>12, <1>13, <1>14

(* A poll: the variables it leaves alone, those that the handlers change.  *)
LEMMA ControlAlone ==
  ASSUME TurnInv, NEW i \in DOMAIN out.tx, Control(out.tx[i])
  PROVE  ~central /\ \A j \in DOMAIN events : ~Tells(events[j])
<1>1. chip.mode = "standby" /\ \A j \in DOMAIN events : ~Starter(events[j])
  BY DEF TurnInv, Turn
<1>2. LinkOrder(events, chip) /\ ~Linked(chip)
  BY <1>1 DEF TurnInv, Linked
<1>3. \A j \in DOMAIN events : ~IsDisconnected(events[j])
  BY <1>1 DEF Starter, IsDisconnected
<1>4. ~central /\ \A j \in DOMAIN events : ~IsConnected(events[j])
  BY <1>2, <1>3 DEF LinkOrder
<1>5. \A j \in DOMAIN events : ~OfLink(events[j])
  BY <1>2, <1>4 DEF LinkOrder
<1>6. QED
  BY <1>1, <1>4, <1>5 DEF Tells, OfLink

LEMMA SameStore ==
  ASSUME NEW s, NEW t, t.store = s.store, t.peer = s.peer, t.saved = s.saved,
         t.stored = s.stored
  PROVE  /\ StoreOK(s) => StoreOK(t)
         /\ \A tx, ev, k, dyn :
              /\ StoreAt(s, tx, ev, k, dyn)
              /\ t.offset = s.offset /\ t.message = s.message
              /\ t.marked => t.linked /\ Pure(s, dyn)
              => StoreAt(t, tx, ev, k, dyn)
<1>1. /\ Versions(t) = Versions(s)
      /\ \A vs : Holds(t, vs) <=> Holds(s, vs)
      /\ \A dyn : Parts(t, dyn) <=> Parts(s, dyn)
      /\ \A dyn : Pure(t, dyn) <=> Pure(s, dyn)
  BY DEF Versions, Holds, Parts, Pure
<1>2. /\ \A dyn : Ready(t, dyn) <=> Ready(s, dyn)
      /\ \A m, dyn : RestoringAt(t, m, dyn) <=> RestoringAt(s, m, dyn)
  BY <1>1 DEF Ready, RestoringAt
<1>3. ASSUME t.offset = s.offset, NEW m, NEW dyn
      PROVE  SavingAt(t, m, dyn) <=> SavingAt(s, m, dyn)
  BY <1>1, <1>3 DEF SavingAt
<1>4. ASSUME t.offset = s.offset, t.message = s.message, NEW k, NEW dyn
      PROVE  /\ \A c : CommandAt(s, c, k, dyn) => CommandAt(t, c, k, dyn)
             /\ \A e : EventAt(s, e, k, dyn) => EventAt(t, e, k, dyn)
  <2>1. \A m : SavingAt(t, m, dyn) <=> SavingAt(s, m, dyn)
    BY <1>3, <1>4
  <2>2. ASSUME NEW c, CommandAt(s, c, k, dyn) PROVE CommandAt(t, c, k, dyn)
    BY <1>1, <1>2, <1>4, <2>1, <2>2 DEF CommandAt
  <2>3. ASSUME NEW e, EventAt(s, e, k, dyn) PROVE EventAt(t, e, k, dyn)
    BY <1>1, <1>2, <1>4, <2>1, <2>3 DEF EventAt
  <2>4. QED
    BY <2>2, <2>3
<1>5. ASSUME NEW tx, NEW ev, NEW k, NEW dyn, StoreAt(s, tx, ev, k, dyn),
             t.offset = s.offset, t.message = s.message,
             t.marked => t.linked /\ Pure(s, dyn)
      PROVE  StoreAt(t, tx, ev, k, dyn)
  <2>1. \A c : CommandAt(s, c, k, dyn) => CommandAt(t, c, k, dyn)
    BY <1>4, <1>5
  <2>2. \A e : EventAt(s, e, k, dyn) => EventAt(t, e, k, dyn)
    BY <1>4, <1>5
  <2>3. QED
    BY <1>1, <1>2, <1>5, <2>1, <2>2 DEF StoreAt
<1>6. ASSUME StoreOK(s) PROVE StoreOK(t)
  BY <1>1, <1>6 DEF StoreOK
<1>7. QED
  BY <1>5, <1>6

LEMMA PureFacts ==
  ASSUME NEW s, NEW dyn, Pure(s, dyn), s.peer.version \in Nat
  PROVE  /\ dyn # << >> /\ IsQueue(dyn) /\ Len(dyn) = Chunks /\ Parts(s, dyn)
         /\ \A i \in 1 .. Chunks : dyn[i] = Message(s.peer.bond, s.peer.version, i)
<1> DEFINE b == s.peer.bond
           v == s.peer.version
<1>1. b \in Bonds /\ v > 0 /\ dyn = [i \in 1 .. Chunks |-> Message(b, v, i)]
  BY DEF Pure, Data
<1>2. Chunks \in Nat /\ Chunks > 0
  BY ChunksAssumption
<1> HIDE DEF b, v
<1>3. /\ IsQueue(dyn) /\ Len(dyn) = Chunks
      /\ \A i \in 1 .. Chunks : dyn[i] = Message(b, v, i)
  <2>1. dyn \in Seq({Message(b, v, i) : i \in 1 .. Chunks})
    BY <1>1, <1>2
  <2>2. QED
    BY <1>1, <1>2, <2>1 DEF IsQueue
<1>4. dyn # << >>
  BY <1>2, <1>3
<1>5. ASSUME NEW i \in 1 .. Chunks PROVE Part(dyn[i], b, i, 1 .. v)
  <2>1. Part(dyn[i], b, i, {v})
    BY <1>1, <1>3, MessagePart
  <2>2. \A w \in {v} : w \in 1 .. v
    BY <1>1 DEF v
  <2>3. QED
    BY <2>1, <2>2, LaidMore
<1>6. Parts(s, dyn)
  BY <1>3, <1>5 DEF Parts, Versions, b, v
<1>7. QED
  BY <1>3, <1>4, <1>6 DEF b, v

(* The handler of an event that has the turn, and passes it on.            *)
LEMMA AfterStarter ==
  ASSUME NEW s, NEW t, NEW o, OutShape(o), NEW n, NEW ev, IsQueue(ev), ev # << >>,
         NEW k, NEW dyn, Turn(o.tx, ev, k), StoreAt(s, o.tx, ev, k, dyn),
         Starter(Head(ev)), Replied(o, n, Head(ev)), t.peer = s.peer,
         t.marked => s.marked /\ t.linked,
         NEW ops, Asks(o, n, ops), \A c : c[1] \in ops => CommandAt(t, c, k, dyn)
  PROVE  StoreAt(t, n.tx, Rest(ev), k, dyn)
<1> DEFINE r == Rest(ev)
           tx == o.tx
           ux == n.tx
<1>1. /\ \A i \in DOMAIN r : i \in Nat /\ i > 0 /\ i + 1 \in DOMAIN ev /\ r[i] = ev[i + 1]
      /\ 1 \in DOMAIN ev /\ Head(ev) = ev[1]
  BY RestIndex
<1>2. /\ DOMAIN tx = 1 .. Len(tx) /\ DOMAIN ux = 1 .. Len(ux)
      /\ Len(tx) \in Nat /\ Len(ux) \in Nat
      /\ \A i \in 1 .. Len(tx) : ux[i] = tx[i]
  BY QueueFacts DEF Replied, Grows, OutShape
<1>3. \A i \in DOMAIN ux : i \in New(o, n) \/ (i \in DOMAIN tx /\ ux[i] = tx[i])
  BY <1>2 DEF New
<1>4. Turn(tx, ev, k) /\ StoreAt(s, tx, ev, k, dyn)
  OBVIOUS
<1> SUFFICES StoreAt(t, ux, r, k, dyn)
  OBVIOUS
<1>5. \A i \in New(o, n) : Control(ux[i]) => ux[i][1] \in ops
  BY DEF Asks
<1> HIDE DEF r, tx, ux
<1>6. k.mode = "standby" /\ \A i \in DOMAIN tx : ~Control(tx[i])
  BY <1>1, <1>4 DEF Turn
<1>7. \A j \in DOMAIN r : ~Starter(r[j])
  <2> SUFFICES ASSUME NEW j \in DOMAIN r, Starter(r[j]) PROVE FALSE
    OBVIOUS
  <2>1. j + 1 \in DOMAIN ev /\ Starter(ev[j + 1]) /\ j \in Nat /\ j > 0
    BY <1>1
  <2>2. j + 1 = 1
    BY <1>1, <1>4, <2>1 DEF Turn
  <2>3. QED
    BY <2>1, <2>2
<1>8. ASSUME NEW i \in DOMAIN ux PROVE CommandAt(t, ux[i], k, dyn)
  <2>1. CASE Control(ux[i])
    BY <1>3, <1>5, <1>6, <2>1
  <2>2. CASE ~Control(ux[i])
    BY <2>2, Silent
  <2>3. QED
    BY <2>1, <2>2
<1>9. Pure(t, dyn) <=> Pure(s, dyn)
  BY DEF Pure
<1>10. ASSUME NEW j \in DOMAIN r PROVE EventAt(t, r[j], k, dyn)
  <2>1. EventAt(s, r[j], k, dyn) /\ ~Starter(r[j])
    BY <1>1, <1>4, <1>7 DEF StoreAt
  <2>2. QED
    BY <1>9, <2>1 DEF EventAt, Starter
<1>11. QED
  BY <1>4, <1>6, <1>8, <1>9, <1>10 DEF StoreAt

------------------------------------------------------------------------------
(* What a poll does to the store.                                          *)
LEMMA StoreUntouched ==
  ASSUME HidPoll, events = << >>
  PROVE  UNCHANGED <<eeprom, saved, offset, message, peer>>
BY DEF HidPoll, Saves, Restores, Handles, ChipRestored

LEMMA StoreSteps ==
  ASSUME HidPoll, events # << >>
  PROVE  /\ peer' = peer
         /\ Head(events).type # "DataRead" => UNCHANGED <<eeprom, saved>>
         /\ Head(events).type = "DataRead" =>
              /\ eeprom' = AfterWrites(eeprom, Saving)
              /\ offset' = SaveOffset + 1 + Len(dynamic[Head(events).seqNo])
              /\ saved' = IF Head(events).complete THEN peer.version ELSE Interrupted
         /\ Head(events).type = "DeviceStarted" /\ ~Head(events).hwError =>
              IF eeprom.flag THEN RestoresAt(0) ELSE UNCHANGED <<offset, message>>
         /\ Head(events).type = "DataWritten" =>
              IF Head(events).complete THEN UNCHANGED <<offset, message>> ELSE RestoresAt(offset)
         /\ Head(events).type \notin {"DataRead", "DeviceStarted", "DataWritten"} =>
              UNCHANGED <<offset, message>>
<1>1. Saves /\ Restores /\ peer' = peer
  BY DEF HidPoll, ChipRestored
<1>2. \A type : Handles(type) <=> Head(events).type = type
  BY DEF Handles
<1>3. /\ Head(events).type # "DataRead" => UNCHANGED <<eeprom, saved>>
      /\ Head(events).type = "DataRead" =>
           /\ eeprom' = AfterWrites(eeprom, Saving)
           /\ offset' = SaveOffset + 1 + Len(dynamic[Head(events).seqNo])
           /\ saved' = IF Head(events).complete THEN peer.version ELSE Interrupted
  BY <1>1, <1>2 DEF Saves
<1>4. CASE Head(events).type = "DataRead"
  BY <1>1, <1>3, <1>4
<1>5. CASE Head(events).type = "DeviceStarted"
  <2>1. ~Head(events).hwError =>
          IF eeprom.flag THEN RestoresAt(0) ELSE UNCHANGED <<offset, message>>
    BY <1>1, <1>2, <1>5 DEF Restores, hasDataIn
  <2>2. QED
    BY <1>1, <1>3, <1>5, <2>1
<1>6. CASE Head(events).type = "DataWritten"
  <2>1. IF Head(events).complete THEN UNCHANGED <<offset, message>> ELSE RestoresAt(offset)
    BY <1>1, <1>2, <1>6 DEF Restores
  <2>2. QED
    BY <1>1, <1>3, <1>6, <2>1
<1>7. CASE Head(events).type \notin {"DataRead", "DeviceStarted", "DataWritten"}
  <2>1. UNCHANGED <<offset, message>>
    BY <1>1, <1>2, <1>7 DEF Restores
  <2>2. QED
    BY <1>1, <1>3, <1>7, <2>1
<1>8. QED
  BY <1>4, <1>5, <1>6, <1>7

(* Once the chip has obeyed the command of a poll.                         *)
LEMMA StoreMid ==
  ASSUME StoreInv, HidPoll
  PROVE  /\ poll /\ TurnInv /\ StoreOK(Now)
         /\ StoreAt(Now, Received.tx, AfterCommand, chip', dynamic')
<1>1. /\ poll /\ TurnInv /\ BondingInv /\ StoreOK(Now)
      /\ StoreAt(Now, out.tx, events, chip, dynamic)
      /\ dynamic' = IF /\ out.tx # << >> /\ Head(out.tx)[1] = "writeDynamic"
                       /\ chip.mode = "standby" /\ chip.restored < Chunks
                    THEN Append(dynamic, message) ELSE dynamic
  BY DEF HidPoll, StoreInv, BondingInv, ChipRestored, Carries
<1>2. CASE out.tx = << >>
  <2>1. /\ Received.tx = out.tx /\ AfterCommand = events /\ chip' = chip
        /\ dynamic' = dynamic
    BY <1>1, <1>2, PollSteps
  <2>2. QED
    BY <1>1, <2>1
<1>3. CASE out.tx # << >>
  <2>1. /\ Received.tx = Rest(out.tx) /\ AfterCommand = events \o Replies(chip, Head(out.tx))
        /\ chip' = ChipAfter(chip, Head(out.tx))
        /\ IsQueue(out.tx) /\ IsQueue(events) /\ ChipShape(chip)
        /\ Turn(out.tx, events, chip)
    BY <1>1, <1>3, PollSteps DEF TurnInv
  <2>2. dynamic' = Restored(Now, chip, Head(out.tx), dynamic)
    BY <1>1, <1>3 DEF Restored, Now
  <2>3. \A i \in DOMAIN out.tx : Control(out.tx[i]) =>
          ~Now.linked /\ \A j \in DOMAIN events : ~Tells(events[j])
    BY <1>1, ControlAlone DEF Now
  <2>4. StoreAt(Now, Rest(out.tx), events \o Replies(chip, Head(out.tx)),
                ChipAfter(chip, Head(out.tx)), Restored(Now, chip, Head(out.tx), dynamic))
    BY <1>1, <1>3, <2>1, <2>3, StoreCommand
  <2>5. QED
    BY <1>1, <2>1, <2>2, <2>4
<1>4. QED
  BY <1>2, <1>3

(* A poll that handles an event, and what is known of the event.           *)
LEMMA PollHandles ==
  ASSUME StoreInv, HidPoll, events # << >>
  PROVE  /\ poll /\ TurnInv /\ StoreOK(Now)
         /\ OutShape(out) /\ OutShape(Received)
         /\ StoreAt(Now, Received.tx, AfterCommand, chip', dynamic')
         /\ EventAt(Now, Head(events), chip', dynamic')
         /\ IsQueue(AfterCommand) /\ AfterCommand # << >> /\ Head(AfterCommand) = Head(events)
         /\ events' = Rest(AfterCommand)
         /\ Turn(Received.tx, AfterCommand, chip') /\ LinkOrder(AfterCommand, chip')
         /\ Replied(Received, out', Head(events)) /\ Head(events).type # "HwError"
         /\ Head(events).type = "DeviceStarted" =>
              chip'.restored = 0 /\ ~Head(events).hwError
         /\ Head(events).type = "Disconnected" => chip'.read = 0
<1>1. /\ poll /\ TurnInv /\ BondingInv /\ StoreOK(Now)
      /\ StoreAt(Now, Received.tx, AfterCommand, chip', dynamic')
  BY StoreMid DEF StoreInv
<1>2. /\ OutShape(out) /\ OutShape(Received)
      /\ IsQueue(AfterCommand) /\ AfterCommand # << >> /\ Head(AfterCommand) = Head(events)
      /\ events' = Rest(AfterCommand)
      /\ Turn(Received.tx, AfterCommand, chip') /\ LinkOrder(AfterCommand, chip')
      /\ Replied(Received, out', Head(events)) /\ Head(events).type # "HwError"
  BY <1>1, PollSteps
<1>3. 1 \in DOMAIN AfterCommand /\ Head(events) = AfterCommand[1]
  BY <1>2, RestIndex
<1>4. EventAt(Now, Head(events), chip', dynamic')
  BY <1>1, <1>3 DEF StoreAt
<1>5. Bonding(Received.tx, AfterCommand, chip', sequenceNo, stored)
  BY <1>1, BondingMid
<1>6. /\ Head(events).type = "DeviceStarted" =>
           chip'.restored = 0 /\ ~Head(events).hwError
      /\ Head(events).type = "Disconnected" => chip'.read = 0
  BY <1>3, <1>5 DEF Bonding
<1>7. QED
  BY <1>1, <1>2, <1>4, <1>6

(* No event is handled, or one that does not have the turn.                *)
LEMMA QuietPoll ==
  ASSUME StoreInv, HidPoll, events # << >> => ~Starter(Head(events))
  PROVE  StoreInv'
<1> DEFINE s == Now
           t == Now'
           tx == Received.tx
           ev == AfterCommand
           k == chip'
           dyn == dynamic'
<1>1. poll /\ TurnInv /\ StoreOK(s) /\ StoreAt(s, tx, ev, k, dyn) /\ BondingInv'
  BY StoreMid, PollBonding DEF StoreInv
<1>2. /\ UNCHANGED <<eeprom, saved, offset, message, peer>>
      /\ stored' = stored
  <2>1. CASE events = << >>
    BY <1>1, <2>1, StoreUntouched, DriverSees DEF bonding
  <2>2. CASE events # << >>
    <3>1. UNCHANGED <<eeprom, saved, offset, message, peer>>
      BY <2>2, StoreSteps DEF Starter
    <3>2. OutShape(out) /\ Head(events).type # "HwError"
      BY <2>2, PollHandles
    <3>3. stored' = stored
      BY <1>1, <2>2, <3>2, Answers DEF Starter
    <3>4. QED
      BY <3>1, <3>3
  <2>3. QED
    BY <2>1, <2>2
<1>3. /\ t.store = s.store /\ t.peer = s.peer /\ t.saved = s.saved /\ t.stored = s.stored
      /\ t.offset = s.offset /\ t.message = s.message
      /\ t.marked = storeDynamicData' /\ t.linked = central'
      /\ s.marked = storeDynamicData /\ s.linked = central
  BY <1>2 DEF Now
<1>4. storeDynamicData => central /\ Pure(s, dyn)
  BY <1>1, <1>3 DEF StoreAt
<1>5. storeDynamicData' => central' /\ Pure(s, dyn)
  <2>1. CASE events = << >>
    <3>1. storeDynamicData' = storeDynamicData /\ central' = central
      BY <1>1, <2>1, DriverSees, DriverMarks
    <3>2. QED
      BY <1>4, <3>1
  <2>2. CASE events # << >> /\ ~IsBondStatus(Head(events))
    <3>1. ~IsDisconnected(Head(events))
      BY <2>2 DEF Starter, IsDisconnected
    <3>2. storeDynamicData' = storeDynamicData /\ (central => central')
      BY <1>1, <2>2, <3>1, DriverSees, DriverMarks
    <3>3. QED
      BY <1>4, <3>2
  <2>3. CASE events # << >> /\ IsBondStatus(Head(events))
    <3>1. /\ OfLink(Head(events)) /\ ~IsConnected(Head(events)) /\ ~IsDisconnected(Head(events))
          /\ Head(events).type # "PipeStatus"
      BY <2>3 DEF IsBondStatus, OfLink, IsConnected, IsDisconnected
    <3>2. central' = central
      BY <1>1, <2>3, <3>1, DriverSees
    <3>3. central
      <4>1. LinkOrder(AfterCommand, chip') /\ IsQueue(AfterCommand) /\ AfterCommand # << >>
            /\ OfLink(Head(AfterCommand))
        BY <2>3, <3>1, PollHandles
      <4>2. QED
        BY <4>1, OfLinkHead
    <3>4. storeDynamicData' => Head(events).success
      BY <1>1, <2>3, DriverMarks
    <3>5. EventAt(s, Head(events), k, dyn)
      BY <2>3, PollHandles
    <3>6. QED
      BY <2>3, <3>2, <3>3, <3>4, <3>5 DEF EventAt, IsBondStatus
  <2>4. QED
    BY <2>1, <2>2, <2>3
<1>6. /\ \A i \in DOMAIN out'.tx : Control(out'.tx[i]) => \E j \in DOMAIN tx : out'.tx[i] = tx[j]
      /\ \A i \in DOMAIN events' : \E j \in DOMAIN ev : events'[i] = ev[j]
  <2>1. CASE events = << >>
    <3>1. out' = Received /\ events' = AfterCommand
      BY <1>1, <2>1, PollSteps
    <3>2. QED
      BY <3>1
  <2>2. CASE events # << >>
    <3>1. /\ OutShape(Received) /\ IsQueue(ev) /\ events' = Rest(ev)
          /\ Replied(Received, out', Head(events))
      BY <2>2, PollHandles
    <3>2. OutShape(out')
      BY <3>1 DEF Replied, Grows
    <3>3. \A i \in DOMAIN out'.tx :
            i \in New(Received, out') \/ (i \in DOMAIN tx /\ out'.tx[i] = tx[i])
      BY <3>1, <3>2, QueueFacts DEF New, Replied, Grows, OutShape
    <3>4. \A i \in DOMAIN out'.tx : Control(out'.tx[i]) => \E j \in DOMAIN tx : out'.tx[i] = tx[j]
      BY <2>2, <3>1, <3>3 DEF Replied
    <3>5. \A i \in DOMAIN events' : \E j \in DOMAIN ev : events'[i] = ev[j]
      BY <3>1, RestIndex
    <3>6. QED
      BY <3>4, <3>5
  <2>3. QED
    BY <2>1, <2>2
<1> DEFINE ux == out'.tx
           fv == events'
<1>7. SameData(k, k) /\ (k.mode # "standby" => k.mode # "standby")
  BY DEF SameData
<1> HIDE DEF s, t, tx, ev, k, dyn, ux, fv
<1>8. StoreAt(s, ux, fv, k, dyn)
  BY <1>1, <1>6, <1>7, StoreKept DEF ux, fv
<1>9. StoreOK(t) /\ StoreAt(t, ux, fv, k, dyn)
  BY <1>1, <1>3, <1>5, <1>8, SameStore
<1>10. QED
  BY <1>1, <1>9 DEF StoreInv, t, ux, fv, k, dyn

(* An event that has the turn is handled.                                  *)
LEMMA StarterPoll ==
  ASSUME StoreInv, HidPoll, events # << >>, Starter(Head(events)), StoreOK(Now'),
         NEW ops, Asks(Received, out', ops),
         \A c : c[1] \in ops => CommandAt(Now', c, chip', dynamic')
  PROVE  StoreInv'
<1> DEFINE s == Now
           t == Now'
           k == chip'
           dyn == dynamic'
           n == out'
<1>1. /\ poll /\ OutShape(Received) /\ StoreAt(s, Received.tx, AfterCommand, k, dyn)
      /\ IsQueue(AfterCommand) /\ AfterCommand # << >> /\ Head(AfterCommand) = Head(events)
      /\ events' = Rest(AfterCommand)
      /\ Turn(Received.tx, AfterCommand, k) /\ Replied(Received, n, Head(events))
  BY PollHandles
<1>2. t.peer = s.peer
  BY StoreSteps DEF Now
<1>3. t.marked => s.marked /\ t.linked
  <2>1. /\ t.marked = storeDynamicData' /\ t.linked = central'
        /\ s.marked = storeDynamicData /\ s.linked = central
    BY DEF Now
  <2>2. s.marked => s.linked
    BY <1>1 DEF StoreAt
  <2>3. ~IsBondStatus(Head(events)) /\ ~IsConnected(Head(events))
        /\ Head(events).type # "PipeStatus"
    BY DEF Starter, IsBondStatus, IsConnected
  <2>4. CASE IsDisconnected(Head(events))
    <3>1. ~storeDynamicData'
      BY <1>1, <2>4, DriverMarks
    <3>2. QED
      BY <2>1, <3>1
  <2>5. CASE ~IsDisconnected(Head(events))
    <3>1. storeDynamicData' = storeDynamicData /\ central' = central
      BY <1>1, <2>3, <2>5, DriverMarks, DriverSees
    <3>2. QED
      BY <2>1, <2>2, <3>1
  <2>6. QED
    BY <2>4, <2>5
<1>4. BondingInv'
  BY <1>1, PollBonding DEF StoreInv
<1> HIDE DEF s, t, k, dyn, n
<1>5. StoreAt(t, n.tx, Rest(AfterCommand), k, dyn)
  <2>1. Asks(Received, n, ops) /\ \A c : c[1] \in ops => CommandAt(t, c, k, dyn)
    BY DEF n, t, k, dyn
  <2>2. QED
    BY <1>1, <1>2, <1>3, <2>1, AfterStarter
<1>6. QED
  BY <1>1, <1>4, <1>5 DEF StoreInv, t, k, dyn, n

LEMMA OnlyOp ==
  /\ \A s, c, k, dyn : c[1] \in Advertising /\ Ready(s, dyn) => CommandAt(s, c, k, dyn)
  /\ \A s, c, k, dyn : c[1] \in {"readDynamic"} /\ SavingAt(s, k.read, dyn)
                         => CommandAt(s, c, k, dyn)
  /\ \A s, c, k, dyn :
       /\ c[1] \in {"writeDynamic"}
       /\ RestoringAt(s, k.restored, dyn) /\ k.restored < Chunks
       /\ Part(s.message, s.peer.bond, k.restored + 1, Versions(s))
       /\ s.offset = Place(s.peer.bond)[k.restored + 2]
       => CommandAt(s, c, k, dyn)
<1>1. "readDynamic" \notin Advertising /\ "writeDynamic" \notin Advertising
  BY DEF Advertising, Connectable
<1>2. ASSUME NEW s, NEW c, NEW k, NEW dyn, c[1] \in Advertising, Ready(s, dyn)
      PROVE  CommandAt(s, c, k, dyn)
  BY <1>1, <1>2 DEF CommandAt
<1>3. ASSUME NEW s, NEW c, NEW k, NEW dyn, c[1] \in {"readDynamic"}, SavingAt(s, k.read, dyn)
      PROVE  CommandAt(s, c, k, dyn)
  BY <1>1, <1>3 DEF CommandAt
<1>4. ASSUME NEW s, NEW c, NEW k, NEW dyn, c[1] \in {"writeDynamic"},
             RestoringAt(s, k.restored, dyn), k.restored < Chunks,
             Part(s.message, s.peer.bond, k.restored + 1, Versions(s)),
             s.offset = Place(s.peer.bond)[k.restored + 2]
      PROVE  CommandAt(s, c, k, dyn)
  BY <1>1, <1>4 DEF CommandAt
<1>5. QED
  BY <1>2, <1>3, <1>4

(* The next message of a store that has all of them whole is read.         *)
LEMMA NextRestored ==
  ASSUME NEW s, StoreOK(s), s.saved # 0, NEW i \in 1 .. Chunks, NEW t, t.peer = s.peer,
         t.message = MessageGot(s.store, Place(s.peer.bond)[i]),
         t.offset = Place(s.peer.bond)[i] + 1
                      + Len(MessageGot(s.store, Place(s.peer.bond)[i]))
  PROVE  /\ Part(t.message, t.peer.bond, i, Versions(t))
         /\ t.offset = Place(t.peer.bond)[i + 1]
<1>1. Holds(s, Versions(s))
  BY DEF StoreOK
<1>2. s.peer.bond \in Bonds /\ Laid(s.store, s.peer.bond, i, Versions(s))
  BY <1>1 DEF Holds
<1>3. Versions(t) = Versions(s)
  BY DEF Versions
<1>4. QED
  BY <1>2, <1>3, GotPart

LEMMA StartedPoll ==
  ASSUME StoreInv, HidPoll, events # << >>, Head(events).type = "DeviceStarted"
  PROVE  StoreInv'
<1> DEFINE s == Now
           t == Now'
           k == chip'
           dyn == dynamic'
<1>1. /\ poll /\ TurnInv /\ StoreOK(s) /\ OutShape(out) /\ Starter(Head(events))
      /\ EventAt(s, Head(events), k, dyn) /\ Head(events).type # "HwError"
      /\ k.restored = 0 /\ ~Head(events).hwError
  BY PollHandles DEF Starter
<1>2. dyn = << >> /\ (s.stored > 0 => s.saved # 0)
  BY <1>1 DEF EventAt
<1>3. /\ stored' = stored
      /\ \/ hasData /\ Asks(Received, out', {"writeDynamic"})
         \/ ~hasData /\ Asks(Received, out', Advertising)
  BY <1>1, Answers
<1>4. /\ UNCHANGED <<eeprom, saved, peer>>
      /\ IF eeprom.flag THEN RestoresAt(0) ELSE UNCHANGED <<offset, message>>
  BY <1>1, StoreSteps
<1>5. /\ t.store = s.store /\ t.peer = s.peer /\ t.saved = s.saved /\ t.stored = s.stored
      /\ t.message = message' /\ t.offset = offset'
      /\ s.store = eeprom /\ s.stored = stored
  BY <1>3, <1>4 DEF Now
<1>6. StoreOK(t)
  <2> HIDE DEF s, t
  <2>1. QED
    BY <1>1, <1>5, SameStore
<1>7. s.stored \in Nat /\ (s.store.flag <=> s.stored > 0)
  BY <1>1 DEF StoreOK
<1>8. Chunks \in Nat /\ Chunks > 0
  BY ChunksAssumption
<1>9. CASE hasData /\ Asks(Received, out', {"writeDynamic"})
  <2>1. s.stored > 0 /\ eeprom.flag /\ s.saved # 0 /\ RestoresAt(0)
    BY <1>2, <1>4, <1>5, <1>7, <1>9 DEF hasData
  <2>2. s.peer.bond \in Bonds /\ Place(s.peer.bond)[1] = 0
    <3>1. s.peer.bond \in Bonds
      BY <1>1, <2>1 DEF StoreOK, Holds
    <3>2. QED
      BY <3>1, PlaceFacts
  <2>3. /\ t.message = MessageGot(s.store, Place(s.peer.bond)[1])
        /\ t.offset = Place(s.peer.bond)[1] + 1
                        + Len(MessageGot(s.store, Place(s.peer.bond)[1]))
    BY <1>5, <2>1, <2>2 DEF RestoresAt
  <2>4. 1 \in 1 .. Chunks
    BY <1>8
  <2> HIDE DEF s, t, k, dyn
  <2>5. Part(t.message, t.peer.bond, 1, Versions(t)) /\ t.offset = Place(t.peer.bond)[1 + 1]
    BY <1>1, <1>5, <2>1, <2>3, <2>4, NextRestored
  <2>6. RestoringAt(t, 0, dyn)
    BY <1>2, <1>5, <2>1 DEF RestoringAt, Parts
  <2>7. k.restored + 1 = 1 /\ k.restored + 2 = 1 + 1 /\ k.restored < Chunks
    BY <1>1, <1>8
  <2>8. \A c : c[1] \in {"writeDynamic"} => CommandAt(t, c, k, dyn)
    BY <1>1, <2>5, <2>6, <2>7, OnlyOp
  <2>9. QED
    BY <1>1, <1>6, <1>9, <2>8, StarterPoll DEF t, k, dyn
<1>10. CASE ~hasData /\ Asks(Received, out', Advertising)
  <2> HIDE DEF s, t, k, dyn
  <2>1. Ready(t, dyn)
    BY <1>2, <1>5, <1>7, <1>10 DEF Ready, hasData
  <2>2. \A c : c[1] \in Advertising => CommandAt(t, c, k, dyn)
    BY <2>1, OnlyOp
  <2>3. QED
    BY <1>1, <1>6, <1>10, <2>2, StarterPoll DEF t, k, dyn
<1>11. QED
  BY <1>3, <1>9, <1>10

LEMMA DisconnectedPoll ==
  ASSUME StoreInv, HidPoll, events # << >>, Head(events).type = "Disconnected"
  PROVE  StoreInv'
<1> DEFINE s == Now
           t == Now'
           k == chip'
           dyn == dynamic'
<1>1. /\ poll /\ TurnInv /\ StoreOK(s) /\ OutShape(out) /\ Starter(Head(events))
      /\ EventAt(s, Head(events), k, dyn) /\ Head(events).type # "HwError" /\ k.read = 0
      /\ StoreAt(s, Received.tx, AfterCommand, k, dyn)
  BY PollHandles DEF Starter
<1>2. Ready(s, dyn)
  BY <1>1 DEF EventAt
<1>3. /\ stored' = stored
      /\ \/ storeDynamicData /\ Asks(Received, out', {"readDynamic"})
         \/ ~storeDynamicData /\ Asks(Received, out', Advertising)
  BY <1>1, Answers
<1>4. UNCHANGED <<eeprom, saved, peer, offset, message>>
  BY StoreSteps
<1>5. /\ t.store = s.store /\ t.peer = s.peer /\ t.saved = s.saved /\ t.stored = s.stored
      /\ s.marked = storeDynamicData
  BY <1>3, <1>4 DEF Now
<1>6. StoreOK(t)
  <2> HIDE DEF s, t
  <2>1. QED
    BY <1>1, <1>5, SameStore
<1> HIDE DEF s, t, k, dyn
<1>7. CASE storeDynamicData /\ Asks(Received, out', {"readDynamic"})
  <2>1. Pure(s, dyn)
    BY <1>1, <1>5, <1>7 DEF StoreAt
  <2>2. SavingAt(t, k.read, dyn)
    BY <1>1, <1>5, <2>1 DEF SavingAt, Pure
  <2>3. \A c : c[1] \in {"readDynamic"} => CommandAt(t, c, k, dyn)
    BY <2>2, OnlyOp
  <2>4. QED
    BY <1>1, <1>6, <1>7, <2>3, StarterPoll DEF t, k, dyn
<1>8. CASE ~storeDynamicData /\ Asks(Received, out', Advertising)
  <2>1. Versions(t) = Versions(s)
    BY <1>5 DEF Versions
  <2>2. Ready(t, dyn)
    BY <1>2, <1>5, <2>1 DEF Ready, Parts
  <2>3. \A c : c[1] \in Advertising => CommandAt(t, c, k, dyn)
    BY <2>2, OnlyOp
  <2>4. QED
    BY <1>1, <1>6, <1>8, <2>3, StarterPoll DEF t, k, dyn
<1>9. QED
  BY <1>3, <1>7, <1>8

LEMMA WrittenPoll ==
  ASSUME StoreInv, HidPoll, events # << >>, Head(events).type = "DataWritten"
  PROVE  StoreInv'
<1> DEFINE s == Now
           t == Now'
           k == chip'
           dyn == dynamic'
           e == Head(events)
<1>1. /\ poll /\ TurnInv /\ StoreOK(s) /\ OutShape(out) /\ Starter(e)
      /\ EventAt(s, e, k, dyn) /\ e.type # "HwError"
      /\ StoreAt(s, Received.tx, AfterCommand, k, dyn)
  BY PollHandles DEF Starter
<1>2. /\ RestoringAt(s, k.restored, dyn) /\ k.restored > 0
      /\ s.offset = Place(s.peer.bond)[k.restored + 1]
      /\ e.complete <=> k.restored = Chunks
  BY <1>1 DEF EventAt
<1>3. /\ stored' = stored
      /\ \/ e.complete /\ Asks(Received, out', Advertising)
         \/ ~e.complete /\ Asks(Received, out', {"writeDynamic"})
  BY <1>1, Answers
<1>4. /\ UNCHANGED <<eeprom, saved, peer>>
      /\ ~e.complete => RestoresAt(offset)
  BY StoreSteps
<1>5. /\ t.store = s.store /\ t.peer = s.peer /\ t.saved = s.saved /\ t.stored = s.stored
      /\ t.message = message' /\ t.offset = offset' /\ s.offset = offset
      /\ s.store = eeprom
  BY <1>3, <1>4 DEF Now
<1>6. StoreOK(t)
  <2> HIDE DEF s, t
  <2>1. QED
    BY <1>1, <1>5, SameStore
<1>7. Chunks \in Nat /\ Chunks > 0 /\ k.restored \in 0 .. Chunks
  BY <1>1, ChunksAssumption DEF StoreAt
<1>8. ~e.complete =>
        /\ t.message = MessageGot(s.store, s.offset)
        /\ t.offset = s.offset + 1 + Len(MessageGot(s.store, s.offset))
  BY <1>4, <1>5 DEF RestoresAt
<1> HIDE DEF s, t, k, dyn, e
<1>9. Versions(t) = Versions(s)
  BY <1>5 DEF Versions
<1>10. s.peer.bond \in Bonds /\ s.saved # 0 /\ Len(dyn) = k.restored /\ Parts(s, dyn)
  BY <1>1, <1>2 DEF RestoringAt, StoreOK, Holds
<1>11. CASE e.complete /\ Asks(Received, out', Advertising)
  <2>1. Len(dyn) = Chunks /\ dyn # << >>
    <3>1. Len(dyn) = Chunks /\ Len(dyn) # 0
      BY <1>2, <1>7, <1>10, <1>11
    <3>2. Len(<< >>) = 0
      OBVIOUS
    <3>3. QED
      BY <3>1, <3>2
  <2>2. Ready(t, dyn)
    BY <1>5, <1>9, <1>10, <2>1 DEF Ready, Parts
  <2>3. \A c : c[1] \in Advertising => CommandAt(t, c, k, dyn)
    BY <2>2, OnlyOp
  <2>4. QED
    BY <1>1, <1>6, <1>11, <2>3, StarterPoll DEF t, k, dyn, e
<1>12. CASE ~e.complete /\ Asks(Received, out', {"writeDynamic"})
  <2> DEFINE i == k.restored + 1
  <2>1. k.restored < Chunks /\ i \in 1 .. Chunks /\ i + 1 = k.restored + 2
    BY <1>2, <1>7, <1>12
  <2> HIDE DEF i
  <2>2. /\ t.message = MessageGot(s.store, Place(s.peer.bond)[i])
        /\ t.offset = Place(s.peer.bond)[i] + 1
                        + Len(MessageGot(s.store, Place(s.peer.bond)[i]))
    BY <1>2, <1>8, <1>12 DEF i
  <2>3. Part(t.message, t.peer.bond, i, Versions(t)) /\ t.offset = Place(t.peer.bond)[i + 1]
    BY <1>1, <1>5, <1>10, <2>1, <2>2, NextRestored
  <2>4. RestoringAt(t, k.restored, dyn)
    BY <1>5, <1>9, <1>10 DEF RestoringAt, Parts
  <2>5. \A c : c[1] \in {"writeDynamic"} => CommandAt(t, c, k, dyn)
    BY <2>1, <2>3, <2>4, OnlyOp DEF i
  <2>6. QED
    BY <1>1, <1>6, <1>12, <2>5, StarterPoll DEF t, k, dyn, e
<1>13. QED
  BY <1>3, <1>11, <1>12

(* A message that was read is saved behind those before it.                *)
LEMMA SaveKeeps ==
  ASSUME NEW s, StoreOK(s), NEW dyn, NEW q \in 1 .. Chunks, SavingAt(s, q - 1, dyn),
         NEW t, t.peer = s.peer, t.stored = q,
         t.store = AfterWrites(s.store, MessagePut(dyn[q], Place(s.peer.bond)[q])),
         t.offset = Place(s.peer.bond)[q] + 1 + Len(dyn[q]),
         t.saved = IF q = Chunks THEN s.peer.version
                   ELSE IF s.saved = 0 THEN 0 ELSE Mixed
  PROVE  /\ StoreOK(t)
         /\ q = Chunks => Ready(t, dyn)
         /\ q # Chunks => SavingAt(t, q, dyn)
<1> DEFINE b == s.peer.bond
           v == s.peer.version
<1>1. /\ b \in Bonds /\ v > 0 /\ v \in Nat /\ Pure(s, dyn) /\ Eeprom(s.store)
      /\ q - 1 > 0 => \A i \in 1 .. q - 1 : Laid(s.store, b, i, {v})
  BY DEF SavingAt, Pure, StoreOK
<1>2. /\ dyn # << >> /\ Len(dyn) = Chunks /\ Parts(s, dyn)
      /\ dyn[q] = Message(b, v, q)
  BY <1>1, PureFacts
<1>3. Chunks \in Nat /\ Chunks > 0 /\ q \in Nat /\ q > 0 /\ q <= Chunks
  BY ChunksAssumption
<1>4. t.peer.bond = b /\ t.peer.version = v /\ Versions(t) = Versions(s) /\ v \in Versions(s)
  BY <1>1 DEF Versions
<1> HIDE DEF b, v
<1>5. /\ Kept(t.store, s.store, b, v, q)
      /\ Laid(t.store, b, q, {v})
  <2>1. b \in Bonds /\ Eeprom(s.store)
    BY <1>1
  <2>2. t.store = AfterWrites(s.store, MessagePut(Message(b, v, q), Place(b)[q]))
    BY <1>2 DEF b
  <2>3. /\ Kept(AfterWrites(s.store, MessagePut(Message(b, v, q), Place(b)[q])), s.store, b, v, q)
        /\ Laid(AfterWrites(s.store, MessagePut(Message(b, v, q), Place(b)[q])), b, q, {v})
    BY <2>1, MessageSaved
  <2>4. QED
    BY <2>2, <2>3
<1>6. Eeprom(t.store) /\ t.store.flag
  BY <1>5 DEF Kept
<1>7. ASSUME NEW i \in 1 .. q PROVE Laid(t.store, b, i, {v})
  <2>1. CASE i = q
    BY <1>5, <2>1
  <2>2. CASE i # q
    <3>1. i \in 1 .. q - 1 /\ q - 1 > 0 /\ i \in 1 .. Chunks
      BY <1>3, <2>2
    <3>2. QED
      BY <1>1, <1>5, <2>2, <3>1 DEF Kept
  <2>3. QED
    BY <2>1, <2>2
<1>8. ASSUME NEW vs, v \in vs, Holds(s, vs) PROVE Holds(t, vs)
  BY <1>4, <1>5, <1>8 DEF Holds, Kept, b
<1>9. ASSUME q = Chunks PROVE Holds(t, {v}) /\ Holds(t, Versions(t))
  <2>1. \A i \in 1 .. Chunks : Laid(t.store, b, i, {v})
    BY <1>7, <1>9
  <2>2. \A w \in {v} : w \in Versions(t)
    BY <1>4
  <2>3. \A i \in 1 .. Chunks : Laid(t.store, b, i, Versions(t))
    BY <2>1, <2>2, LaidMore
  <2>4. QED
    BY <1>1, <1>4, <2>1, <2>3 DEF Holds
<1>10. /\ t.saved \in {Mixed} \cup 0 .. v
       /\ t.saved # 0 => Holds(t, Versions(t))
       /\ t.saved > 0 => Holds(t, {t.saved})
       /\ q = Chunks => t.saved # 0
  <2>1. CASE q = Chunks
    <3>1. t.saved = v
      BY <2>1 DEF v
    <3>2. Holds(t, {t.saved}) /\ Holds(t, Versions(t))
      BY <1>9, <2>1, <3>1
    <3>3. v \in {Mixed} \cup 0 .. v /\ v # 0
      BY <1>1
    <3>4. QED
      BY <3>1, <3>2, <3>3
  <2>2. CASE q # Chunks /\ s.saved = 0
    BY <1>1, <2>2
  <2>3. CASE q # Chunks /\ s.saved # 0
    <3>1. t.saved = Mixed /\ ~(Mixed > 0) /\ Mixed # 0
      BY <2>3 DEF Mixed
    <3>2. Holds(t, Versions(t))
      BY <1>4, <1>8, <2>3 DEF StoreOK
    <3>3. QED
      BY <2>3, <3>1, <3>2
  <2>4. QED
    BY <2>1, <2>2, <2>3
<1>11. StoreOK(t)
  BY <1>3, <1>4, <1>6, <1>10 DEF StoreOK, v
<1>12. q = Chunks => Ready(t, dyn)
  BY <1>1, <1>2, <1>4, <1>10 DEF Ready, Parts, b
<1>13. ASSUME q # Chunks PROVE SavingAt(t, q, dyn)
  <2>1. Pure(t, dyn)
    BY <1>1, <1>4 DEF Pure, b, v
  <2>2. t.offset = Place(b)[q + 1]
    <3>0. b \in Bonds
      BY <1>1
    <3>1. Len(Message(b, v, q)) = Sizes[b][q]
      BY <3>0, MessageLength
    <3>2. Place(b)[q + 1] = Place(b)[q] + 1 + Sizes[b][q]
      BY <1>1, PlaceFacts
    <3>3. QED
      BY <1>2, <3>1, <3>2 DEF b
  <2>3. QED
    BY <1>4, <1>7, <2>1, <2>2 DEF SavingAt
<1>14. QED
  BY <1>11, <1>12, <1>13

LEMMA SavePlace ==
  ASSUME NEW s, NEW q \in 1 .. Chunks, NEW dyn, SavingAt(s, q - 1, dyn), s.offset = offset,
         Head(events).seqNo = q
  PROVE  SaveOffset = Place(s.peer.bond)[q]
<1>1. CASE q = 1
  <2>1. s.peer.bond \in Bonds
    BY DEF SavingAt, Pure
  <2>2. QED
    BY <1>1, <2>1, PlaceFacts DEF SaveOffset
<1>2. CASE q # 1
  <2>1. q - 1 > 0 /\ (q - 1) + 1 = q
    BY <1>2, ChunksAssumption
  <2>2. s.offset = Place(s.peer.bond)[(q - 1) + 1]
    BY <2>1 DEF SavingAt
  <2>3. QED
    BY <1>2, <2>1, <2>2 DEF SaveOffset
<1>3. QED
  BY <1>1, <1>2

LEMMA ReadPoll ==
  ASSUME StoreInv, HidPoll, events # << >>, Head(events).type = "DataRead"
  PROVE  StoreInv'
<1> DEFINE s == Now
           t == Now'
           k == chip'
           dyn == dynamic'
           e == Head(events)
           q == e.seqNo
<1>1. /\ poll /\ TurnInv /\ StoreOK(s) /\ OutShape(out) /\ Starter(e)
      /\ EventAt(s, e, k, dyn) /\ e.type # "HwError"
  BY PollHandles DEF Starter
<1>2. /\ q \in 1 .. Chunks /\ (e.complete <=> q = Chunks)
      /\ SavingAt(s, q - 1, dyn)
      /\ ~e.complete => k.read = q
  BY <1>1 DEF EventAt
<1>3. /\ stored' = q
      /\ \/ e.complete /\ Asks(Received, out', Advertising)
         \/ ~e.complete /\ Asks(Received, out', {"readDynamic"})
  BY <1>1, Answers
<1>4. /\ peer' = peer /\ eeprom' = AfterWrites(eeprom, Saving)
      /\ offset' = SaveOffset + 1 + Len(dynamic[q])
      /\ saved' = IF e.complete THEN peer.version ELSE Interrupted
  BY StoreSteps
<1>5. dyn = dynamic
  <2>1. 1 \in DOMAIN events /\ e = events[1] /\ IsQueue(out.tx)
    BY <1>1, RestIndex DEF TurnInv, OutShape
  <2>2. NoControl(out.tx)
    BY <1>1, <2>1 DEF TurnInv, Turn, NoControl
  <2>3. ~Carries("writeDynamic")
    <3>1. ASSUME out.tx # << >> PROVE ~Control(Head(out.tx))
      BY <2>1, <2>2, <3>1, RestIndex DEF NoControl
    <3>2. QED
      BY <3>1 DEF Carries, Control
  <2>4. QED
    BY <2>3 DEF HidPoll, ChipRestored
<1>6. SaveOffset = Place(s.peer.bond)[q]
  <2>1. s.offset = offset
    BY DEF Now
  <2>2. QED
    BY <1>2, <2>1, SavePlace
<1>7. /\ t.peer = s.peer /\ t.stored = q
      /\ t.store = AfterWrites(s.store, MessagePut(dyn[q], Place(s.peer.bond)[q]))
      /\ t.offset = Place(s.peer.bond)[q] + 1 + Len(dyn[q])
      /\ t.saved = IF q = Chunks THEN s.peer.version
                   ELSE IF s.saved = 0 THEN 0 ELSE Mixed
  <2>1. /\ t.peer = peer' /\ t.stored = stored' /\ t.store = eeprom' /\ t.offset = offset'
        /\ t.saved = saved'
        /\ s.peer = peer /\ s.store = eeprom /\ s.saved = saved
    BY DEF Now
  <2>2. Saving = MessagePut(dynamic[q], SaveOffset)
    BY DEF Saving
  <2> HIDE DEF s, t, dyn, q, e
  <2>3. QED
    BY <1>2, <1>3, <1>4, <1>5, <1>6, <2>1, <2>2 DEF Interrupted
<1> HIDE DEF s, t, k, dyn, q
<1>8. /\ StoreOK(t)
      /\ q = Chunks => Ready(t, dyn)
      /\ q # Chunks => SavingAt(t, q, dyn)
  BY <1>1, <1>2, <1>7, SaveKeeps
<1>9. CASE e.complete /\ Asks(Received, out', Advertising)
  <2>1. \A c : c[1] \in Advertising => CommandAt(t, c, k, dyn)
    BY <1>2, <1>8, <1>9, OnlyOp
  <2>2. QED
    BY <1>1, <1>8, <1>9, <2>1, StarterPoll DEF t, k, dyn
<1>10. CASE ~e.complete /\ Asks(Received, out', {"readDynamic"})
  <2>1. SavingAt(t, k.read, dyn)
    BY <1>2, <1>8, <1>10
  <2>2. \A c : c[1] \in {"readDynamic"} => CommandAt(t, c, k, dyn)
    BY <2>1, OnlyOp
  <2>3. QED
    BY <1>1, <1>8, <1>10, <2>2, StarterPoll DEF t, k, dyn
<1>11. QED
  BY <1>3, <1>9, <1>10

LEMMA PollStore ==
  ASSUME StoreInv, HidPoll
  PROVE  StoreInv'
<1>1. CASE events # << >> => ~Starter(Head(events))
  BY <1>1, QuietPoll
<1>2. CASE events # << >> /\ Starter(Head(events))
  BY <1>2, StartedPoll, DisconnectedPoll, WrittenPoll, ReadPoll DEF Starter
<1>3. QED
  BY <1>1, <1>2

------------------------------------------------------------------------------
(* The other steps.  The sketch sends what a call may send.                *)
LEMMA SketchStore ==
  ASSUME StoreInv, Acts(out, out', "any"),
         UNCHANGED <<chip, events, central, subscribed, bonding, storing>>
  PROVE  StoreInv'
<1>1. /\ BondingInv /\ StoreOK(Now) /\ StoreAt(Now, out.tx, events, chip, dynamic)
      /\ UNCHANGED <<sequenceNo, stored>>
  BY DEF StoreInv, bonding
<1>2. /\ BondingInv'
      /\ \A i \in DOMAIN out'.tx :
           Control(out'.tx[i]) => \E j \in DOMAIN out.tx : out'.tx[i] = out.tx[j]
  BY <1>1, ActsBonding
<1>3. Now' = Now /\ chip' = chip /\ events' = events /\ dynamic' = dynamic
  BY DEF Now, bonding, storing
<1>4. SameData(chip, chip) /\ (chip.mode # "standby" => chip.mode # "standby")
  BY DEF SameData
<1>5. StoreAt(Now, out'.tx, events, chip, dynamic)
  <2> DEFINE ux == out'.tx
  <2>1. /\ \A i \in DOMAIN ux : Control(ux[i]) => \E j \in DOMAIN out.tx : ux[i] = out.tx[j]
        /\ \A i \in DOMAIN events : \E j \in DOMAIN events : events[i] = events[j]
    BY <1>2
  <2> HIDE DEF ux
  <2>2. StoreAt(Now, ux, events, chip, dynamic)
    BY <1>1, <1>4, <2>1, StoreKept
  <2>3. QED
    BY <2>2 DEF ux
<1>6. QED
  BY <1>1, <1>2, <1>3, <1>5 DEF StoreInv

(* The chip emits an event that tells nothing of the data, or of the end   *)
(* of a link.                                                              *)
LEMMA StoreEmitted ==
  ASSUME StoreInv, BondingInv', NEW e, Emits(e), chip.mode # "standby",
         SameData(chip, chip'), Tells(e) => e.type = "Disconnected", UNCHANGED storing
  PROVE  StoreInv'
<1>1. /\ events' = Append(events, e) /\ out' = out /\ UNCHANGED <<bonding, central>>
  BY DEF Emits, sketch
<1>2. /\ IsQueue(events) /\ StoreOK(Now) /\ StoreAt(Now, out.tx, events, chip, dynamic)
  BY DEF StoreInv, BondingInv, TurnInv
<1>3. Now' = Now /\ dynamic' = dynamic
  BY <1>1 DEF Now, bonding, storing
<1>4. \A i \in DOMAIN events' : events'[i] = e \/ \E j \in DOMAIN events : events'[i] = events[j]
  BY <1>1, <1>2, AppendElements
<1>5. \A i \in DOMAIN events' : Tells(events'[i]) =>
        \/ \E j \in DOMAIN events : events'[i] = events[j]
        \/ events'[i].type = "Disconnected" /\ chip.mode # "standby"
  BY <1>4
<1>6. StoreAt(Now, out.tx, events', chip', dynamic)
  <2> DEFINE fv == events'
             n == chip'
  <2>1. /\ \A i \in DOMAIN fv : Tells(fv[i]) =>
             (\E j \in DOMAIN events : fv[i] = events[j])
               \/ (fv[i].type = "Disconnected" /\ chip.mode # "standby")
        /\ \A i \in DOMAIN out.tx :
             Control(out.tx[i]) => \E j \in DOMAIN out.tx : out.tx[i] = out.tx[j]
        /\ SameData(chip, n) /\ (n.mode # "standby" => chip.mode # "standby")
    BY <1>5
  <2> HIDE DEF fv, n
  <2>2. StoreAt(Now, out.tx, fv, n, dynamic)
    BY <1>2, <2>1, StoreKept
  <2>3. QED
    BY <2>2 DEF fv, n
<1>7. QED
  BY <1>1, <1>2, <1>3, <1>6 DEF StoreInv

LEMMA PeerStore ==
  ASSUME StoreInv, UNCHANGED storing,
         PeerConnects \/ PeerSetsPipes \/ PeerTakesData \/ LinkEnds
  PROVE  StoreInv'
<1> USE DEF Tells, Starter, SameData, Connectable
<1>1. ChipShape(chip) /\ BondingInv'
  BY PeerBonding DEF StoreInv, BondingInv, TurnInv, Undisturbed
<1>2. CASE PeerConnects
  <2>1. SameData(chip, chip') /\ chip.mode # "standby"
    BY <1>1, <1>2 DEF PeerConnects, ChipShape
  <2>2. QED
    BY <1>1, <1>2, <2>1, StoreEmitted DEF PeerConnects
<1>3. CASE PeerSetsPipes
  <2>1. PICK pipes, closed :
          /\ chip' = [chip EXCEPT !.open = pipes]
          /\ Emits([type |-> "PipeStatus", open |-> pipes, closed |-> closed])
    BY <1>3 DEF PeerSetsPipes
  <2>2. SameData(chip, chip') /\ chip.mode # "standby"
    BY <1>1, <1>3, <2>1 DEF PeerSetsPipes, ChipShape
  <2>3. QED
    BY <1>1, <2>1, <2>2, StoreEmitted
<1>4. CASE PeerTakesData
  <2>1. SameData(chip, chip') /\ chip.mode # "standby"
    BY <1>1, <1>4 DEF PeerTakesData, ChipShape
  <2>2. QED
    BY <1>1, <1>4, <2>1, StoreEmitted DEF PeerTakesData
<1>5. CASE LinkEnds
  <2>1. SameData(chip, chip') /\ chip.mode # "standby"
    BY <1>1, <1>5 DEF LinkEnds, Unlinked, ChipShape
  <2>2. QED
    BY <1>1, <1>5, <2>1, StoreEmitted DEF LinkEnds
<1>6. QED
  BY <1>2, <1>3, <1>4, <1>5

(* A bond is made, or its data change: the store, if it has any, has data  *)
(* of the same bond, which an earlier version of them may be.              *)
LEMMA NewData ==
  ASSUME NEW s, StoreOK(s), NEW dyn, Ready(s, dyn), NEW t,
         t.store = s.store, t.saved = s.saved, t.stored = s.stored,
         \/ /\ dyn = << >> /\ s.peer.bond < MaxBonds
            /\ t.peer = [bond |-> s.peer.bond + 1, version |-> 1]
         \/ dyn # << >> /\ t.peer \in {s.peer, [s.peer EXCEPT !.version = @ + 1]}
  PROVE  /\ StoreOK(t)
         /\ \A data : data = Data(t.peer.bond, t.peer.version) => Pure(t, data) /\ Ready(t, data)
<1> DEFINE b == s.peer.bond
           v == s.peer.version
<1>0. /\ s.peer = [bond |-> b, version |-> v] /\ v \in Nat /\ b \in 0 .. MaxBonds
      /\ b > 0 => v > 0
      /\ MaxBonds \in Nat
  BY BondsAssumption DEF StoreOK
<1>1. CASE dyn = << >> /\ b < MaxBonds /\ t.peer = [bond |-> b + 1, version |-> 1]
  <2>1. s.stored = 0 /\ s.saved = 0
    BY <1>1 DEF Ready, StoreOK
  <2>2. t.peer.bond = b + 1 /\ t.peer.version = 1
    BY <1>1
  <2>3. b + 1 \in Bonds /\ b + 1 \in 0 .. MaxBonds
    BY <1>0, <1>1 DEF Bonds
  <2>4. StoreOK(t)
    BY <1>1, <2>1, <2>2, <2>3 DEF StoreOK
  <2>5. ASSUME NEW data, data = Data(t.peer.bond, t.peer.version)
        PROVE  Pure(t, data) /\ Ready(t, data)
    <3>1. Pure(t, data)
      BY <2>2, <2>3, <2>5 DEF Pure
    <3>2. dyn = << >> /\ data # << >> /\ Len(data) = Chunks /\ Parts(t, data)
      BY <1>1, <2>2, <3>1, PureFacts
    <3>3. QED
      BY <2>1, <2>2, <2>3, <3>1, <3>2 DEF Ready
  <2>6. QED
    BY <2>4, <2>5
<1>2. CASE dyn # << >> /\ t.peer \in {s.peer, [s.peer EXCEPT !.version = @ + 1]}
  <2>1. t.peer.bond = b /\ t.peer.version \in {v, v + 1}
    BY <1>0, <1>2
  <2>2. t.peer = [bond |-> b, version |-> t.peer.version]
    BY <1>0, <1>2
  <2> DEFINE w == t.peer.version
  <2> HIDE DEF b, v, w
  <2>3. /\ b \in Bonds /\ v > 0 /\ w \in Nat /\ w > 0 /\ w >= v
        /\ \A x \in 1 .. v : x \in 1 .. w
        /\ \A x \in {Mixed} \cup 0 .. v : x \in {Mixed} \cup 0 .. w
    <3>1. b \in Bonds /\ v > 0
      BY <1>0, <1>2 DEF Ready, Bonds, b
    <3>2. QED
      BY <1>0, <2>1, <3>1 DEF w
  <2>4. Holds(s, Versions(s)) => Holds(t, Versions(t))
    <3>1. \A i : Laid(s.store, b, i, 1 .. v) => Laid(s.store, b, i, 1 .. w)
      BY <2>3, LaidMore
    <3>2. QED
      BY <2>1, <3>1 DEF Holds, Versions, b, v, w
  <2>5. \A vs : Holds(s, vs) => Holds(t, vs)
    BY <2>1 DEF Holds, b
  <2>6. StoreOK(t)
    <3>1. t.saved \in {Mixed} \cup 0 .. w
      BY <2>3 DEF StoreOK, v
    <3>2. b \in 0 .. MaxBonds
      BY <1>0
    <3>3. t.peer = [bond |-> t.peer.bond, version |-> t.peer.version]
      BY <2>1, <2>2
    <3>4. QED
      BY <2>1, <2>3, <2>4, <2>5, <3>1, <3>2, <3>3 DEF StoreOK, w
  <2>7. ASSUME NEW data, data = Data(t.peer.bond, t.peer.version)
        PROVE  Pure(t, data) /\ Ready(t, data)
    <3>1. Pure(t, data)
      BY <2>1, <2>3, <2>7 DEF Pure, w
    <3>2. data # << >> /\ Len(data) = Chunks /\ Parts(t, data)
      BY <2>3, <3>1, PureFacts DEF w
    <3>3. t.stored > 0 => t.saved # 0
      BY <1>2 DEF Ready
    <3>4. QED
      BY <2>1, <2>3, <3>1, <3>2, <3>3 DEF Ready
  <2>8. QED
    BY <2>6, <2>7
<1>3. QED
  BY <1>1, <1>2

LEMMA BondsStore ==
  ASSUME StoreInv, HostBonds
  PROVE  StoreInv'
<1>1. /\ ChipShape(chip) /\ TurnInv /\ BondingInv' /\ PeerBonds
      /\ UNCHANGED <<eeprom, offset, message, saved>>
      /\ StoreOK(Now) /\ StoreAt(Now, out.tx, events, chip, dynamic)
      /\ IsQueue(events)
  BY PeerBonding DEF HostBonds, StoreInv, BondingInv, TurnInv, Undisturbed
<1>2. PICK success, x, y :
        /\ chip' = [chip EXCEPT !.bonded = x, !.toSave = y]
        /\ Emits([type |-> "BondStatus", success |-> success])
  BY <1>1 DEF PeerBonds
<1> DEFINE e == [type |-> "BondStatus", success |-> success]
<1>3. e.type = "BondStatus" /\ e.success = success /\ Emits(e)
  BY <1>2
<1> HIDE DEF e
<1>4. /\ events' = Append(events, e) /\ out' = out /\ UNCHANGED <<bonding, central>>
  BY <1>3 DEF Emits, sketch
<1>5. chip.mode = "connected" /\ chip'.mode = "connected" /\ SameData(chip, chip')
  BY <1>1, <1>2 DEF PeerBonds, ChipShape, SameData
<1>6. /\ Last(events') = e
      /\ \A i \in DOMAIN events' : events'[i] = e \/ \E j \in DOMAIN events : events'[i] = events[j]
  <2>1. Len(events') = Len(events) + 1 /\ events'[Len(events) + 1] = e
    BY <1>1, <1>4, AppendFacts
  <2>2. QED
    BY <1>1, <1>4, <2>1, AppendElements DEF Last
<1>7. CASE ~success
  <2>1. UNCHANGED storing
    BY <1>1, <1>3, <1>6, <1>7 DEF HostBonds, storing
  <2>2. ~Tells(e)
    BY <1>3, <1>7 DEF Tells, Starter
  <2>3. QED
    BY <1>1, <1>3, <1>5, <2>1, <2>2, StoreEmitted
<1>8. CASE success
  <2> DEFINE s == Now
             t == Now'
             dyn == dynamic'
             n == chip'
             fv == events'
  <2>1. /\ \/ dynamic = << >> /\ peer.bond < MaxBonds
                /\ peer' = [bond |-> peer.bond + 1, version |-> 1]
           \/ dynamic # << >> /\ peer' = peer
           \/ dynamic # << >> /\ peer' = [peer EXCEPT !.version = @ + 1]
        /\ dynamic' = Data(peer'.bond, peer'.version)
    BY <1>3, <1>6, <1>8 DEF HostBonds
  <2>2. /\ t.store = s.store /\ t.saved = s.saved /\ t.stored = s.stored
        /\ t.peer = peer' /\ s.peer = peer /\ t.marked = s.marked /\ t.linked = s.linked
    BY <1>1, <1>4 DEF Now, bonding
  <2>3. Ready(s, dynamic)
    BY <1>1, <1>5 DEF StoreAt
  <2>4. NoControl(out.tx) /\ NoStarter(events)
    BY <1>1, <1>5, BusyChip
  <2> HIDE DEF s, t, dyn, n, fv
  <2>5. StoreOK(t) /\ Pure(t, dyn) /\ Ready(t, dyn)
    <3>1. \/ /\ dynamic = << >> /\ s.peer.bond < MaxBonds
             /\ t.peer = [bond |-> s.peer.bond + 1, version |-> 1]
          \/ dynamic # << >> /\ t.peer = s.peer
          \/ dynamic # << >> /\ t.peer = [s.peer EXCEPT !.version = @ + 1]
      BY <2>1, <2>2
    <3>2. dyn = Data(t.peer.bond, t.peer.version)
      BY <2>1, <2>2 DEF dyn
    <3>3. StoreOK(s)
      BY <1>1 DEF s
    <3>4. \/ /\ dynamic = << >> /\ s.peer.bond < MaxBonds
             /\ t.peer = [bond |-> s.peer.bond + 1, version |-> 1]
          \/ dynamic # << >> /\ t.peer \in {s.peer, [s.peer EXCEPT !.version = @ + 1]}
      BY <3>1
    <3>5. /\ StoreOK(t)
          /\ \A data : data = Data(t.peer.bond, t.peer.version) => Pure(t, data) /\ Ready(t, data)
      BY <2>2, <2>3, <3>3, <3>4, NewData
    <3>6. QED
      BY <3>2, <3>5
  <2>6. IsQueue(dyn)
    BY <2>5, PureFacts DEF StoreOK
  <2>7. \A i \in DOMAIN out.tx : CommandAt(t, out.tx[i], n, dyn)
    BY <2>4, Silent DEF NoControl
  <2>8. ASSUME NEW j \in DOMAIN fv PROVE EventAt(t, fv[j], n, dyn)
    <3>1. ~Starter(fv[j])
      <4>1. ~Starter(e)
        BY <1>3 DEF Starter
      <4>2. QED
        BY <1>6, <2>4, <4>1 DEF NoStarter, fv
    <3>2. QED
      BY <2>5, <3>1 DEF EventAt, Starter
  <2>9. n.restored = chip.restored /\ n.read = chip.read
    BY <1>5 DEF SameData, n
  <2>10. s.marked => s.linked
    BY <1>1 DEF StoreAt, s
  <2>11. chip.restored \in 0 .. Chunks /\ chip.read \in 0 .. Chunks - 1
    BY <1>1 DEF StoreAt
  <2>12. StoreAt(t, out.tx, fv, n, dyn)
    BY <2>2, <2>5, <2>6, <2>7, <2>8, <2>9, <2>10, <2>11 DEF StoreAt
  <2>13. QED
    BY <1>1, <1>4, <2>5, <2>12 DEF StoreInv, t, dyn, n, fv
<1>9. QED
  BY <1>7, <1>8

------------------------------------------------------------------------------
(* Power is lost, and comes back.                                          *)
FreshWithStore ==
  /\ Fresh /\ StoreOK(Now) /\ dynamic = << >> /\ ~storeDynamicData
  /\ stored > 0 => saved # 0

LEMMA FreshStore == FreshWithStore => StoreInv
<1> SUFFICES ASSUME Fresh, StoreOK(Now), dynamic = << >>, ~storeDynamicData,
                    stored > 0 => saved # 0
             PROVE  StoreInv
  BY DEF FreshWithStore
<1>1. BondingInv
  BY FreshBonding
<1>2. /\ DOMAIN events = {1} /\ events[1].type = "DeviceStarted"
      /\ DOMAIN out.tx = {1} /\ out.tx[1] = <<"info", 0>>
  BY SingleFacts, BegunFacts DEF Fresh
<1>3. chip.read = 0 /\ chip.restored = 0 /\ chip.mode = "standby"
  BY DEF Fresh, SetUp
<1>4. Now.stored = stored /\ Now.saved = saved /\ Now.marked = storeDynamicData
  BY DEF Now
<1>5. ~Control(out.tx[1])
  BY <1>2 DEF Control, Advertising, Connectable
<1>6. \A i \in DOMAIN out.tx : CommandAt(Now, out.tx[i], chip, dynamic)
  BY <1>2, <1>5, Silent
<1>7. \A j \in DOMAIN events : EventAt(Now, events[j], chip, dynamic)
  BY <1>2, <1>4 DEF EventAt
<1>8. IsQueue(dynamic)
  <2>1. << >> \in Seq({})
    OBVIOUS
  <2>2. QED
    BY <2>1 DEF IsQueue
<1>9. 0 \in 0 .. Chunks /\ 0 \in 0 .. Chunks - 1
  BY ChunksAssumption
<1>10. StoreAt(Now, out.tx, events, chip, dynamic)
  BY <1>3, <1>4, <1>6, <1>7, <1>8, <1>9 DEF StoreAt
<1>11. QED
  BY <1>1, <1>10 DEF StoreInv

LEMMA RestartStore ==
  ASSUME NEW s, StoreOK(s), s.peer = peer, NEW version,
         s.stored = IF s.store.flag THEN Chunks ELSE 0,
         version = Half \/ (version = s.saved /\ (s.store.flag => s.saved # 0)),
         Restarts(s.store, version)
  PROVE  StoreInv' \/ saved' = Half
<1> DEFINE t == Now'
<1>1. /\ t.store = eeprom' /\ t.peer = peer' /\ t.saved = saved' /\ t.stored = stored'
      /\ peer' = peer
  BY DEF Now, Restarts
<1>2. /\ stored' = IF eeprom'.flag THEN Chunks ELSE 0
      /\ dynamic' = << >> /\ storeDynamicData' = FALSE
  BY DEF Restarts, hasDataIn
<1>3. Chunks \in Nat /\ Chunks > 0
  BY ChunksAssumption
<1>4. Fresh'
  BY <1>2 DEF Restarts, Fresh
<1> HIDE DEF t
<1>5. CASE eeprom' = s.store /\ saved' = s.saved /\ (s.store.flag => s.saved # 0)
  <2>1. /\ t.store = s.store /\ t.peer = s.peer /\ t.saved = s.saved /\ t.stored = s.stored
    BY <1>1, <1>2, <1>5
  <2>2. StoreOK(t)
    BY <2>1, SameStore
  <2>3. stored' > 0 => saved' # 0
    BY <1>2, <1>3, <1>5
  <2>4. StoreOK(Now)'
    BY <2>2 DEF t
  <2>5. FreshWithStore'
    BY <1>2, <1>4, <2>3, <2>4 DEF FreshWithStore
  <2>6. QED
    BY <2>5, FreshStore, PTL
<1>6. CASE eeprom' = clearData(s.store) /\ saved' = 0
  <2>1. Eeprom(eeprom') /\ ~eeprom'.flag
    <3>1. s.store = [flag |-> s.store.flag, bytes |-> s.store.bytes] /\ Eeprom(s.store)
      BY DEF StoreOK, Eeprom
    <3>2. eeprom' = [flag |-> FALSE, bytes |-> s.store.bytes]
      BY <1>6, <3>1 DEF clearData
    <3>3. QED
      BY <3>1, <3>2 DEF Eeprom
  <2>2. stored' = 0
    BY <1>2, <2>1
  <2>3. StoreOK(t)
    BY <1>1, <1>6, <2>1, <2>2 DEF StoreOK
  <2>4. ~(stored' > 0)
    BY <2>2
  <2>5. StoreOK(Now)'
    BY <2>3 DEF t
  <2>6. FreshWithStore'
    BY <1>2, <1>4, <2>4, <2>5 DEF FreshWithStore
  <2>7. QED
    BY <2>6, FreshStore, PTL
<1>7. QED
  BY <1>5, <1>6 DEF Restarts

LEMMA PowerStore ==
  ASSUME StoreInv, PowerLost
  PROVE  StoreInv' \/ saved' = Half
<1> DEFINE version == IF hasDataIn(eeprom) /\ saved = 0 THEN Half ELSE saved
           s == [store |-> eeprom, peer |-> peer, saved |-> saved,
                 stored |-> IF eeprom.flag THEN Chunks ELSE 0]
<1>1. StoreOK(Now) /\ Now.store = eeprom /\ Now.peer = peer /\ Now.saved = saved
  BY DEF StoreInv, Now
<1>2. /\ s.store = eeprom /\ s.peer = peer /\ s.saved = saved
      /\ s.stored = IF s.store.flag THEN Chunks ELSE 0
  OBVIOUS
<1>3. /\ version = Half \/ (version = saved /\ (eeprom.flag => saved # 0))
      /\ Restarts(eeprom, version)
  BY DEF PowerLost, hasDataIn
<1>4. Chunks \in Nat /\ Chunks > 0
  BY ChunksAssumption
<1> HIDE DEF s
<1>5. /\ Versions(s) = Versions(Now)
      /\ \A vs : Holds(s, vs) <=> Holds(Now, vs)
  BY <1>1, <1>2 DEF Versions, Holds
<1>6. StoreOK(s)
  BY <1>1, <1>2, <1>4, <1>5 DEF StoreOK
<1> HIDE DEF version
<1>7. QED
  BY <1>2, <1>3, <1>6, RestartStore

LEMMA PowerSavingStore ==
  ASSUME StoreInv, PowerLostSaving
  PROVE  StoreInv' \/ saved' = Half
<1> DEFINE q == Head(events).seqNo
           b == peer.bond
           v == peer.version
<1>1. /\ StoreOK(Now) /\ Now.store = eeprom /\ Now.peer = peer /\ Now.saved = saved
      /\ Now.offset = offset
      /\ IsQueue(events) /\ StoreAt(Now, out.tx, events, chip, dynamic)
  BY DEF StoreInv, BondingInv, TurnInv, Now
<1>2. events # << >> /\ Head(events).type = "DataRead"
  BY DEF PowerLostSaving, Handles
<1>3. 1 \in DOMAIN events /\ Head(events) = events[1]
  BY <1>1, <1>2, RestIndex
<1>4. q \in 1 .. Chunks /\ SavingAt(Now, q - 1, dynamic)
  BY <1>1, <1>2, <1>3 DEF StoreAt, EventAt
<1>5. SaveOffset = Place(b)[q]
  BY <1>1, <1>4, SavePlace
<1>6. dynamic[q] = Message(b, v, q) /\ b \in Bonds /\ v > 0 /\ v \in Nat
  <2>1. Pure(Now, dynamic) /\ v \in Nat
    BY <1>1, <1>4 DEF SavingAt, StoreOK
  <2>2. QED
    BY <1>1, <1>4, <2>1, PureFacts DEF Pure
<1>7. Saving = MessagePut(Message(b, v, q), Place(b)[q])
  BY <1>5, <1>6 DEF Saving
<1> DEFINE version == IF saved = 0 THEN Half ELSE Mixed
           before == IF saved = 0 THEN 0 ELSE Mixed
<1>8. PICK n \in 1 .. Len(Saving) - 1 :
        Restarts(AfterWrites(eeprom, SubSeq(Saving, 1, n)), version)
  BY DEF PowerLostSaving
<1> DEFINE store == AfterWrites(eeprom, SubSeq(Saving, 1, n))
           s == [store |-> store, peer |-> peer, saved |-> before, stored |-> Chunks]
<1> HIDE DEF q, b, v
<1>9. Eeprom(eeprom)
  BY <1>1 DEF StoreOK
<1>10. Kept(store, eeprom, b, v, q)
  BY <1>4, <1>6, <1>7, <1>9, MessageSaved
<1>11. s.store = store /\ s.peer = peer /\ s.saved = before /\ s.stored = Chunks
  OBVIOUS
<1>12. Restarts(store, version)
  BY <1>8
<1> HIDE DEF store, s
<1>13. Eeprom(store) /\ store.flag
  BY <1>10 DEF Kept
<1>14. Versions(s) = Versions(Now) /\ v \in Versions(s)
  BY <1>1, <1>6, <1>11 DEF Versions, v
<1>15. ASSUME saved # 0 PROVE Holds(s, Versions(s))
  <2>1. Holds(Now, Versions(Now))
    BY <1>1, <1>15 DEF StoreOK
  <2>2. \A i \in 1 .. Chunks : Laid(eeprom, b, i, Versions(s))
    BY <1>1, <1>14, <2>1 DEF Holds, b
  <2>3. \A i \in 1 .. Chunks : Laid(store, b, i, Versions(s))
    BY <1>10, <1>14, <2>2 DEF Kept
  <2>4. QED
    BY <1>6, <1>11, <2>3 DEF Holds, b
<1>16. Chunks \in Nat /\ Chunks > 0
  BY ChunksAssumption
<1>17. /\ before \in {Mixed, 0} /\ ~(before > 0)
       /\ before # 0 <=> saved # 0
       /\ version = Half \/ (version = before /\ before # 0)
  BY DEF Mixed
<1> HIDE DEF version, before
<1>18. StoreOK(s)
  <2>1. /\ s.peer = Now.peer /\ Now.peer.version \in Nat
        /\ 0 \in 0 .. Now.peer.version
    BY <1>1, <1>11 DEF StoreOK
  <2>2. s.saved \in {Mixed} \cup 0 .. s.peer.version /\ ~(s.saved > 0)
    BY <1>11, <1>17, <2>1
  <2>3. s.saved # 0 => s.stored > 0 /\ Holds(s, Versions(s))
    BY <1>11, <1>15, <1>16, <1>17
  <2>4. Eeprom(s.store) /\ s.stored \in Nat /\ (s.store.flag <=> s.stored > 0)
    BY <1>11, <1>13, <1>16
  <2>5. QED
    BY <1>1, <2>1, <2>2, <2>3, <2>4 DEF StoreOK
<1>19. QED
  BY <1>11, <1>12, <1>13, <1>17, <1>18, RestartStore

------------------------------------------------------------------------------
(* The invariant holds, and says what StoreTrusted says.                   *)
LEMMA InitStore == HidInit => StoreInv
<1> SUFFICES ASSUME HidInit PROVE StoreInv
  OBVIOUS
<1>1. Fresh /\ ~storeDynamicData /\ stored = 0 /\ dynamic = << >>
  BY InitFresh DEF HidInit, Init
<1>2. /\ Now.store = FreshEeprom /\ Now.peer = [bond |-> 0, version |-> 0]
      /\ Now.saved = 0 /\ Now.stored = 0
  BY <1>1 DEF HidInit, Now
<1>3. Eeprom(FreshEeprom) /\ ~FreshEeprom.flag
  <2> DEFINE bytes == [a \in 0 .. EepromSize - 1 |-> Erased]
  <2>1. bytes = [a \in 0 .. EepromSize - 1 |-> bytes[a]]
    OBVIOUS
  <2>2. FreshEeprom = [flag |-> FALSE, bytes |-> bytes]
    BY DEF FreshEeprom
  <2> HIDE DEF bytes
  <2>3. QED
    BY <2>1, <2>2 DEF Eeprom
<1>4. Now.peer.bond = 0 /\ Now.peer.version = 0 /\ 0 \in 0 .. MaxBonds
  BY <1>2, BondsAssumption
<1>5. StoreOK(Now)
  BY <1>2, <1>3, <1>4 DEF StoreOK
<1>6. QED
  BY <1>1, <1>5, FreshStore DEF FreshWithStore

LEMMA StepStore == StoreInv /\ [HidNext]_hidVars => StoreInv' \/ saved' = Half
<1> SUFFICES ASSUME StoreInv, [HidNext]_hidVars PROVE StoreInv' \/ saved' = Half
  OBVIOUS
<1>1. OutShape(out) /\ Acts(out, out, "any")
  BY FieldActs DEF StoreInv, BondingInv, TurnInv
<1>2. CASE UNCHANGED <<vars, storing>>
  <2>1. Acts(out, out', "any") /\ UNCHANGED <<chip, events, central, subscribed, bonding, storing>>
    BY <1>1, <1>2 DEF vars, sketch
  <2>2. QED
    BY <2>1, SketchStore
<1>3. CASE UNCHANGED hidVars
  BY <1>2, <1>3 DEF hidVars
<1>4. CASE sendData
  <2>1. /\ out' = updateCharacteristicValue(out, txOpen, Head(sending).hid)
        /\ UNCHANGED <<chip, events, central, subscribed, bonding, storing>>
    BY <1>4 DEF sendData, sketch
  <2>2. Acts(out, out', "any")
    BY <1>1, <2>1, UpdateActs
  <2>3. QED
    BY <2>1, <2>2, SketchStore
<1>5. CASE Sketch
  BY <1>2, <1>5 DEF Sketch, KeyboardWrite, KeyboardPress, KeyboardRelease,
     KeyboardReleaseAll, MouseMove, MousePress, MouseRelease, MouseClick,
     MultimediaWrite, SystemControlWrite, Calls
<1>6. CASE HidPoll
  BY <1>6, PollStore
<1>7. CASE HostConnects \/ HostSetsPipes \/ HostReceives \/ HostLeaves
  <2>1. UNCHANGED storing /\ (PeerConnects \/ PeerSetsPipes \/ PeerTakesData \/ LinkEnds)
    BY <1>7 DEF HostConnects, HostSetsPipes, HostReceives, HostLeaves
  <2>2. QED
    BY <2>1, PeerStore
<1>8. CASE HostBonds
  BY <1>8, BondsStore
<1>9. CASE PowerLost
  BY <1>9, PowerStore
<1>10. CASE PowerLostSaving
  BY <1>10, PowerSavingStore
<1>11. QED
  BY <1>3, <1>4, <1>5, <1>6, <1>7, <1>8, <1>9, <1>10 DEF HidNext, Host

LEMMA PartsOfBond ==
  ASSUME NEW m, peer.bond \in Bonds,
         \A i \in 1 .. Chunks : Part(m[i], peer.bond, i, 1 .. peer.version)
  PROVE  OfBond(m)
<1> SUFFICES ASSUME NEW i \in 1 .. Chunks
             PROVE  /\ Len(m[i]) = Sizes[peer.bond][i]
                    /\ \A k \in DOMAIN m[i] :
                         \E version \in 1 .. peer.version : m[i][k] = <<peer.bond, version, i, k>>
  BY DEF OfBond
<1>1. Part(m[i], peer.bond, i, 1 .. peer.version)
  OBVIOUS
<1>2. Len(m[i]) = Sizes[peer.bond][i] /\ DOMAIN m[i] = 1 .. Sizes[peer.bond][i]
  BY <1>1, PartLength
<1>3. QED
  BY <1>1, <1>2 DEF Part

LEMMA StoreShown == StoreInv => StoreTrusted
<1> SUFFICES ASSUME StoreInv PROVE StoreTrusted
  OBVIOUS
<1> DEFINE m == MessagesIn(eeprom, Chunks)
<1>1. /\ StoreOK(Now) /\ StoreAt(Now, out.tx, events, chip, dynamic)
      /\ Now.store = eeprom /\ Now.peer = peer /\ Now.saved = saved /\ Now.stored = stored
      /\ Versions(Now) = 1 .. peer.version
  BY DEF StoreInv, Now, Versions
<1>2. hasDataIn(eeprom) <=> stored > 0
  BY <1>1 DEF StoreOK, hasDataIn
<1>3. ASSUME chip.mode \in Advertising
      PROVE  /\ dynamic # << >> => Len(dynamic) = Chunks /\ OfBond(dynamic)
             /\ stored > 0 =>
                  /\ OfBond(m)
                  /\ saved > 0 => m = Data(peer.bond, saved)
  <2>1. Ready(Now, dynamic)
    BY <1>1, <1>3 DEF StoreAt, Advertising, Connectable
  <2>2. ASSUME dynamic # << >> PROVE Len(dynamic) = Chunks /\ OfBond(dynamic)
    BY <1>1, <2>1, <2>2, PartsOfBond DEF Ready, Parts
  <2>3. ASSUME stored > 0 PROVE OfBond(m)
    <3>1. Holds(Now, Versions(Now))
      BY <1>1, <2>1, <2>3 DEF Ready, StoreOK
    <3>2. /\ peer.bond \in Bonds
          /\ \A i \in 1 .. Chunks : Laid(eeprom, peer.bond, i, 1 .. peer.version)
      BY <1>1, <3>1 DEF Holds
    <3>3. \A i \in 1 .. Chunks : Part(m[i], peer.bond, i, 1 .. peer.version)
      BY <3>2, MessagesFound
    <3>4. QED
      BY <3>2, <3>3, PartsOfBond
  <2>4. ASSUME stored > 0, saved > 0 PROVE m = Data(peer.bond, saved)
    <3>1. peer.bond \in Bonds /\ \A i \in 1 .. Chunks : Laid(eeprom, peer.bond, i, {saved})
      BY <1>1, <2>4 DEF StoreOK, Holds
    <3>2. /\ m = [i \in 1 .. Chunks |-> m[i]]
          /\ \A i \in 1 .. Chunks : Part(m[i], peer.bond, i, {saved})
      BY <3>1, MessagesFound
    <3> HIDE DEF m
    <3>3. \A i \in 1 .. Chunks : m[i] = Message(peer.bond, saved, i)
      BY <3>1, <3>2, MessagePart
    <3>4. QED
      BY <3>2, <3>3 DEF Data
  <2>5. QED
    BY <2>2, <2>3, <2>4
<1>4. QED
  BY <1>2, <1>3 DEF StoreTrusted

(* When the chip advertises, a store that says it has data has those of    *)
(* the peer's bond, each message whole at its place and of the version     *)
(* that was saved last, and the chip has them too: for any sizes of the    *)
(* messages that the EEPROM has room for, any number of bonds and changes  *)
(* of their data, and wherever power is lost, until it is lost while the   *)
(* first data of a bond are saved and the store is not cleared then.       *)
THEOREM StoreTrustedAlways == HidSpec => []StoreTrusted
<1> DEFINE Inv == StoreInv \/ saved = Half
<1>1. HidInit => Inv
  BY InitStore
<1>2. Inv /\ [HidNext]_hidVars => Inv'
  <2> SUFFICES ASSUME Inv, [HidNext]_hidVars PROVE Inv'
    OBVIOUS
  <2>1. CASE StoreInv
    BY <2>1, StepStore
  <2>2. CASE saved = Half
    BY <2>2 DEF HidNext, Ended, hidVars, storing, Half
  <2>3. QED
    BY <2>1, <2>2
<1>3. Inv => StoreTrusted
  BY StoreShown DEF StoreTrusted, Ended
<1>4. QED
  BY <1>1, <1>2, <1>3, PTL DEF HidSpec

------------------------------------------------------------------------------
(***************************************************************************)
(* The second result: what the host sees pressed is what the sketch holds. *)
(* First the parts of its inductive invariant, then what each step does to *)
(* them.                                                                   *)
(***************************************************************************)
(* A keyboard's report: no key is in two slots, and none in the sixth,     *)
(* which the report map does not describe to the host.                     *)
Keyboard(r) ==
  /\ r = [bits |-> r.bits, bytes |-> r.bytes]
  /\ r.bytes = [k \in 1 .. 6 |-> r.bytes[k]]
  /\ r.bytes[6] = 0
  /\ \A j, k \in 1 .. 6 : r.bytes[j] = r.bytes[k] /\ r.bytes[j] # 0 => j = k
  /\ \A bit \in r.bits : bit[1] # "key"

(* The report of a device is what the sketch holds down on it, between the *)
(* calls' last reports.                                                    *)
DeviceOK(kind, report, holding) ==
  CASE kind = "keyboard" -> Keyboard(report) /\ holding = Read("keyboard", report)
    [] kind = "mouse" -> holding = report.bits
    [] OTHER -> report = Report({}, <<0>>) /\ holding = {}

DevicesInv == \A i \in Hids : DeviceOK(kinds[i], device[i], held[i])

(* The packets that are queued for the chip or taken by it: those of a     *)
(* HID, those it was told would arrive, and the last of them.              *)
PacketShape(p) == DOMAIN p = {"hid", "report", "told"} /\ p.hid \in Hids /\ p.told \in BOOLEAN
PacketQueue(s) == IsQueue(s) /\ \A k \in DOMAIN s : PacketShape(s[k])

Owes(p, i) == p.hid = i /\ p.told
Owing(s, i) == Cardinality({k \in 1 .. Len(s) : Owes(s[k], i)})
Absent(s, i) == \A k \in DOMAIN s : s[k].hid # i
LastIs(s, i, r) ==
  \E k \in DOMAIN s :
    /\ s[k].hid = i /\ s[k].told /\ s[k].report = r
    /\ \A l \in DOMAIN s : l > k => s[l].hid # i

(* The data commands in tx are those of the packets of q, in their order.  *)
Carried(tx, q) ==
  \E f \in [1 .. Len(q) -> DOMAIN tx] :
    /\ \A m, n \in 1 .. Len(q) : m < n => f[m] < f[n]
    /\ \A n \in 1 .. Len(q) : tx[f[n]] = <<"data", Pipe(q[n].hid)>>
    /\ \A k \in DOMAIN tx : IsData(tx[k]) => \E n \in 1 .. Len(q) : f[n] = k

(* What each variable of module HidPeripheral holds.                       *)
TypingShape ==
  /\ kinds \in HidSets /\ use \in {"typing", "bonding"}
  /\ owed = [i \in Hids |-> owed[i]] /\ seen = [i \in Hids |-> seen[i]]
  /\ device = [i \in Hids |-> device[i]] /\ held = [i \in Hids |-> held[i]]
  /\ \A i \in Hids : owed[i] \in Int
  /\ PacketQueue(queued) /\ PacketQueue(taken)
  /\ use = "bonding" => sending = << >> /\ queued = << >> /\ taken = << >> /\ told = {}

(* The reports that sendData still has to send are of one HID, and the     *)
(* last of them is what the device's report is by now.                     *)
SendingInv ==
  /\ IsQueue(sending) /\ Len(sending) <= 2
  /\ \A k \in DOMAIN sending : sending[k].hid = sending[1].hid
  /\ sending # << >> =>
       sending[1].hid \in Hids /\ sending[Len(sending)].report = device[sending[1].hid]

(* Events of a chip with tx pipes only, and the driver's side of them.     *)
HidEvent(e) ==
  /\ e.type # "DataReceived" /\ e.type # "HwError"
  /\ e.type = "PipeError" => ~e.peer
  /\ e.type = "DataCredit" => e.credit = 1

NoDisconnect(tx) == \A k \in DOMAIN tx : tx[k][1] # "disconnect"

DriverInv ==
  /\ out.credit \in Nat /\ out.broadcast = 0 /\ txOpen \subseteq AllTxPipes
  /\ NoDisconnect(out.tx)
  /\ \A k \in DOMAIN events : HidEvent(events[k])
  /\ chip.mode # "closing" /\ chip.inFlight = Len(taken)
  /\ chip.mode # "connected" => taken = << >>

(* When a Connected event waits, nothing of an earlier link is anywhere:   *)
(* no command, no packet, no credit on its way back.                       *)
ComingInv ==
  use = "typing" => \A k \in DOMAIN events : IsConnected(events[k]) =>
    /\ k = 1 /\ out.tx = << >> /\ taken = << >>
    /\ sending = << >> \/ out.credit = 0
    /\ \A l \in DOMAIN events : ~Returns(events[l])

(* On a link the driver knows of, its credits, the packets and the credits *)
(* on their way back are no more than the chip's buffers.                  *)
Live ==
  /\ use = "typing" /\ chip.mode = "connected"
  /\ \A k \in DOMAIN events : ~IsConnected(events[k])

BalanceInv == Live => out.credit + Len(queued) + Len(taken) + Returned(events) <= Credits

(* tx has room for the commands of the reports that are still to be sent:  *)
(* for each, setting the value and sending it.                             *)
RoomInv ==
  chip.mode = "connected" =>
    /\ Len(sending) = 1 => Len(out.tx) <= 2
    /\ Len(sending) = 2 => Len(out.tx) <= 1 /\ (out.credit > 0 => out.tx = << >>)

(* Only a HID whose pipe is open is told of anything.                      *)
OpenTo(i) == chip.mode = "connected" /\ Pipe(i) \in chip.open
ToldInv ==
  /\ told \subseteq Hids /\ \A i \in told : OpenTo(i)
  /\ \A k \in DOMAIN queued : queued[k].told => OpenTo(queued[k].hid)

(* The data commands in tx are the queued packets; what a HID is owed is   *)
(* what it has queued and taken.                                           *)
CarriedInv == Carried(out.tx, queued)
OwedInv == \A i \in Hids : owed[i] = Owing(queued, i) + Owing(taken, i)

(* Of a HID that is told, the device's report is the last one queued, or   *)
(* the last one taken if none is queued, or the last one seen if none is   *)
(* taken.                                                                  *)
LatestIn(q, t, last, r, i) ==
  \/ LastIs(q, i, r)
  \/ Absent(q, i) /\ (LastIs(t, i, r) \/ (Absent(t, i) /\ last = r))
LatestInv == \A i \in told : sending = << >> \/ sending[1].hid # i =>
                                   LatestIn(queued, taken, seen[i], device[i], i)

------------------------------------------------------------------------------
(* Modifiers and buttons are no keys.                                      *)
Plain(bits) == \A bit \in bits : bit[1] # "key"

LEMMA ReadKeys ==
  ASSUME NEW r
  PROVE  \A h : h \in Read("keyboard", r) <=>
                  h \in r.bits \/ \E k \in 1 .. 5 : r.bytes[k] # 0 /\ h = Key(r.bytes[k])
<1>1. KeysDescribed("keyboard") = 5
  BY DEF KeysDescribed
<1>2. \A x, y : <<"key", x>> = <<"key", y>> <=> x = y
  OBVIOUS
<1>3. Read("keyboard", r) = r.bits \cup ({<<"key", r.bytes[i]>> : i \in 1 .. 5} \ {<<"key", 0>>})
  BY <1>1 DEF Read, Usage
<1>4. QED
  BY <1>2, <1>3 DEF Key

LEMMA FirstSlotFacts ==
  ASSUME NEW r, Keyboard(r), NEW code, Slots(r, code) # {}
  PROVE  /\ FirstSlot(r, code) \in 1 .. 6 /\ r.bytes[FirstSlot(r, code)] = code
         /\ \A j \in 1 .. 6 : r.bytes[j] = code => FirstSlot(r, code) <= j
<1>1. DOMAIN r.bytes = 1 .. 6
  BY DEF Keyboard
<1>2. Slots(r, code) = {i \in 1 .. 6 : r.bytes[i] = code}
  BY <1>1 DEF Slots
<1> DEFINE S == Slots(r, code)
<1>3. \E i \in S : \A j \in S : i <= j
  <2>1. S \subseteq Nat /\ S # {}
    BY <1>2
  <2> HIDE DEF S
  <2>2. QED
    BY <2>1, FirstExists DEF First
<1>4. FirstSlot(r, code) \in S /\ \A j \in S : FirstSlot(r, code) <= j
  BY <1>3 DEF FirstSlot
<1>5. QED
  BY <1>2, <1>4

LEMMA Pressed ==
  ASSUME NEW r, Keyboard(r), NEW code, code # 0, NEW bits, Plain(bits),
         Key(code) \notin Read("keyboard", r), \E k \in 1 .. 5 : r.bytes[k] = 0
  PROVE  LET s == press(r, code, bits)
         IN  /\ Keyboard(s)
             /\ Read("keyboard", s) = (Read("keyboard", r) \cup bits) \cup {Key(code)}
             /\ Pressing(r, code, bits) = << s >>
             /\ Releasing(s, code, bits) = << [bits |-> s.bits \ bits, bytes |-> r.bytes] >>
<1> DEFINE s == press(r, code, bits)
           f == FirstSlot(r, 0)
           b == r.bytes
<1>1. b = [k \in 1 .. 6 |-> b[k]] /\ b[6] = 0 /\ r = [bits |-> r.bits, bytes |-> b]
  BY DEF Keyboard
<1>2. Slots(r, 0) # {}
  <2>1. 6 \in DOMAIN b /\ b[6] = 0
    BY <1>1
  <2>2. QED
    BY <2>1 DEF Slots
<1>3. f \in 1 .. 5 /\ b[f] = 0
  <2>1. f \in 1 .. 6 /\ b[f] = 0 /\ \A j \in 1 .. 6 : b[j] = 0 => f <= j
    BY <1>2, FirstSlotFacts
  <2>2. QED
    BY <2>1
<1>4. s.bits = r.bits \cup bits /\ s.bytes = [b EXCEPT ![f] = code]
      /\ s = [bits |-> s.bits, bytes |-> s.bytes]
  BY DEF press
<1>5. Pressing(r, code, bits) = << s >>
  BY <1>2 DEF Pressing, Presses
<1> HIDE DEF s, f
<1>6. \A k \in 1 .. 6 : s.bytes[k] = IF k = f THEN code ELSE b[k]
  BY <1>1, <1>3, <1>4
<1>7. \A k \in 1 .. 5 : b[k] # code
  BY ReadKeys
<1>8. b[6] # code /\ s.bytes[6] = 0
  BY <1>1, <1>3, <1>6
<1>9. Keyboard(s)
  <2>1. s.bytes = [k \in 1 .. 6 |-> s.bytes[k]]
    BY <1>1, <1>4
  <2>2. \A j, k \in 1 .. 6 : s.bytes[j] = s.bytes[k] /\ s.bytes[j] # 0 => j = k
    <3>1. \A j \in 1 .. 6 : b[j] # code
      BY <1>7, <1>8
    <3>2. \A j, k \in 1 .. 6 : b[j] = b[k] /\ b[j] # 0 => j = k
      BY DEF Keyboard
    <3>3. QED
      BY <1>6, <3>1, <3>2
  <2>3. \A bit \in s.bits : bit[1] # "key"
    BY <1>4 DEF Keyboard, Plain
  <2>4. QED
    BY <1>4, <1>8, <2>1, <2>2, <2>3 DEF Keyboard
<1>10. Read("keyboard", s) = (Read("keyboard", r) \cup bits) \cup {Key(code)}
  <2>1. ASSUME NEW h PROVE (\E k \in 1 .. 5 : s.bytes[k] # 0 /\ h = Key(s.bytes[k]))
                       <=> h = Key(code) \/ \E k \in 1 .. 5 : b[k] # 0 /\ h = Key(b[k])
    <3>1. f \in 1 .. 6 /\ s.bytes[f] = code
      BY <1>3, <1>6
    <3>2. \A k \in 1 .. 5 : k # f => s.bytes[k] = b[k]
      BY <1>6
    <3>3. \A k \in 1 .. 5 : s.bytes[k] # 0 => s.bytes[k] = code \/ s.bytes[k] = b[k]
      BY <1>6
    <3>4. \A k \in 1 .. 5 : b[k] # 0 => s.bytes[k] = b[k]
      BY <1>3, <3>2
    <3>5. QED
      BY <1>3, <3>1, <3>3, <3>4
  <2>2. ASSUME NEW h
        PROVE  h \in Read("keyboard", s) <=>
                 h \in Read("keyboard", r) \/ h \in bits \/ h = Key(code)
    <3>1. /\ h \in Read("keyboard", s) <=>
               h \in s.bits \/ \E k \in 1 .. 5 : s.bytes[k] # 0 /\ h = Key(s.bytes[k])
          /\ h \in Read("keyboard", r) <=>
               h \in r.bits \/ \E k \in 1 .. 5 : b[k] # 0 /\ h = Key(b[k])
      BY ReadKeys
    <3>2. h \in s.bits <=> h \in r.bits \/ h \in bits
      BY <1>4
    <3>3. QED
      BY <2>1, <3>1, <3>2
  <2>3. QED
    BY <2>2
<1>11. Slots(s, code) = {f}
  BY <1>3, <1>4, <1>6, <1>7, <1>8, <1>9 DEF Slots, Keyboard
<1>12. Releasing(s, code, bits) = << [bits |-> s.bits \ bits, bytes |-> b] >>
  <2>1. FirstSlot(s, code) = f
    <3>1. FirstSlot(s, code) \in 1 .. 6 /\ s.bytes[FirstSlot(s, code)] = code
      BY <1>9, <1>11, FirstSlotFacts
    <3>2. QED
      BY <1>6, <1>7, <1>8, <3>1
  <2>2. Releasing(s, code, bits) = << release(s, code, bits) >>
    BY <1>11 DEF Releasing, Releases
  <2>3. release(s, code, bits) = [bits |-> s.bits \ bits, bytes |-> [s.bytes EXCEPT ![f] = 0]]
    BY <2>1 DEF release
  <2>4. [s.bytes EXCEPT ![f] = 0] = b
    <3>1. s.bytes = [k \in 1 .. 6 |-> s.bytes[k]]
      BY <1>9 DEF Keyboard
    <3>2. [s.bytes EXCEPT ![f] = 0] = [k \in 1 .. 6 |-> IF k = f THEN 0 ELSE s.bytes[k]]
      BY <3>1
    <3>3. QED
      BY <1>1, <1>3, <1>6, <3>2
  <2>5. QED
    BY <2>2, <2>3, <2>4
<1>13. QED
  BY <1>5, <1>9, <1>10, <1>12 DEF s

LEMMA Released ==
  ASSUME NEW r, Keyboard(r), NEW code, code # 0, NEW bits, Plain(bits)
  PROVE  LET s == release(r, code, bits)
         IN  /\ Releasing(r, code, bits) \in {<< >>, << s >>}
             /\ Releasing(r, code, bits) = << >> =>
                  Key(code) \notin Read("keyboard", r)
             /\ Releasing(r, code, bits) # << >> =>
                  /\ Keyboard(s)
                  /\ bits = {} => Read("keyboard", s) = Read("keyboard", r) \ {Key(code)}
<1> DEFINE s == release(r, code, bits)
           f == FirstSlot(r, code)
           b == r.bytes
<1>1. b = [k \in 1 .. 6 |-> b[k]] /\ b[6] = 0 /\ r = [bits |-> r.bits, bytes |-> b]
  BY DEF Keyboard
<1>2. Releasing(r, code, bits) = IF Slots(r, code) # {} THEN << s >> ELSE << >>
  BY DEF Releasing, Releases
<1>3. \A x, y : Key(x) = Key(y) <=> x = y
  BY DEF Key
<1>4. \A bit \in r.bits : bit # Key(code)
  <2>1. Key(code)[1] = "key"
    BY DEF Key
  <2>2. QED
    BY <2>1 DEF Keyboard
<1>5. ASSUME Slots(r, code) = {} PROVE Key(code) \notin Read("keyboard", r)
  <2>1. DOMAIN b = 1 .. 6
    BY <1>1
  <2>2. \A k \in 1 .. 6 : b[k] # code
    BY <1>5, <2>1 DEF Slots
  <2>3. QED
    BY <1>3, <1>4, <2>2, ReadKeys
<1>6. ASSUME Slots(r, code) # {}
      PROVE  Keyboard(s) /\ (bits = {} => Read("keyboard", s) = Read("keyboard", r) \ {Key(code)})
  <2>1. f \in 1 .. 6 /\ b[f] = code
    BY <1>6, FirstSlotFacts
  <2>2. f \in 1 .. 5
    <3>1. f # 6
      BY <1>1, <2>1
    <3>2. QED
      BY <2>1, <3>1
  <2>3. /\ s.bits = r.bits \ bits /\ s.bytes = [b EXCEPT ![f] = 0]
        /\ s = [bits |-> s.bits, bytes |-> s.bytes]
    BY DEF release
  <2> HIDE DEF s, f
  <2>4. \A k \in 1 .. 6 : s.bytes[k] = IF k = f THEN 0 ELSE b[k]
    BY <1>1, <2>2, <2>3
  <2>5. \A j, k \in 1 .. 6 : b[j] = b[k] /\ b[j] # 0 => j = k
    BY DEF Keyboard
  <2>6. Keyboard(s)
    <3>1. s.bytes = [k \in 1 .. 6 |-> s.bytes[k]]
      BY <1>1, <2>3
    <3>2. s.bytes[6] = 0
      BY <1>1, <2>4
    <3>3. \A bit \in s.bits : bit[1] # "key"
      BY <2>3 DEF Keyboard
    <3>4. \A j, k \in 1 .. 6 : s.bytes[j] = s.bytes[k] /\ s.bytes[j] # 0 => j = k
      <4>1. SUFFICES ASSUME NEW j \in 1 .. 6, NEW k \in 1 .. 6,
                            s.bytes[j] = s.bytes[k], s.bytes[j] # 0
                     PROVE  j = k
        OBVIOUS
      <4>2. s.bytes[j] = b[j] /\ s.bytes[k] = b[k]
        BY <2>4, <4>1
      <4>3. QED
        BY <2>5, <4>1, <4>2
    <3>5. s = [bits |-> s.bits, bytes |-> s.bytes]
      BY <2>3
    <3> HIDE DEF b
    <3>6. QED
      BY <3>1, <3>2, <3>3, <3>4, <3>5 DEF Keyboard
  <2>7. ASSUME bits = {} PROVE Read("keyboard", s) = Read("keyboard", r) \ {Key(code)}
    <3>1. \A k \in 1 .. 5 : b[k] = code => k = f
      BY <2>1, <2>5
    <3>2. ASSUME NEW h PROVE (\E k \in 1 .. 5 : s.bytes[k] # 0 /\ h = Key(s.bytes[k]))
                         <=> h # Key(code) /\ \E k \in 1 .. 5 : b[k] # 0 /\ h = Key(b[k])
      BY <1>3, <2>1, <2>4, <3>1
    <3>3. s.bits = r.bits
      BY <2>3, <2>7
    <3>4. QED
      BY <1>4, <3>2, <3>3, ReadKeys
  <2>8. QED
    BY <2>6, <2>7
<1> HIDE DEF s
<1>7. QED
  BY <1>2, <1>5, <1>6 DEF s

(* Less than five keys held: one of the five slots the host reads is free. *)
LEMMA FreeSlot ==
  ASSUME NEW r, Keyboard(r), NEW H, H = {h \in Read("keyboard", r) : h[1] = "key"},
         Cardinality(H) < MaxHeld
  PROVE  \E k \in 1 .. 5 : r.bytes[k] = 0
<1> SUFFICES ASSUME \A k \in 1 .. 5 : r.bytes[k] # 0 PROVE FALSE
  OBVIOUS
<1> DEFINE f == [k \in 1 .. 5 |-> Key(r.bytes[k])]
<1>1. /\ \A x, y : Key(x) = Key(y) <=> x = y
      /\ \A x : Key(x)[1] = "key"
  <2>1. \A x, y : <<"key", x>> = <<"key", y>> <=> x = y
    OBVIOUS
  <2>2. \A x : <<"key", x>>[1] = "key"
    OBVIOUS
  <2>3. QED
    BY <2>1, <2>2 DEF Key
<1>2. ASSUME NEW h PROVE h \in H <=> \E k \in 1 .. 5 : h = Key(r.bytes[k])
  <2>1. h \in H <=> h[1] = "key" /\ (h \in r.bits \/ \E k \in 1 .. 5 : r.bytes[k] # 0 /\ h = Key(r.bytes[k]))
    BY ReadKeys
  <2>2. \A bit \in r.bits : bit[1] # "key"
    BY DEF Keyboard
  <2>3. QED
    BY <1>1, <2>1, <2>2
<1>3. f \in [1 .. 5 -> H]
  BY <1>2
<1>4. \A j, k \in 1 .. 5 : f[j] = f[k] => j = k
  <2>1. \A j, k \in 1 .. 5 : r.bytes[j] = r.bytes[k] => j = k
    BY DEF Keyboard
  <2>2. QED
    BY <1>1, <2>1
<1>5. \A h \in H : \E k \in 1 .. 5 : f[k] = h
  BY <1>2
<1> HIDE DEF f
<1>6. ExistsBijection(1 .. 5, H)
  <2>1. f \in Injection(1 .. 5, H)
    BY <1>3, <1>4 DEF Injection, IsInjective
  <2>2. f \in Surjection(1 .. 5, H)
    BY <1>3, <1>5 DEF Surjection
  <2>3. QED
    BY <2>1, <2>2 DEF ExistsBijection, Bijection
<1>7. IsFiniteSet(1 .. 5) /\ Cardinality(1 .. 5) = 5
  <2>1. \A n \in Nat : IsFiniteSet(1 .. n) /\ Cardinality(1 .. n) = IF 1 > n THEN 0 ELSE n - 1 + 1
    BY FS_Interval
  <2> DEFINE n == 5
  <2>2. n \in Nat /\ n = 5
    OBVIOUS
  <2> HIDE DEF n
  <2>3. /\ IsFiniteSet(1 .. n)
        /\ Cardinality(1 .. n) = IF 1 > n THEN 0 ELSE n - 1 + 1
    BY <2>1, <2>2, Zenon
  <2>4. (IF 1 > n THEN 0 ELSE n - 1 + 1) = n
    BY <2>2
  <2>5. QED
    BY <2>3, <2>4 DEF n
<1>8. Cardinality(H) = 5
  BY <1>6, <1>7, FS_Bijection
<1>9. QED
  BY <1>8, MaxHeldAssumption

------------------------------------------------------------------------------
(* What a call of the sketch leaves: the reports that are sent, at most    *)
(* two, the last of which is the device's from then on.                    *)
After(i, reports) == IF reports = << >> THEN device[i] ELSE Last(reports)

Right(i, reports, holding) ==
  /\ IsQueue(reports) /\ Len(reports) <= 2
  /\ DeviceOK(kinds[i], After(i, reports), holding)

LEMMA Reports ==
  /\ IsQueue(<< >>) /\ Len(<< >>) = 0
  /\ \A a : IsQueue(<< a >>) /\ << a >> # << >> /\ Len(<< a >>) = 1 /\ Last(<< a >>) = a
  /\ \A a, b : /\ << a >> \o << b >> = << a, b >>
               /\ IsQueue(<< a, b >>) /\ << a, b >> # << >> /\ Len(<< a, b >>) = 2
               /\ Last(<< a, b >>) = b
  /\ \A a : << a >> \o << >> = << a >>
<1>1. IsQueue(<< >>) /\ Len(<< >>) = 0
  <2>1. << >> \in Seq({})
    OBVIOUS
  <2>2. QED
    BY <2>1 DEF IsQueue
<1>2. \A a : IsQueue(<< a >>) /\ << a >> # << >> /\ Len(<< a >>) = 1 /\ Last(<< a >>) = a
  BY SingleFacts DEF Last
<1>3. ASSUME NEW a, NEW b
      PROVE  /\ << a >> \o << b >> = << a, b >>
             /\ IsQueue(<< a, b >>) /\ << a, b >> # << >> /\ Len(<< a, b >>) = 2
             /\ Last(<< a, b >>) = b
  <2>1. << a, b >> \in Seq({a, b}) /\ Len(<< a, b >>) = 2 /\ << a, b >>[2] = b
    OBVIOUS
  <2>2. << a, b >>[1] = a /\ IsQueue(<< a, b >>)
    BY <2>1 DEF IsQueue
  <2>3. << a >> \o << b >> = << a, b >>
    <3> DEFINE s == << a >> \o << b >>
               t == << a, b >>
    <3>1. IsQueue(<< a >>) /\ IsQueue(<< b >>) /\ Len(<< a >>) = 1 /\ Len(<< b >>) = 1
          /\ << a >>[1] = a /\ << b >>[1] = b
      BY SingleFacts
    <3>2. IsQueue(s) /\ Len(s) = 2 /\ s[1] = a /\ s[2] = b
      <4>1. /\ \A i \in 1 .. 1 : s[i] = << a >>[i]
            /\ \A i \in 1 .. 1 : s[1 + i] = << b >>[i]
            /\ IsQueue(s) /\ Len(s) = 1 + 1
        BY <3>1, ConcatFacts
      <4>2. 1 \in 1 .. 1 /\ 1 + 1 = 2
        OBVIOUS
      <4>3. QED
        BY <3>1, <4>1, <4>2
    <3>3. IsQueue(t) /\ Len(t) = 2 /\ t[1] = a /\ t[2] = b
      BY <2>1, <2>2
    <3> HIDE DEF s, t
    <3>4. \A i \in 1 .. Len(s) : s[i] = t[i]
      BY <3>2, <3>3
    <3>5. s = t
      BY <3>2, <3>3, <3>4, SameQueue
    <3>6. QED
      BY <3>5 DEF s, t
  <2>4. QED
    BY <2>1, <2>3 DEF IsQueue, Last
<1>4. ASSUME NEW a PROVE << a >> \o << >> = << a >>
  BY <1>2, ConcatCases
<1>5. QED
  BY <1>1, <1>2, <1>3, <1>4

(* What is assumed of the keys that a sketch presses: 0 is no key's code,  *)
(* as keyToCodeAndModifier takes it, and a modifier or button is no key.   *)
KeysOK == 0 \notin Codes /\ Plain(Bits)

LEMMA KeyboardFacts ==
  ASSUME DevicesInv, NEW i \in Hids, kinds[i] = "keyboard"
  PROVE  /\ Keyboard(device[i]) /\ held[i] = Read("keyboard", device[i])
         /\ device[i].bits \subseteq held[i]
         /\ Cardinality(HeldKeys(i)) < MaxHeld => \E k \in 1 .. 5 : device[i].bytes[k] = 0
         /\ \A r : Keyboard(r) => DeviceOK(kinds[i], r, Read("keyboard", r))
<1>1. DeviceOK(kinds[i], device[i], held[i])
  BY DEF DevicesInv
<1>2. Keyboard(device[i]) /\ held[i] = Read("keyboard", device[i])
  BY <1>1 DEF DeviceOK
<1>3. device[i].bits \subseteq held[i]
  BY <1>2, ReadKeys
<1>4. ASSUME Cardinality(HeldKeys(i)) < MaxHeld PROVE \E k \in 1 .. 5 : device[i].bytes[k] = 0
  <2>1. HeldKeys(i) = {h \in Read("keyboard", device[i]) : h[1] = "key"}
    BY <1>2 DEF HeldKeys
  <2>2. QED
    BY <1>2, <1>4, <2>1, FreeSlot
<1>5. \A r : Keyboard(r) => DeviceOK(kinds[i], r, Read("keyboard", r))
  BY DEF DeviceOK
<1>6. QED
  BY <1>2, <1>3, <1>4, <1>5

LEMMA BitsPressed ==
  ASSUME NEW r, Keyboard(r), NEW bits, Plain(bits)
  PROVE  LET s == press(r, 0, bits)
         IN  /\ Pressing(r, 0, bits) = IF bits # {} THEN << s >> ELSE << >>
             /\ Keyboard(s) /\ Read("keyboard", s) = Read("keyboard", r) \cup bits
             /\ Releasing(s, 0, bits) = IF bits # {} THEN << [bits |-> s.bits \ bits, bytes |-> r.bytes] >>
                                        ELSE << >>
             /\ s.bits = r.bits \cup bits
<1> DEFINE s == press(r, 0, bits)
<1>1. s.bits = r.bits \cup bits /\ s.bytes = r.bytes /\ s = [bits |-> s.bits, bytes |-> s.bytes]
  BY DEF press
<1>2. Pressing(r, 0, bits) = IF bits # {} THEN << s >> ELSE << >>
  BY DEF Pressing, Presses
<1> HIDE DEF s
<1>3. Keyboard(s)
  BY <1>1 DEF Keyboard, Plain
<1>4. Read("keyboard", s) = Read("keyboard", r) \cup bits
  <2>1. ASSUME NEW h
        PROVE  h \in Read("keyboard", s) <=> h \in Read("keyboard", r) \/ h \in bits
    BY <1>1, ReadKeys
  <2>2. QED
    BY <2>1
<1>5. Releasing(s, 0, bits) = IF bits # {} THEN << [bits |-> s.bits \ bits, bytes |-> r.bytes] >>
                              ELSE << >>
  BY <1>1 DEF Releasing, Releases, release
<1>6. QED
  BY <1>1, <1>2, <1>3, <1>4, <1>5 DEF s

LEMMA BitsReleased ==
  ASSUME NEW r, Keyboard(r), NEW bit, bit[1] # "key"
  PROVE  LET s == release(r, 0, {bit})
         IN  /\ Releasing(r, 0, {bit}) = << s >>
             /\ Keyboard(s) /\ Read("keyboard", s) = Read("keyboard", r) \ {bit}
<1> DEFINE s == release(r, 0, {bit})
<1>1. s.bits = r.bits \ {bit} /\ s.bytes = r.bytes /\ s = [bits |-> s.bits, bytes |-> s.bytes]
  BY DEF release
<1>2. Releasing(r, 0, {bit}) = << s >>
  BY DEF Releasing, Releases
<1> HIDE DEF s
<1>3. Keyboard(s)
  BY <1>1 DEF Keyboard
<1>4. Read("keyboard", s) = Read("keyboard", r) \ {bit}
  <2>1. \A x : bit # Key(x)
    <3>1. \A x : <<"key", x>>[1] = "key"
      OBVIOUS
    <3>2. QED
      BY <3>1 DEF Key
  <2>2. ASSUME NEW h
        PROVE  h \in Read("keyboard", s) <=> h \in Read("keyboard", r) /\ h # bit
    BY <1>1, <2>1, ReadKeys
  <2>3. QED
    BY <2>2
<1>5. QED
  BY <1>2, <1>3, <1>4 DEF s

LEMMA TypingFacts ==
  ASSUME DevicesInv, NEW i \in Hids, kinds[i] = "keyboard", NEW k,
         Cardinality(HeldKeys(i)) < MaxHeld,
         Key(keyToCodeAndModifier(k).code) \notin held[i],
         keyToCodeAndModifier(k).modifiers \cap held[i] = {}
  PROVE  Right(i, Typing(device[i], k), held[i])
<1> DEFINE r == device[i]
           c == keyToCodeAndModifier(k).code
           m == keyToCodeAndModifier(k).modifiers
           p == Pressing(r, c, m)
<1>1. /\ Keyboard(r) /\ held[i] = Read("keyboard", r) /\ r.bits \subseteq held[i]
      /\ \E j \in 1 .. 5 : r.bytes[j] = 0
      /\ DeviceOK(kinds[i], r, held[i])
  BY KeyboardFacts
<1>2. Plain(m)
  <2>1. m \subseteq {KEYCODE_MOD_LEFT_SHIFT}
    BY DEF keyToCodeAndModifier
  <2>2. KEYCODE_MOD_LEFT_SHIFT[1] # "key"
    BY DEF KEYCODE_MOD_LEFT_SHIFT
  <2> HIDE DEF m
  <2>3. QED
    BY <2>1, <2>2 DEF Plain
<1>3. Typing(r, k) = IF p = << >> THEN << >> ELSE p \o Releasing(p[1], c, m)
  BY DEF Typing
<1>4. Key(c) \notin Read("keyboard", r) /\ m \cap r.bits = {}
  BY <1>1
<1>5. r = [bits |-> r.bits, bytes |-> r.bytes]
  BY <1>1 DEF Keyboard
<1>6. ASSUME NEW s, p = << s >>, s.bits = r.bits \cup m,
             Releasing(s, c, m) = << [bits |-> s.bits \ m, bytes |-> r.bytes] >>
      PROVE  Typing(r, k) = << s, r >>
  <2>1. s.bits \ m = r.bits
    BY <1>4, <1>6
  <2>2. Releasing(s, c, m) = << r >>
    BY <1>5, <1>6, <2>1
  <2>3. p # << >> /\ p[1] = s
    BY <1>6, Reports, SingleFacts
  <2> HIDE DEF p, r, c, m
  <2>4. QED
    BY <1>3, <1>6, <2>2, <2>3, Reports
<1>7. Typing(r, k) = << >> \/ \E s : Typing(r, k) = << s, r >>
  <2>1. CASE c # 0
    <3> DEFINE s == press(r, c, m)
    <3>1. /\ p = << s >>
          /\ Releasing(s, c, m) = << [bits |-> s.bits \ m, bytes |-> r.bytes] >>
      <4> HIDE DEF r, c, m
      <4>1. /\ Pressing(r, c, m) = << press(r, c, m) >>
            /\ Releasing(press(r, c, m), c, m)
                 = << [bits |-> press(r, c, m).bits \ m, bytes |-> r.bytes] >>
        BY <1>1, <1>2, <1>4, <2>1, Pressed
      <4>2. QED
        BY <4>1
    <3>2. s.bits = r.bits \cup m
      BY DEF press
    <3> HIDE DEF s, p, c, m, r
    <3>3. QED
      BY <1>6, <3>1, <3>2
  <2>2. CASE c = 0
    <3> DEFINE s == press(r, c, m)
    <3>1. /\ p = IF m # {} THEN << s >> ELSE << >>
          /\ s.bits = r.bits \cup m
          /\ m # {} => Releasing(s, c, m) = << [bits |-> s.bits \ m, bytes |-> r.bytes] >>
      BY <1>1, <1>2, <2>2, BitsPressed
    <3> HIDE DEF s, p, c, m, r
    <3>2. QED
      BY <1>3, <1>6, <3>1
  <2>3. QED
    BY <2>1, <2>2
<1> DEFINE t == Typing(r, k)
<1>8. Right(i, t, held[i])
  <2> HIDE DEF t
  <2>1. CASE t = << >>
    BY <1>1, <2>1, Reports DEF Right, After
  <2>2. ASSUME NEW s, t = << s, r >> PROVE Right(i, t, held[i])
    <3> HIDE DEF r
    <3>1. IsQueue(t) /\ Len(t) <= 2 /\ t # << >> /\ Last(t) = r
      BY <2>2, Reports
    <3>2. QED
      BY <1>1, <3>1 DEF Right, After
  <2>3. QED
    BY <1>7, <2>1, <2>2 DEF t
<1>9. QED
  BY <1>8

LEMMA BlankKeyboard ==
  Keyboard(Blank("keyboard")) /\ Read("keyboard", Blank("keyboard")) = {}
<1> DEFINE r == Blank("keyboard")
<1>1. r.bits = {} /\ r.bytes = [i \in 1 .. 6 |-> 0] /\ r = [bits |-> r.bits, bytes |-> r.bytes]
  BY DEF Blank, Report
<1> HIDE DEF r
<1>2. Keyboard(r)
  BY <1>1 DEF Keyboard
<1>3. \A h : h \notin Read("keyboard", r)
  BY <1>1, ReadKeys
<1>4. QED
  BY <1>2, <1>3 DEF r

LEMMA SketchCalls ==
  ASSUME DevicesInv, KeysOK, Sketch
  PROVE  \E i \in Hids : \E reports, holding :
           Calls(i, reports, holding) /\ Right(i, reports, holding)
<1>1. \A x, y : Key(x) = Key(y) <=> x = y
  <2>1. \A x, y : <<"key", x>> = <<"key", y>> <=> x = y
    OBVIOUS
  <2>2. QED
    BY <2>1 DEF Key
<1>2. ASSUME NEW i \in Hids, NEW reports, NEW holding, Calls(i, reports, holding), Right(i, reports, holding)
      PROVE  \E j \in Hids : \E s, h : Calls(j, s, h) /\ Right(j, s, h)
  BY <1>2
<1>3. ASSUME NEW i \in Hids, NEW r, NEW holding, DeviceOK(kinds[i], r, holding)
      PROVE  Right(i, << r >>, holding) /\ \A q : Right(i, << q, r >>, holding)
  <2>1. Right(i, << r >>, holding)
    <3> DEFINE s == << r >>
    <3>1. IsQueue(s) /\ s # << >> /\ Len(s) = 1 /\ Last(s) = r
      BY Reports
    <3> HIDE DEF s
    <3>2. Right(i, s, holding)
      BY <1>3, <3>1 DEF Right, After
    <3>3. QED
      BY <3>2 DEF s
  <2>2. ASSUME NEW q PROVE Right(i, << q, r >>, holding)
    <3> DEFINE s == << q, r >>
    <3>1. IsQueue(s) /\ s # << >> /\ Len(s) = 2 /\ Last(s) = r
      BY Reports
    <3> HIDE DEF s
    <3>2. Right(i, s, holding)
      BY <1>3, <3>1 DEF Right, After
    <3>3. QED
      BY <3>2 DEF s
  <2>3. QED
    BY <2>1, <2>2
<1>4. ASSUME NEW i \in Hids PROVE Right(i, << >>, held[i])
  BY Reports DEF Right, After, DevicesInv
<1>5. CASE KeyboardWrite
  <2>1. PICK i \in Of("keyboard"), k \in Characters :
          /\ Cardinality(HeldKeys(i)) < MaxHeld
          /\ Key(keyToCodeAndModifier(k).code) \notin held[i]
          /\ keyToCodeAndModifier(k).modifiers \cap held[i] = {}
          /\ Calls(i, Typing(device[i], k), held[i])
    BY <1>5 DEF KeyboardWrite
  <2>2. i \in Hids /\ kinds[i] = "keyboard"
    BY DEF Of
  <2>3. Right(i, Typing(device[i], k), held[i])
    BY <2>1, <2>2, TypingFacts
  <2>4. QED
    BY <1>2, <2>1, <2>2, <2>3
<1>6. CASE KeyboardPress
  <2>1. PICK i \in Of("keyboard") :
          \/ \E code \in Codes :
               /\ Cardinality(HeldKeys(i)) < MaxHeld /\ Key(code) \notin held[i]
               /\ Calls(i, Pressing(device[i], code, {}), held[i] \cup {Key(code)})
          \/ \E bit \in Bits : Calls(i, Pressing(device[i], 0, {bit}), held[i] \cup {bit})
    BY <1>6 DEF KeyboardPress
  <2>2. i \in Hids /\ kinds[i] = "keyboard"
    BY DEF Of
  <2>3. /\ Keyboard(device[i]) /\ held[i] = Read("keyboard", device[i])
        /\ Cardinality(HeldKeys(i)) < MaxHeld => \E k \in 1 .. 5 : device[i].bytes[k] = 0
        /\ \A r : Keyboard(r) => DeviceOK(kinds[i], r, Read("keyboard", r))
    BY <2>2, KeyboardFacts
  <2>4. ASSUME NEW code \in Codes, Cardinality(HeldKeys(i)) < MaxHeld, Key(code) \notin held[i]
        PROVE  Right(i, Pressing(device[i], code, {}), held[i] \cup {Key(code)})
    <3> DEFINE r == device[i]
               s == press(r, code, {})
    <3>1. code # 0 /\ Plain({})
      BY DEF KeysOK, Plain
    <3>2. /\ Keyboard(s) /\ Read("keyboard", s) = (Read("keyboard", r) \cup {}) \cup {Key(code)}
          /\ Pressing(r, code, {}) = << s >>
      BY <2>3, <2>4, <3>1, Pressed
    <3> HIDE DEF s, r
    <3>3. Read("keyboard", s) = Read("keyboard", r) \cup {Key(code)}
      BY <3>2
    <3>4. QED
      BY <1>3, <2>2, <2>3, <3>2, <3>3 DEF r
  <2>5. ASSUME NEW bit \in Bits
        PROVE  Right(i, Pressing(device[i], 0, {bit}), held[i] \cup {bit})
    <3> DEFINE r == device[i]
               s == press(r, 0, {bit})
    <3>1. Plain({bit})
      BY DEF KeysOK, Plain
    <3>2. /\ Keyboard(s) /\ Read("keyboard", s) = Read("keyboard", r) \cup {bit}
          /\ Pressing(r, 0, {bit}) = << s >>
      <4>1. /\ Keyboard(s) /\ Read("keyboard", s) = Read("keyboard", r) \cup {bit}
            /\ Pressing(r, 0, {bit}) = IF {bit} # {} THEN << s >> ELSE << >>
        BY <2>3, <3>1, BitsPressed
      <4>2. {bit} # {}
        OBVIOUS
      <4>3. QED
        BY <4>1, <4>2
    <3> HIDE DEF s, r
    <3>3. QED
      BY <1>3, <2>2, <2>3, <3>2 DEF r
  <2>6. QED
    BY <1>2, <2>1, <2>2, <2>4, <2>5
<1>7. CASE KeyboardRelease
  <2>1. PICK i \in Of("keyboard") :
          \/ \E code \in Codes : Calls(i, Releasing(device[i], code, {}), held[i] \ {Key(code)})
          \/ \E bit \in Bits : Calls(i, Releasing(device[i], 0, {bit}), held[i] \ {bit})
    BY <1>7 DEF KeyboardRelease
  <2>2. i \in Hids /\ kinds[i] = "keyboard"
    BY DEF Of
  <2>3. /\ Keyboard(device[i]) /\ held[i] = Read("keyboard", device[i])
        /\ \A r : Keyboard(r) => DeviceOK(kinds[i], r, Read("keyboard", r))
    BY <2>2, KeyboardFacts
  <2>4. ASSUME NEW code \in Codes
        PROVE  Right(i, Releasing(device[i], code, {}), held[i] \ {Key(code)})
    <3> DEFINE r == device[i]
               s == release(r, code, {})
               t == Releasing(r, code, {})
    <3>1. code # 0 /\ Plain({})
      BY DEF KeysOK, Plain
    <3>2. /\ t \in {<< >>, << s >>}
          /\ t = << >> => Key(code) \notin Read("keyboard", r)
          /\ t # << >> => Keyboard(s) /\ Read("keyboard", s) = Read("keyboard", r) \ {Key(code)}
      BY <2>3, <3>1, Released
    <3> HIDE DEF s, t
    <3>3. CASE t = << >>
      <4>1. held[i] \ {Key(code)} = held[i]
        BY <2>3, <3>2, <3>3
      <4>2. QED
        BY <1>4, <2>2, <3>3, <4>1 DEF t
    <3>4. CASE t # << >>
      <4>1. t = << s >> /\ held[i] \ {Key(code)} = Read("keyboard", s) /\ Keyboard(s)
        BY <2>3, <3>2, <3>4
      <4>2. QED
        BY <1>3, <2>2, <2>3, <4>1 DEF t
    <3>5. QED
      BY <3>3, <3>4
  <2>5. ASSUME NEW bit \in Bits
        PROVE  Right(i, Releasing(device[i], 0, {bit}), held[i] \ {bit})
    <3> DEFINE r == device[i]
               s == release(r, 0, {bit})
    <3>1. bit[1] # "key"
      BY DEF KeysOK, Plain
    <3>2. /\ Keyboard(s) /\ Read("keyboard", s) = Read("keyboard", r) \ {bit}
          /\ Releasing(r, 0, {bit}) = << s >>
      BY <2>3, <3>1, BitsReleased
    <3> HIDE DEF s, r
    <3>3. QED
      BY <1>3, <2>2, <2>3, <3>2 DEF r
  <2>6. QED
    BY <1>2, <2>1, <2>2, <2>4, <2>5
<1>8. CASE KeyboardReleaseAll
  <2>1. PICK i \in Of("keyboard") : Calls(i, << Blank("keyboard") >>, {})
    BY <1>8 DEF KeyboardReleaseAll
  <2>2. i \in Hids /\ kinds[i] = "keyboard"
    BY DEF Of
  <2>3. Keyboard(Blank("keyboard")) /\ Read("keyboard", Blank("keyboard")) = {}
    BY BlankKeyboard
  <2>4. DeviceOK(kinds[i], Blank("keyboard"), {})
    BY <2>2, <2>3 DEF DeviceOK
  <2>5. QED
    BY <1>2, <1>3, <2>1, <2>2, <2>4
<1>9. CASE MouseMove \/ MousePress \/ MouseRelease \/ MouseClick
  <2>1. ASSUME NEW i \in Of("mouse"), NEW bits, NEW bytes
        PROVE  i \in Hids /\ DeviceOK(kinds[i], Report(bits, bytes), bits)
    BY DEF Of, DeviceOK, Report
  <2>2. ASSUME NEW i \in Of("mouse") PROVE i \in Hids /\ device[i].bits = held[i]
    BY DEF Of, DeviceOK, DevicesInv
  <2>3. \A bits, bytes : Report(bits, bytes).bits = bits
    BY DEF Report
  <2>4. CASE MouseMove
    <3>1. PICK i \in Of("mouse") : Calls(i, Moving(device[i], 1, 0, 0), held[i])
      BY <2>4 DEF MouseMove
    <3>2. Moving(device[i], 1, 0, 0) = << Report(held[i], <<1, 0, 0>>) >>
      BY <2>2 DEF Moving
    <3>3. QED
      BY <1>2, <1>3, <2>1, <3>1, <3>2
  <2>5. CASE MousePress
    <3>1. PICK i \in Of("mouse"), b \in Bits : Calls(i, ButtonPressed(device[i], b), held[i] \cup {b})
      BY <2>5 DEF MousePress
    <3>2. ButtonPressed(device[i], b) = << Report(held[i] \cup {b}, <<0, 0, 0>>) >>
      BY <2>2 DEF ButtonPressed
    <3>3. QED
      BY <1>2, <1>3, <2>1, <3>1, <3>2
  <2>6. CASE MouseRelease
    <3>1. PICK i \in Of("mouse"), b \in Bits : Calls(i, ButtonReleased(device[i], b), held[i] \ {b})
      BY <2>6 DEF MouseRelease
    <3>2. ButtonReleased(device[i], b) = << Report(held[i] \ {b}, <<0, 0, 0>>) >>
      BY <2>2 DEF ButtonReleased
    <3>3. QED
      BY <1>2, <1>3, <2>1, <3>1, <3>2
  <2>7. CASE MouseClick
    <3>1. PICK i \in Of("mouse"), b \in Bits : Calls(i, Clicking(device[i], b), held[i] \ {b})
      BY <2>7 DEF MouseClick
    <3> DEFINE p == Report(held[i] \cup {b}, <<0, 0, 0>>)
               q == Report(held[i] \ {b}, <<0, 0, 0>>)
    <3>2. ButtonPressed(device[i], b) = << p >>
      BY <2>2 DEF ButtonPressed
    <3>3. p.bits \ {b} = held[i] \ {b}
      BY <2>3
    <3>4. ButtonReleased(p, b) = << q >>
      BY <3>3 DEF ButtonReleased
    <3> HIDE DEF p, q
    <3>5. << p >>[1] = p
      BY SingleFacts
    <3>6. Clicking(device[i], b) = << p >> \o << q >>
      BY <3>2, <3>4, <3>5 DEF Clicking
    <3>7. Clicking(device[i], b) = << p, q >>
      BY <3>6, Reports
    <3>8. i \in Hids /\ DeviceOK(kinds[i], q, held[i] \ {b})
      BY <2>1 DEF q
    <3>9. Right(i, << p, q >>, held[i] \ {b})
      BY <1>3, <3>8
    <3>10. Right(i, Clicking(device[i], b), held[i] \ {b})
      BY <3>7, <3>9
    <3>11. QED
      BY <1>2, <3>1, <3>8, <3>10
  <2>8. QED
    BY <1>9, <2>4, <2>5, <2>6, <2>7
<1>10. CASE MultimediaWrite \/ SystemControlWrite
  <2>1. PICK i \in Of("multimedia") \cup Of("systemControl") :
          \E k : Calls(i, << Report({}, <<k>>), Report({}, <<0>>) >>, {})
    BY <1>10 DEF MultimediaWrite, SystemControlWrite, MultimediaWritten, SystemControlWritten
  <2> PICK k : Calls(i, << Report({}, <<k>>), Report({}, <<0>>) >>, {})
    BY <2>1
  <2>2. i \in Hids /\ DeviceOK(kinds[i], Report({}, <<0>>), {})
    BY DEF Of, DeviceOK
  <2>3. Right(i, << Report({}, <<k>>), Report({}, <<0>>) >>, {})
    BY <1>3, <2>2
  <2>4. QED
    BY <1>2, <2>1, <2>2, <2>3
<1>11. QED
  BY <1>5, <1>6, <1>7, <1>8, <1>9, <1>10 DEF Sketch

------------------------------------------------------------------------------
(* The report map: its descriptors one after the other, none of them past  *)
(* what a byte counts.                                                     *)
MapFits(ks) ==
  /\ ks \in Seq(Kinds)
  /\ \A i \in 1 .. Len(ks) : TotalOffset(ks, i) + DescriptorLength(ks[i]) < 256

LEMMA Descriptors ==
  ASSUME NEW kind, kind \in Kinds
  PROVE  /\ DescriptorLength(kind) \in Nat /\ reportIdOffset(kind) \in Nat
         /\ reportIdOffset(kind) < DescriptorLength(kind)
<1>1. DescriptorLength(kind) \in {49, 52, 25, 29} /\ reportIdOffset(kind) \in {7, 11}
  BY DEF Kinds, DescriptorLength, reportIdOffset
<1>2. QED
  BY <1>1

LEMMA MapKinds ==
  ASSUME NEW ks, MapFits(ks)
  PROVE  /\ Len(ks) \in Nat /\ DOMAIN ks = 1 .. Len(ks)
         /\ \A k \in 1 .. Len(ks) :
              /\ ks[k] \in Kinds
              /\ DescriptorLength(ks[k]) \in Nat /\ reportIdOffset(ks[k]) \in Nat
              /\ reportIdOffset(ks[k]) < DescriptorLength(ks[k])
<1>1. Len(ks) \in Nat /\ DOMAIN ks = 1 .. Len(ks) /\ \A k \in 1 .. Len(ks) : ks[k] \in Kinds
  BY DEF MapFits
<1>2. QED
  BY <1>1, Descriptors, Zenon

LEMMA OffsetSteps ==
  ASSUME NEW ks, MapFits(ks)
  PROVE  /\ TotalOffset(ks, 1) = 0
         /\ \A i \in 1 .. Len(ks) :
              /\ TotalOffset(ks, i) \in Nat
              /\ TotalOffset(ks, i + 1) = TotalOffset(ks, i) + DescriptorLength(ks[i])
<1> DEFINE f == Offsets!Iterated(0, ks, Len(ks))
<1>1. Len(ks) \in Nat /\ \A i \in 1 .. Len(ks) : ks[i] \in Kinds
  BY DEF MapFits
<1>2. \A i : TotalOffset(ks, i) = f[i - 1]
  BY DEF TotalOffset, Offsets!Iterated, OffsetAfter
<1>3. f[0] = 0 /\ \A k \in 1 .. Len(ks) : f[k] = OffsetAfter(f[k - 1], ks, k)
  BY <1>1, Offsets!Iterates
<1> HIDE DEF f
<1>4. \A k \in 1 .. Len(ks) : f[k] = (f[k - 1] + DescriptorLength(ks[k])) % 256
  BY <1>3 DEF OffsetAfter
<1>5. \A k \in 1 .. Len(ks) : DescriptorLength(ks[k]) \in Nat
  BY MapKinds
<1>6. \A k \in 0 .. Len(ks) : f[k] \in Nat
  <2> DEFINE T == {k \in Nat : k <= Len(ks) => f[k] \in Nat}
  <2>1. 0 \in T
    BY <1>3
  <2>2. ASSUME NEW k \in Nat, k \in T PROVE k + 1 \in T
    <3> SUFFICES ASSUME k + 1 <= Len(ks) PROVE f[k + 1] \in Nat
      OBVIOUS
    <3>1. k + 1 \in 1 .. Len(ks) /\ (k + 1) - 1 = k /\ f[k] \in Nat
      BY <1>1, <2>2
    <3>2. f[k + 1] = (f[k] + DescriptorLength(ks[k + 1])) % 256 /\ DescriptorLength(ks[k + 1]) \in Nat
      BY <1>4, <1>5, <3>1
    <3>3. QED
      BY <3>1, <3>2
  <2> HIDE DEF T
  <2>3. \A k \in Nat : k \in T
    BY <2>1, <2>2, SetInduction
  <2>4. QED
    BY <1>1, <2>3 DEF T
<1>7. ASSUME NEW i \in 1 .. Len(ks)
      PROVE  f[i - 1] \in Nat /\ f[i] = f[i - 1] + DescriptorLength(ks[i])
  <2>1. i - 1 \in 0 .. Len(ks) /\ f[i - 1] \in Nat /\ DescriptorLength(ks[i]) \in Nat
    BY <1>1, <1>5, <1>6
  <2>2. f[i - 1] + DescriptorLength(ks[i]) < 256
    BY <1>2 DEF MapFits
  <2>3. f[i] = (f[i - 1] + DescriptorLength(ks[i])) % 256
    BY <1>4
  <2>4. QED
    BY <2>1, <2>2, <2>3
<1>8. \A i \in 1 .. Len(ks) : (i + 1) - 1 = i
  OBVIOUS
<1>9. 1 - 1 = 0
  OBVIOUS
<1>10. QED
  BY <1>2, <1>3, <1>7, <1>8, <1>9

LEMMA OffsetOrder ==
  ASSUME NEW ks, MapFits(ks), NEW i \in 1 .. Len(ks), NEW j \in 1 .. Len(ks) + 1, i < j
  PROVE  TotalOffset(ks, i) + DescriptorLength(ks[i]) <= TotalOffset(ks, j)
<1> DEFINE t(k) == TotalOffset(ks, k)
           T == {n \in Nat : i + 1 + n <= Len(ks) + 1 => t(i + 1) <= t(i + 1 + n) /\ t(i + 1 + n) \in Nat}
<1>1. Len(ks) \in Nat /\ \A k \in 1 .. Len(ks) : DescriptorLength(ks[k]) \in Nat
  BY MapKinds
<1>2. \A k \in 1 .. Len(ks) : t(k) \in Nat /\ t(k + 1) = t(k) + DescriptorLength(ks[k])
  BY OffsetSteps
<1> HIDE DEF t
<1>3. 0 \in T
  <2>1. t(i + 1) \in Nat
    BY <1>1, <1>2
  <2>2. i + 1 + 0 = i + 1
    OBVIOUS
  <2>3. QED
    BY <2>1, <2>2
<1>4. ASSUME NEW n \in Nat, n \in T PROVE n + 1 \in T
  <2> SUFFICES ASSUME i + 1 + (n + 1) <= Len(ks) + 1
               PROVE  t(i + 1) <= t(i + 1 + (n + 1)) /\ t(i + 1 + (n + 1)) \in Nat
    OBVIOUS
  <2>1. i + 1 + n \in 1 .. Len(ks) /\ (i + 1 + n) + 1 = i + 1 + (n + 1)
    BY <1>1
  <2>2. t(i + 1) <= t(i + 1 + n) /\ t(i + 1 + n) \in Nat
    BY <1>1, <1>4, <2>1
  <2>3. t(i + 1 + (n + 1)) = t(i + 1 + n) + DescriptorLength(ks[i + 1 + n])
        /\ DescriptorLength(ks[i + 1 + n]) \in Nat
    BY <1>1, <1>2, <2>1
  <2>4. t(i + 1) \in Nat
    BY <1>1, <1>2
  <2>5. QED
    BY <2>2, <2>3, <2>4
<1> HIDE DEF T
<1>5. \A n \in Nat : n \in T
  BY <1>3, <1>4, SetInduction
<1>6. j - (i + 1) \in Nat /\ i + 1 + (j - (i + 1)) = j /\ j <= Len(ks) + 1
  BY <1>1
<1>7. t(i + 1) <= t(j)
  <2> DEFINE n == j - (i + 1)
  <2>1. n \in T /\ i + 1 + n = j /\ i + 1 + n <= Len(ks) + 1
    BY <1>5, <1>6
  <2> HIDE DEF n
  <2>2. QED
    BY <2>1 DEF T
<1>8. QED
  BY <1>2, <1>7 DEF t

(* No two of its HIDs have one id, and each finds its own.                 *)
LEMMA IdsDiffer ==
  ASSUME NEW ks, MapFits(ks), IdOffset \in 0 .. 255,
         NEW i \in 1 .. Len(ks), NEW j \in 1 .. Len(ks), addHID(i, IdOffset) = addHID(j, IdOffset)
  PROVE  i = j
<1> DEFINE T == {n \in Nat : n + 1 <= Len(ks) => n <= TotalOffset(ks, n + 1)}
<1>1. Len(ks) \in Nat
  BY DEF MapFits
<1>2. 0 \in T
  BY OffsetSteps
<1>3. ASSUME NEW n \in Nat, n \in T PROVE n + 1 \in T
  <2> SUFFICES ASSUME (n + 1) + 1 <= Len(ks) PROVE n + 1 <= TotalOffset(ks, (n + 1) + 1)
    OBVIOUS
  <2>1. n + 1 \in 1 .. Len(ks) /\ n <= TotalOffset(ks, n + 1)
    BY <1>1, <1>3
  <2>2. /\ TotalOffset(ks, (n + 1) + 1) = TotalOffset(ks, n + 1) + DescriptorLength(ks[n + 1])
        /\ TotalOffset(ks, n + 1) \in Nat
    BY <2>1, OffsetSteps
  <2>3. DescriptorLength(ks[n + 1]) \in Nat /\ DescriptorLength(ks[n + 1]) # 0
    BY <2>1, MapKinds
  <2>4. QED
    BY <2>1, <2>2, <2>3
<1> HIDE DEF T
<1>4. \A n \in Nat : n \in T
  BY <1>2, <1>3, SetInduction
<1>5. ASSUME NEW k \in 1 .. Len(ks) PROVE k - 1 \in Nat /\ k - 1 < 256
  <2>1. k - 1 \in Nat /\ (k - 1) + 1 = k
    BY <1>1
  <2>2. k - 1 <= TotalOffset(ks, k)
    BY <1>1, <1>4, <2>1 DEF T
  <2>3. TotalOffset(ks, k) \in Nat
    BY OffsetSteps
  <2>4. DescriptorLength(ks[k]) \in Nat /\ TotalOffset(ks, k) + DescriptorLength(ks[k]) < 256
    BY MapKinds DEF MapFits
  <2>5. QED
    BY <2>1, <2>2, <2>3, <2>4
<1> DEFINE m == i - 1
           n == j - 1
<1>6. m \in Nat /\ m < 256 /\ n \in Nat /\ n < 256 /\ IdOffset \in Nat /\ IdOffset < 256
  BY <1>5
<1>7. (m + IdOffset) % 256 = (n + IdOffset) % 256
  BY DEF addHID
<1>8. m = n => i = j
  BY <1>1
<1> HIDE DEF m, n
<1>9. ASSUME NEW x \in Nat, x < 512 PROVE x % 256 = IF x < 256 THEN x ELSE x - 256
  BY <1>9
<1>10. /\ (m + IdOffset) % 256 = IF m + IdOffset < 256 THEN m + IdOffset ELSE m + IdOffset - 256
       /\ (n + IdOffset) % 256 = IF n + IdOffset < 256 THEN n + IdOffset ELSE n + IdOffset - 256
  BY <1>6, <1>9
<1>11. QED
  BY <1>6, <1>7, <1>8, <1>10

LEMMA IdFound ==
  ASSUME NEW ks, MapFits(ks), NEW n, NEW j \in 1 .. Len(ks)
  PROVE  /\ TotalOffset(ks, j) + reportIdOffset(ks[j]) < ReportMapSize(ks)
         /\ ReportIdAt(ks, n, TotalOffset(ks, j) + reportIdOffset(ks[j])) = addHID(j, n)
<1> DEFINE t(k) == TotalOffset(ks, k)
           d(k) == DescriptorLength(ks[k])
           r == reportIdOffset(ks[j])
           o == t(j) + r
           at == {k \in DOMAIN ks : o \in t(k) .. t(k) + d(k) - 1}
           first == CHOOSE k \in at : \A l \in at : k <= l
<1>1. Len(ks) \in Nat /\ DOMAIN ks = 1 .. Len(ks) /\ \A k \in 1 .. Len(ks) : d(k) \in Nat
  BY MapKinds
<1>2. r \in Nat /\ r < d(j)
  BY MapKinds
<1>3. \A k \in 1 .. Len(ks) : t(k) \in Nat
  BY OffsetSteps
<1>4. \A k \in 1 .. Len(ks) : \A l \in 1 .. Len(ks) : k < l => t(k) + d(k) <= t(l)
  <2> SUFFICES ASSUME NEW k \in 1 .. Len(ks), NEW l \in 1 .. Len(ks), k < l
               PROVE  t(k) + d(k) <= t(l)
    OBVIOUS
  <2>1. l \in 1 .. Len(ks) + 1
    BY <1>1
  <2>2. QED
    BY <2>1, OffsetOrder
<1>5. t(j) + d(j) <= t(Len(ks) + 1) /\ t(Len(ks) + 1) \in Nat
  <2>1. Len(ks) + 1 \in 1 .. Len(ks) + 1 /\ j < Len(ks) + 1 /\ Len(ks) \in 1 .. Len(ks)
    BY <1>1
  <2>2. t(Len(ks) + 1) = t(Len(ks)) + d(Len(ks))
    BY <2>1, OffsetSteps
  <2>3. t(j) + d(j) <= t(Len(ks) + 1)
    BY <2>1, OffsetOrder
  <2>4. QED
    BY <1>1, <1>3, <2>1, <2>2, <2>3
<1>6. ReportIdAt(ks, n, o) =
        IF at # {} /\ o - t(first) = reportIdOffset(ks[first]) THEN addHID(first, n) ELSE -1
  BY DEF ReportIdAt
<1> HIDE DEF t, d
<1>7. \A k \in 1 .. Len(ks) : k \in at <=> t(k) <= o /\ o < t(k) + d(k)
  BY <1>1, <1>2, <1>3
<1>8. j \in at /\ \A k \in at : k = j
  <2>1. j \in at
    BY <1>1, <1>2, <1>3, <1>7
  <2>2. ASSUME NEW k \in at, k # j PROVE FALSE
    <3>1. k \in 1 .. Len(ks) /\ t(k) <= o /\ o < t(k) + d(k)
      BY <1>1, <1>7
    <3>2. t(k) \in Nat /\ t(j) \in Nat /\ d(k) \in Nat /\ d(j) \in Nat
      BY <1>1, <1>3, <3>1
    <3>3. k < j => t(k) + d(k) <= t(j)
      BY <1>4, <3>1
    <3>4. j < k => t(j) + d(j) <= t(k)
      BY <1>4, <3>1
    <3>5. k < j \/ j < k
      BY <1>1, <2>2, <3>1
    <3>6. QED
      BY <1>2, <3>1, <3>2, <3>3, <3>4, <3>5
  <2>3. QED
    BY <2>1, <2>2
<1>9. first = j
  <2>1. j <= j
    BY <1>1
  <2>2. \E k \in at : \A l \in at : k <= l
    BY <1>8, <2>1
  <2> HIDE DEF at
  <2>3. first \in at
    BY <2>2
  <2> HIDE DEF first
  <2>4. QED
    BY <1>8, <2>3
<1>10. o - t(j) = r
  BY <1>2, <1>3
<1>11. at # {}
  BY <1>8
<1>12. ReportIdAt(ks, n, o) = addHID(j, n)
  <2> HIDE DEF at, first, o
  <2>1. o - t(first) = reportIdOffset(ks[first])
    BY <1>9, <1>10
  <2>2. QED
    BY <1>6, <1>9, <1>11, <2>1
<1>13. o < ReportMapSize(ks)
  <2>1. t(j) \in Nat /\ d(j) \in Nat
    BY <1>1, <1>3
  <2>2. o < t(Len(ks) + 1)
    BY <1>2, <1>5, <2>1
  <2>3. QED
    BY <2>2 DEF ReportMapSize, t
<1>14. QED
  BY <1>12, <1>13 DEF t

LEMMA AttributedAlways ==
  ASSUME MapFits(kinds), IdOffset \in 0 .. 255, NEW i \in Hids
  PROVE  Attributed(i)
<1>1. Hids = 1 .. Len(kinds)
  BY MapKinds DEF Hids
<1>2. \A j \in 1 .. Len(kinds) :
        /\ TotalOffset(kinds, j) + reportIdOffset(kinds[j]) < ReportMapSize(kinds)
        /\ ReportIdAt(kinds, IdOffset, TotalOffset(kinds, j) + reportIdOffset(kinds[j]))
             = addHID(j, IdOffset)
  BY IdFound
<1>3. \A j \in 1 .. Len(kinds) : addHID(j, IdOffset) = addHID(i, IdOffset) <=> j = i
  BY <1>1, IdsDiffer
<1>4. Described(kinds, IdOffset, addHID(i, IdOffset))
        = {j \in 1 .. Len(kinds) : addHID(j, IdOffset) = addHID(i, IdOffset)}
  BY <1>1, <1>2 DEF Described, Hids
<1>5. {j \in 1 .. Len(kinds) : addHID(j, IdOffset) = addHID(i, IdOffset)} = {i}
  BY <1>1, <1>3, Zenon
<1>6. QED
  BY <1>4, <1>5 DEF Attributed

------------------------------------------------------------------------------
(* Queues of packets.                                                      *)
LEMMA OwingFacts ==
  ASSUME NEW s, IsQueue(s), NEW i
  PROVE  /\ Owing(s, i) \in Nat
         /\ \A p : Owing(Append(s, p), i) = IF Owes(p, i) THEN Owing(s, i) + 1 ELSE Owing(s, i)
         /\ s # << >> =>
              Owing(Rest(s), i) = IF Owes(s[1], i) THEN Owing(s, i) - 1 ELSE Owing(s, i)
         /\ (\A k \in DOMAIN s : ~Owes(s[k], i)) => Owing(s, i) = 0
<1> DEFINE D(q) == {k \in 1 .. Len(q) : Owes(q[k], i)}
<1>1. Len(s) \in Nat /\ DOMAIN s = 1 .. Len(s)
  BY QueueFacts
<1>2. D(s) \subseteq 1 .. Len(s) /\ IsFiniteSet(D(s)) /\ Cardinality(D(s)) \in Nat
  BY <1>1, ShiftedSet
<1>3. ASSUME NEW p
      PROVE  D(Append(s, p)) = IF Owes(p, i) THEN D(s) \cup {Len(s) + 1} ELSE D(s)
  <2> DEFINE t == Append(s, p)
  <2>1. Len(t) = Len(s) + 1 /\ t[Len(s) + 1] = p /\ \A k \in 1 .. Len(s) : t[k] = s[k]
    BY AppendFacts
  <2> HIDE DEF t
  <2>2. \A k : k \in 1 .. Len(t) <=> k \in 1 .. Len(s) \/ k = Len(s) + 1
    BY <1>1, <2>1
  <2>3. D(t) = IF Owes(p, i) THEN D(s) \cup {Len(s) + 1} ELSE D(s)
    BY <2>1, <2>2
  <2>4. QED
    BY <2>3 DEF t
<1>4. Len(s) + 1 \notin D(s)
  BY <1>1
<1>5. ASSUME s # << >>
      PROVE  D(Rest(s)) = {k \in 1 .. Len(s) - 1 : k + 1 \in D(s)} /\ 1 \in 1 .. Len(s)
  <2> DEFINE t == Rest(s)
  <2>1. /\ Len(t) = Len(s) - 1 /\ 1 \in 1 .. Len(s)
        /\ \A k \in 1 .. Len(t) : t[k] = s[k + 1]
    BY <1>1, <1>5, RestFacts
  <2> HIDE DEF t
  <2>2. \A k \in 1 .. Len(s) - 1 : k + 1 \in 1 .. Len(s)
    BY <1>1
  <2>3. D(t) = {k \in 1 .. Len(s) - 1 : k + 1 \in D(s)}
    BY <2>1, <2>2
  <2>4. QED
    BY <2>1, <2>3 DEF t
<1>6. (\A k \in DOMAIN s : ~Owes(s[k], i)) => D(s) = {}
  BY <1>1
<1>7. ASSUME NEW p
      PROVE  Cardinality(D(Append(s, p))) = IF Owes(p, i) THEN Cardinality(D(s)) + 1
                                            ELSE Cardinality(D(s))
  <2> HIDE DEF D
  <2>1. Cardinality(D(s) \cup {Len(s) + 1}) = Cardinality(D(s)) + 1
    BY <1>2, <1>4, FS_AddElement
  <2>2. QED
    BY <1>3, <2>1
<1>8. ASSUME s # << >>
      PROVE  Cardinality(D(Rest(s))) = IF Owes(s[1], i) THEN Cardinality(D(s)) - 1
                                       ELSE Cardinality(D(s))
  <2>1. 1 \in D(s) <=> Owes(s[1], i)
    BY <1>5, <1>8
  <2> HIDE DEF D
  <2>2. QED
    BY <1>1, <1>2, <1>5, <1>8, <2>1, ShiftedSet
<1>9. \A q : Owing(q, i) = Cardinality(D(q))
  BY DEF Owing
<1> HIDE DEF D
<1>10. QED
  BY <1>2, <1>6, <1>7, <1>8, <1>9, FS_EmptySet

LEMMA LastAppend ==
  ASSUME NEW s, IsQueue(s), NEW p, NEW i, NEW r
  PROVE  /\ p.hid = i /\ p.told /\ p.report = r => LastIs(Append(s, p), i, r)
         /\ p.hid # i /\ LastIs(s, i, r) => LastIs(Append(s, p), i, r)
         /\ p.hid # i /\ Absent(s, i) => Absent(Append(s, p), i)
<1> DEFINE a == Append(s, p)
<1>1. /\ Len(s) \in Nat /\ DOMAIN s = 1 .. Len(s) /\ DOMAIN a = 1 .. Len(s) + 1
      /\ a[Len(s) + 1] = p /\ \A k \in 1 .. Len(s) : a[k] = s[k]
  BY QueueFacts, AppendFacts
<1> HIDE DEF a
<1>2. ASSUME p.hid = i, p.told, p.report = r PROVE LastIs(a, i, r)
  <2>1. Len(s) + 1 \in DOMAIN a /\ \A l \in DOMAIN a : ~(l > Len(s) + 1)
    BY <1>1
  <2>2. QED
    BY <1>1, <1>2, <2>1 DEF LastIs
<1>3. ASSUME p.hid # i, LastIs(s, i, r) PROVE LastIs(a, i, r)
  <2>1. PICK k \in DOMAIN s : /\ s[k].hid = i /\ s[k].told /\ s[k].report = r
                              /\ \A l \in DOMAIN s : l > k => s[l].hid # i
    BY <1>3 DEF LastIs
  <2>2. k \in DOMAIN a /\ a[k] = s[k]
    BY <1>1
  <2>3. \A l \in DOMAIN a : l > k => a[l].hid # i
    BY <1>1, <1>3, <2>1
  <2>4. QED
    BY <2>1, <2>2, <2>3 DEF LastIs
<1>4. ASSUME p.hid # i, Absent(s, i) PROVE Absent(a, i)
  BY <1>1, <1>4 DEF Absent
<1>5. QED
  BY <1>2, <1>3, <1>4 DEF a

LEMMA LastRest ==
  ASSUME NEW s, IsQueue(s), s # << >>, NEW i, NEW r
  PROVE  /\ LastIs(s, i, r) =>
              \/ LastIs(Rest(s), i, r)
              \/ Absent(Rest(s), i) /\ s[1].hid = i /\ s[1].told /\ s[1].report = r
         /\ Absent(s, i) => Absent(Rest(s), i) /\ s[1].hid # i
<1> DEFINE t == Rest(s)
<1>1. /\ \A k \in DOMAIN t : k \in Nat /\ k > 0 /\ k + 1 \in DOMAIN s /\ t[k] = s[k + 1]
      /\ 1 \in DOMAIN s
      /\ \A j \in DOMAIN s :
           j \in Nat /\ (j = 1 \/ (j > 1 /\ j - 1 \in DOMAIN t /\ t[j - 1] = s[j]))
  BY RestIndex
<1> HIDE DEF t
<1>2. ASSUME LastIs(s, i, r)
      PROVE  \/ LastIs(t, i, r)
             \/ Absent(t, i) /\ s[1].hid = i /\ s[1].told /\ s[1].report = r
  <2>1. PICK k \in DOMAIN s : /\ s[k].hid = i /\ s[k].told /\ s[k].report = r
                              /\ \A l \in DOMAIN s : l > k => s[l].hid # i
    BY <1>2 DEF LastIs
  <2>2. CASE k = 1
    <3>1. \A l \in DOMAIN t : t[l].hid # i
      BY <1>1, <2>1, <2>2
    <3>2. QED
      BY <2>1, <2>2, <3>1 DEF Absent
  <2>3. CASE k # 1
    <3>1. k - 1 \in DOMAIN t /\ t[k - 1] = s[k]
      BY <1>1, <2>3
    <3>2. \A l \in DOMAIN t : l > k - 1 => t[l].hid # i
      BY <1>1, <2>1
    <3>3. QED
      BY <2>1, <3>1, <3>2 DEF LastIs
  <2>4. QED
    BY <2>2, <2>3
<1>3. ASSUME Absent(s, i) PROVE Absent(t, i) /\ s[1].hid # i
  BY <1>1, <1>3 DEF Absent
<1>4. QED
  BY <1>2, <1>3 DEF t

(* A packet is taken; one that nobody was told of is refused; another is   *)
(* sent; the peer receives one.                                            *)
LEMMA LatestTaken ==
  ASSUME NEW q, IsQueue(q), q # << >>, NEW t, IsQueue(t), NEW last, NEW r, NEW i,
         LatestIn(q, t, last, r, i)
  PROVE  LatestIn(Rest(q), Append(t, q[1]), last, r, i)
<1>1. CASE LastIs(q, i, r)
  <2>1. CASE LastIs(Rest(q), i, r)
    BY <2>1 DEF LatestIn
  <2>2. CASE Absent(Rest(q), i) /\ q[1].hid = i /\ q[1].told /\ q[1].report = r
    BY <2>2, LastAppend DEF LatestIn
  <2>3. QED
    BY <1>1, <2>1, <2>2, LastRest
<1>2. CASE Absent(q, i) /\ (LastIs(t, i, r) \/ (Absent(t, i) /\ last = r))
  <2>1. Absent(Rest(q), i) /\ q[1].hid # i
    BY <1>2, LastRest
  <2>2. QED
    BY <1>2, <2>1, LastAppend DEF LatestIn
<1>3. QED
  BY <1>1, <1>2 DEF LatestIn

LEMMA LatestRefused ==
  ASSUME NEW q, IsQueue(q), q # << >>, NEW t, NEW last, NEW r, NEW i,
         ~q[1].told, LatestIn(q, t, last, r, i)
  PROVE  LatestIn(Rest(q), t, last, r, i)
BY LastRest DEF LatestIn

LEMMA LatestSent ==
  ASSUME NEW q, IsQueue(q), NEW t, NEW last, NEW r, NEW i, NEW p
  PROVE  /\ p.hid = i /\ p.told /\ p.report = r => LatestIn(Append(q, p), t, last, r, i)
         /\ p.hid # i /\ LatestIn(q, t, last, r, i) => LatestIn(Append(q, p), t, last, r, i)
BY LastAppend DEF LatestIn

LEMMA LatestReceived ==
  ASSUME NEW q, NEW t, IsQueue(t), t # << >>, NEW last, NEW r, NEW i,
         LatestIn(q, t, last, r, i)
  PROVE  LatestIn(q, Rest(t), IF t[1].hid = i THEN t[1].report ELSE last, r, i)
<1>1. CASE LastIs(q, i, r)
  BY <1>1 DEF LatestIn
<1>2. CASE Absent(q, i) /\ LastIs(t, i, r)
  <2>1. CASE LastIs(Rest(t), i, r)
    BY <1>2, <2>1 DEF LatestIn
  <2>2. CASE Absent(Rest(t), i) /\ t[1].hid = i /\ t[1].report = r
    BY <1>2, <2>2 DEF LatestIn
  <2>3. QED
    BY <1>2, <2>1, <2>2, LastRest
<1>3. CASE Absent(q, i) /\ Absent(t, i) /\ last = r
  BY <1>3, LastRest DEF LatestIn
<1>4. QED
  BY <1>1, <1>2, <1>3 DEF LatestIn

(* The packets to a pipe that is closed are forgotten.                     *)
LEMMA ForgottenFacts ==
  ASSUME NEW s, PacketQueue(s), NEW lost
  PROVE  /\ PacketQueue(Forgotten(lost, s)) /\ Len(Forgotten(lost, s)) = Len(s)
         /\ DOMAIN Forgotten(lost, s) = DOMAIN s
         /\ \A k \in DOMAIN s :
              /\ Forgotten(lost, s)[k].hid = s[k].hid
              /\ Forgotten(lost, s)[k].report = s[k].report
              /\ Forgotten(lost, s)[k].told <=> s[k].told /\ s[k].hid \notin lost
<1> DEFINE f == Forgotten(lost, s)
<1>1. Len(s) \in Nat /\ DOMAIN s = 1 .. Len(s) /\ \A k \in DOMAIN s : PacketShape(s[k])
  BY QueueFacts DEF PacketQueue
<1>2. f = [k \in DOMAIN s |-> [s[k] EXCEPT !.told = @ /\ s[k].hid \notin lost]]
  BY DEF Forgotten
<1> HIDE DEF f
<1>3. DOMAIN f = 1 .. Len(s)
  BY <1>1, <1>2
<1>4. ASSUME NEW k \in DOMAIN s
      PROVE  /\ f[k].hid = s[k].hid /\ f[k].report = s[k].report
             /\ f[k].told = (s[k].told /\ s[k].hid \notin lost) /\ PacketShape(f[k])
  <2> DEFINE p == s[k]
             b == p.told /\ p.hid \notin lost
  <2>1. f[k] = [p EXCEPT !.told = b]
    BY <1>2
  <2>2. DOMAIN p = {"hid", "report", "told"} /\ p.hid \in Hids
    BY <1>1 DEF PacketShape
  <2>3. b \in BOOLEAN
    OBVIOUS
  <2> HIDE DEF p, b
  <2>4. f[k].hid = p.hid /\ f[k].report = p.report /\ f[k].told = b
    BY <2>1, <2>2
  <2>5. DOMAIN f[k] = {"hid", "report", "told"}
    BY <2>1, <2>2
  <2>6. PacketShape(f[k])
    BY <2>2, <2>3, <2>4, <2>5 DEF PacketShape
  <2>7. QED
    BY <2>4, <2>6 DEF p, b
<1>5. IsQueue(f) /\ Len(f) = Len(s)
  <2> DEFINE S == {f[k] : k \in 1 .. Len(s)}
  <2>1. f \in [1 .. Len(s) -> S]
    <3>1. f = [k \in 1 .. Len(s) |-> f[k]]
      BY <1>1, <1>2
    <3>2. QED
      BY <3>1
  <2> HIDE DEF S
  <2>2. f \in Seq(S)
    BY <1>1, <2>1, SeqDef
  <2>3. QED
    BY <1>1, <1>3, <2>2, LenProperties DEF IsQueue
<1>6. QED
  BY <1>1, <1>3, <1>4, <1>5 DEF f, PacketQueue

LEMMA ForgottenKeeps ==
  ASSUME NEW s, PacketQueue(s), NEW lost, NEW i
  PROVE  LET f == Forgotten(lost, s)
         IN  /\ Absent(f, i) <=> Absent(s, i)
             /\ i \in lost => Owing(f, i) = 0
             /\ i \notin lost =>
                  /\ Owing(f, i) = Owing(s, i)
                  /\ \A r : LastIs(s, i, r) => LastIs(f, i, r)
<1> DEFINE f == Forgotten(lost, s)
<1>1. /\ PacketQueue(f) /\ Len(f) = Len(s) /\ DOMAIN f = DOMAIN s
      /\ \A k \in DOMAIN s :
           /\ f[k].hid = s[k].hid /\ f[k].report = s[k].report
           /\ f[k].told <=> s[k].told /\ s[k].hid \notin lost
  BY ForgottenFacts
<1>2. Len(s) \in Nat /\ DOMAIN s = 1 .. Len(s) /\ IsQueue(f)
  BY <1>1, QueueFacts DEF PacketQueue
<1> HIDE DEF f
<1>3. Absent(f, i) <=> Absent(s, i)
  BY <1>1 DEF Absent
<1>4. ASSUME i \in lost PROVE Owing(f, i) = 0
  <2>1. \A k \in DOMAIN f : ~Owes(f[k], i)
    BY <1>1, <1>4 DEF Owes
  <2>2. QED
    BY <1>2, <2>1, OwingFacts
<1>5. ASSUME i \notin lost PROVE Owing(f, i) = Owing(s, i)
  <2>1. \A k \in 1 .. Len(s) : Owes(f[k], i) <=> Owes(s[k], i)
    BY <1>1, <1>2, <1>5 DEF Owes
  <2>2. {k \in 1 .. Len(f) : Owes(f[k], i)} = {k \in 1 .. Len(s) : Owes(s[k], i)}
    BY <1>1, <2>1
  <2>3. QED
    BY <2>2 DEF Owing
<1>6. ASSUME i \notin lost, NEW r, LastIs(s, i, r) PROVE LastIs(f, i, r)
  BY <1>1, <1>6 DEF LastIs
<1>7. QED
  BY <1>3, <1>4, <1>5, <1>6 DEF f

LEMMA LatestForgotten ==
  ASSUME NEW q, PacketQueue(q), NEW t, PacketQueue(t), NEW lost, NEW i, i \notin lost,
         NEW last, NEW r, LatestIn(q, t, last, r, i)
  PROVE  LatestIn(Forgotten(lost, q), Forgotten(lost, t), last, r, i)
<1>1. /\ Absent(q, i) => Absent(Forgotten(lost, q), i)
      /\ Absent(t, i) => Absent(Forgotten(lost, t), i)
      /\ LastIs(q, i, r) => LastIs(Forgotten(lost, q), i, r)
      /\ LastIs(t, i, r) => LastIs(Forgotten(lost, t), i, r)
  BY ForgottenKeeps
<1>2. QED
  BY <1>1 DEF LatestIn

(* The data packets in tx are those that are queued.                       *)
LEMMA CarriedAppend ==
  ASSUME NEW tx, IsQueue(tx), NEW q, IsQueue(q), Carried(tx, q)
  PROVE  /\ \A p : Carried(Append(tx, <<"data", Pipe(p.hid)>>), Append(q, p))
         /\ \A c : ~IsData(c) => Carried(Append(tx, c), q)
<1>1. PICK f \in [1 .. Len(q) -> DOMAIN tx] :
        /\ \A m, n \in 1 .. Len(q) : m < n => f[m] < f[n]
        /\ \A n \in 1 .. Len(q) : tx[f[n]] = <<"data", Pipe(q[n].hid)>>
        /\ \A k \in DOMAIN tx : IsData(tx[k]) => \E n \in 1 .. Len(q) : f[n] = k
  BY DEF Carried
<1>2. Len(tx) \in Nat /\ DOMAIN tx = 1 .. Len(tx) /\ Len(q) \in Nat
  BY QueueFacts
<1>3. ASSUME NEW c
      PROVE  /\ DOMAIN Append(tx, c) = 1 .. Len(tx) + 1 /\ Append(tx, c)[Len(tx) + 1] = c
             /\ \A k \in 1 .. Len(tx) : Append(tx, c)[k] = tx[k]
  BY AppendFacts
<1>4. ASSUME NEW p PROVE Carried(Append(tx, <<"data", Pipe(p.hid)>>), Append(q, p))
  <2> DEFINE d == <<"data", Pipe(p.hid)>>
             ux == Append(tx, d)
             u == Append(q, p)
             N == Len(q)
             g == [n \in 1 .. N + 1 |-> IF n = N + 1 THEN Len(tx) + 1 ELSE f[n]]
  <2>1. /\ DOMAIN ux = 1 .. Len(tx) + 1 /\ ux[Len(tx) + 1] = d
        /\ \A k \in 1 .. Len(tx) : ux[k] = tx[k]
    BY <1>3
  <2>2. Len(u) = N + 1 /\ u[N + 1] = p /\ \A n \in 1 .. N : u[n] = q[n]
    BY AppendFacts
  <2>3. /\ g[N + 1] = Len(tx) + 1
        /\ \A n \in 1 .. N : g[n] = f[n] /\ f[n] \in 1 .. Len(tx)
    BY <1>2
  <2>4. \A n \in 1 .. N + 1 : n = N + 1 \/ n \in 1 .. N
    BY <1>2
  <2>5. g \in [1 .. Len(u) -> DOMAIN ux]
    BY <1>2, <2>1, <2>2, <2>3, <2>4
  <2> HIDE DEF ux, u, g, d
  <2>6. \A m, n \in 1 .. N + 1 : m < n => g[m] < g[n]
    <3> SUFFICES ASSUME NEW m \in 1 .. N + 1, NEW n \in 1 .. N + 1, m < n PROVE g[m] < g[n]
      OBVIOUS
    <3>1. m \in 1 .. N
      BY <1>2
    <3>2. CASE n = N + 1
      BY <1>2, <2>3, <3>1, <3>2
    <3>3. CASE n \in 1 .. N
      BY <1>1, <2>3, <3>1, <3>3
    <3>4. QED
      BY <2>4, <3>2, <3>3
  <2>7. \A n \in 1 .. N + 1 : ux[g[n]] = <<"data", Pipe(u[n].hid)>>
    BY <1>1, <2>1, <2>2, <2>3, <2>4 DEF d
  <2>8. \A k \in DOMAIN ux : IsData(ux[k]) => \E n \in 1 .. N + 1 : g[n] = k
    <3> SUFFICES ASSUME NEW k \in DOMAIN ux, IsData(ux[k]) PROVE \E n \in 1 .. N + 1 : g[n] = k
      OBVIOUS
    <3>1. k = Len(tx) + 1 \/ k \in 1 .. Len(tx)
      BY <1>2, <2>1
    <3>2. CASE k = Len(tx) + 1
      <4>1. N + 1 \in 1 .. N + 1
        BY <1>2
      <4>2. QED
        BY <2>3, <3>2, <4>1
    <3>3. CASE k \in 1 .. Len(tx)
      <4>1. PICK n \in 1 .. N : f[n] = k
        BY <1>1, <1>2, <2>1, <3>3
      <4>2. n \in 1 .. N + 1 /\ g[n] = k
        BY <1>2, <2>3, <4>1
      <4>3. QED
        BY <4>2
    <3>4. QED
      BY <3>1, <3>2, <3>3
  <2>9. Carried(ux, u)
    BY <2>2, <2>5, <2>6, <2>7, <2>8 DEF Carried
  <2>10. QED
    BY <2>9 DEF ux, u, d
<1>5. ASSUME NEW c, ~IsData(c) PROVE Carried(Append(tx, c), q)
  <2> DEFINE ux == Append(tx, c)
  <2>1. /\ DOMAIN ux = 1 .. Len(tx) + 1 /\ ux[Len(tx) + 1] = c
        /\ \A k \in 1 .. Len(tx) : ux[k] = tx[k]
    BY <1>3
  <2> HIDE DEF ux
  <2>2. \A k \in DOMAIN ux : k = Len(tx) + 1 \/ k \in 1 .. Len(tx)
    BY <1>2, <2>1
  <2>3. \A n \in 1 .. Len(q) : f[n] \in 1 .. Len(tx) /\ f[n] \in DOMAIN ux
    BY <1>2, <2>1
  <2>4. f \in [1 .. Len(q) -> DOMAIN ux]
    BY <2>3
  <2>5. \A n \in 1 .. Len(q) : ux[f[n]] = <<"data", Pipe(q[n].hid)>>
    BY <1>1, <2>1, <2>3
  <2>6. \A k \in DOMAIN ux : IsData(ux[k]) => \E n \in 1 .. Len(q) : f[n] = k
    BY <1>1, <1>2, <1>5, <2>1, <2>2
  <2>7. Carried(ux, q)
    BY <1>1, <2>4, <2>5, <2>6 DEF Carried
  <2>8. QED
    BY <2>7 DEF ux
<1>6. QED
  BY <1>4, <1>5

LEMMA CarriedRest ==
  ASSUME NEW tx, IsQueue(tx), tx # << >>, NEW q, IsQueue(q), Carried(tx, q)
  PROVE  /\ IsData(tx[1]) =>
              q # << >> /\ tx[1] = <<"data", Pipe(q[1].hid)>> /\ Carried(Rest(tx), Rest(q))
         /\ ~IsData(tx[1]) => Carried(Rest(tx), q)
<1>1. PICK f \in [1 .. Len(q) -> DOMAIN tx] :
        /\ \A m, n \in 1 .. Len(q) : m < n => f[m] < f[n]
        /\ \A n \in 1 .. Len(q) : tx[f[n]] = <<"data", Pipe(q[n].hid)>>
        /\ \A k \in DOMAIN tx : IsData(tx[k]) => \E n \in 1 .. Len(q) : f[n] = k
  BY DEF Carried
<1> DEFINE ux == Rest(tx)
<1>2. /\ Len(q) \in Nat /\ 1 \in DOMAIN tx /\ DOMAIN tx = 1 .. Len(tx) /\ Len(tx) \in Nat
      /\ \A k \in DOMAIN ux : k \in Nat /\ k > 0 /\ k + 1 \in DOMAIN tx /\ ux[k] = tx[k + 1]
      /\ \A j \in DOMAIN tx :
           j \in Nat /\ (j = 1 \/ (j > 1 /\ j - 1 \in DOMAIN ux /\ ux[j - 1] = tx[j]))
  BY QueueFacts, RestIndex
<1> HIDE DEF ux
<1>3. ASSUME IsData(tx[1])
      PROVE  q # << >> /\ tx[1] = <<"data", Pipe(q[1].hid)>> /\ Carried(ux, Rest(q))
  <2>1. PICK o \in 1 .. Len(q) : f[o] = 1
    BY <1>1, <1>2, <1>3
  <2>2. 1 \in 1 .. Len(q) /\ q # << >>
    BY <1>2, <2>1, QueueFacts
  <2>3. o = 1
    <3>1. 1 < o => f[1] < 1
      BY <1>1, <2>1, <2>2
    <3>2. f[1] \in Nat /\ f[1] >= 1
      BY <1>2, <2>2
    <3>3. QED
      BY <1>2, <2>1, <3>1, <3>2
  <2>4. tx[1] = <<"data", Pipe(q[1].hid)>>
    BY <1>1, <2>1, <2>2, <2>3
  <2> DEFINE u == Rest(q)
             g == [n \in 1 .. Len(q) - 1 |-> f[n + 1] - 1]
  <2>5. Len(u) = Len(q) - 1 /\ \A n \in 1 .. Len(u) : u[n] = q[n + 1]
    BY <2>2, RestFacts
  <2>6. \A n \in 1 .. Len(q) - 1 : n + 1 \in 1 .. Len(q) /\ 1 < n + 1
    BY <1>2
  <2>7. \A n \in 1 .. Len(q) - 1 :
          g[n] = f[n + 1] - 1 /\ f[n + 1] \in DOMAIN tx /\ f[n + 1] \in Nat /\ f[n + 1] > 1
    <3> SUFFICES ASSUME NEW n \in 1 .. Len(q) - 1
                 PROVE  f[n + 1] \in DOMAIN tx /\ f[n + 1] \in Nat /\ f[n + 1] > 1
      OBVIOUS
    <3>1. n + 1 \in 1 .. Len(q) /\ 1 < n + 1
      BY <2>6
    <3>2. f[1] < f[n + 1] /\ f[n + 1] \in DOMAIN tx
      BY <1>1, <2>2, <3>1
    <3>3. QED
      BY <1>2, <2>1, <2>3, <3>2
  <2>8. \A n \in 1 .. Len(q) - 1 : g[n] \in DOMAIN ux /\ ux[g[n]] = tx[f[n + 1]]
    BY <1>2, <2>7
  <2>9. g \in [1 .. Len(q) - 1 -> DOMAIN ux]
    BY <2>8
  <2> HIDE DEF g, u
  <2>10. \A m, n \in 1 .. Len(q) - 1 : m < n => g[m] < g[n]
    <3> SUFFICES ASSUME NEW m \in 1 .. Len(q) - 1, NEW n \in 1 .. Len(q) - 1, m < n
                 PROVE  g[m] < g[n]
      OBVIOUS
    <3>1. m + 1 \in 1 .. Len(q) /\ n + 1 \in 1 .. Len(q) /\ m + 1 < n + 1
      BY <2>6
    <3>2. f[m + 1] < f[n + 1]
      BY <1>1, <3>1
    <3>3. QED
      BY <2>7, <3>2
  <2>11. \A n \in 1 .. Len(q) - 1 : ux[g[n]] = <<"data", Pipe(u[n].hid)>>
    BY <1>1, <2>5, <2>6, <2>8
  <2>12. \A k \in DOMAIN ux : IsData(ux[k]) => \E n \in 1 .. Len(q) - 1 : g[n] = k
    <3> SUFFICES ASSUME NEW k \in DOMAIN ux, IsData(ux[k])
                 PROVE  \E n \in 1 .. Len(q) - 1 : g[n] = k
      OBVIOUS
    <3>1. k \in Nat /\ k > 0 /\ k + 1 \in DOMAIN tx /\ IsData(tx[k + 1])
      BY <1>2
    <3>2. PICK n \in 1 .. Len(q) : f[n] = k + 1
      BY <1>1, <3>1
    <3>3. n # 1
      BY <2>1, <2>3, <3>1, <3>2
    <3>4. n - 1 \in 1 .. Len(q) - 1 /\ (n - 1) + 1 = n
      BY <1>2, <3>3
    <3>5. g[n - 1] = k
      BY <2>7, <3>1, <3>2, <3>4
    <3>6. QED
      BY <3>4, <3>5
  <2>13. Carried(ux, u)
    BY <2>5, <2>9, <2>10, <2>11, <2>12 DEF Carried
  <2>14. QED
    BY <2>2, <2>4, <2>13 DEF u
<1>4. ASSUME ~IsData(tx[1]) PROVE Carried(ux, q)
  <2> DEFINE g == [n \in 1 .. Len(q) |-> f[n] - 1]
  <2>1. \A n \in 1 .. Len(q) : IsData(tx[f[n]])
    <3>1. \A x : IsData(<<"data", x>>)
      BY DEF IsData
    <3>2. QED
      BY <1>1, <3>1
  <2>2. \A n \in 1 .. Len(q) : f[n] \in DOMAIN tx /\ f[n] \in Nat /\ f[n] # 1
    BY <1>2, <1>4, <2>1
  <2>3. \A n \in 1 .. Len(q) : g[n] = f[n] - 1 /\ g[n] \in DOMAIN ux /\ ux[g[n]] = tx[f[n]]
    BY <1>2, <2>2
  <2>4. g \in [1 .. Len(q) -> DOMAIN ux]
    BY <2>3
  <2> HIDE DEF g
  <2>5. \A m, n \in 1 .. Len(q) : m < n => g[m] < g[n]
    BY <1>1, <2>2, <2>3
  <2>6. \A n \in 1 .. Len(q) : ux[g[n]] = <<"data", Pipe(q[n].hid)>>
    BY <1>1, <2>3
  <2>7. \A k \in DOMAIN ux : IsData(ux[k]) => \E n \in 1 .. Len(q) : g[n] = k
    <3> SUFFICES ASSUME NEW k \in DOMAIN ux, IsData(ux[k]) PROVE \E n \in 1 .. Len(q) : g[n] = k
      OBVIOUS
    <3>1. k \in Nat /\ k > 0 /\ k + 1 \in DOMAIN tx /\ IsData(tx[k + 1])
      BY <1>2
    <3>2. PICK n \in 1 .. Len(q) : f[n] = k + 1
      BY <1>1, <3>1
    <3>3. g[n] = k
      BY <2>3, <3>1, <3>2
    <3>4. QED
      BY <3>3
  <2>8. QED
    BY <2>4, <2>5, <2>6, <2>7 DEF Carried
<1>5. QED
  BY <1>3, <1>4 DEF ux

LEMMA CarriedForgotten ==
  ASSUME NEW tx, NEW q, PacketQueue(q), Carried(tx, q), NEW lost
  PROVE  Carried(tx, Forgotten(lost, q))
<1> DEFINE u == Forgotten(lost, q)
<1>1. Len(u) = Len(q) /\ \A n \in 1 .. Len(q) : u[n].hid = q[n].hid
  BY ForgottenFacts, QueueFacts DEF PacketQueue
<1> HIDE DEF u
<1>2. Carried(tx, u)
  BY <1>1 DEF Carried
<1>3. QED
  BY <1>2 DEF u

------------------------------------------------------------------------------
(* A report is sent: the value is set, and a packet sent if its pipe is    *)
(* open and tx has room for it.                                            *)
LEMMA SentCases ==
  ASSUME NEW o, OutShape(o), NEW c
  PROVE  /\ OutShape(Sent(o, c))
         /\ Sent(o, c).credit = o.credit /\ Sent(o, c).broadcast = o.broadcast
         /\ Room(o) => Sent(o, c).tx = Append(o.tx, c)
         /\ ~Room(o) => Sent(o, c).tx = o.tx
         /\ Len(Sent(o, c).tx) <= Len(o.tx) + 1 /\ Len(o.tx) \in Nat
         /\ NoDisconnect(o.tx) /\ c[1] # "disconnect" => NoDisconnect(Sent(o, c).tx)
<1>1. OutShape(Sent(o, c))
  BY SentGrows DEF Grows
<1>2. Len(o.tx) \in Nat
  BY QueueFacts DEF OutShape
<1>3. CASE Room(o)
  <2> DEFINE tx == Append(o.tx, c)
  <2>1. Sent(o, c) = [o EXCEPT !.tx = tx]
    BY <1>3 DEF Sent
  <2>2. /\ Len(tx) = Len(o.tx) + 1
        /\ \A k \in DOMAIN tx :
             (k = Len(o.tx) + 1 /\ tx[k] = c) \/ (k \in DOMAIN o.tx /\ tx[k] = o.tx[k])
    BY AppendFacts, AppendElements DEF OutShape
  <2> HIDE DEF tx
  <2>3. Sent(o, c).tx = tx /\ Sent(o, c).credit = o.credit /\ Sent(o, c).broadcast = o.broadcast
    BY <2>1 DEF OutShape
  <2>4. NoDisconnect(o.tx) /\ c[1] # "disconnect" => NoDisconnect(tx)
    BY <2>2 DEF NoDisconnect
  <2>5. QED
    BY <1>1, <1>2, <1>3, <2>2, <2>3, <2>4 DEF tx
<1>4. CASE ~Room(o)
  <2>1. Sent(o, c) = Refused(o)
    BY <1>4 DEF Sent
  <2>2. /\ Refused(o).tx = o.tx /\ Refused(o).credit = o.credit
        /\ Refused(o).broadcast = o.broadcast
    BY RefusedFacts
  <2>3. QED
    BY <1>1, <1>2, <1>4, <2>1, <2>2
<1>5. QED
  BY <1>3, <1>4

LEMMA PacketCount ==
  ASSUME NEW o, OutShape(o)
  PROVE  DataPackets(o) = Packets(o.tx) /\ Packets(o.tx) \in Nat
<1>1. DOMAIN o.tx = 1 .. Len(o.tx) /\ Packets(o.tx) \in Nat
  BY QueueFacts, CountFacts DEF OutShape
<1>2. QED
  BY <1>1 DEF DataPackets, Packets, IsData

LEMMA SendFacts ==
  ASSUME DriverInv, OutShape(out), NEW i, Local[i].txAck = 0, out.credit > 0,
         PacketQueue(queued), CarriedInv, NEW p, p.hid = i
  PROVE  LET after == updateCharacteristicValue(out, txOpen, i)
         IN  /\ OutShape(after) /\ after.broadcast = 0 /\ NoDisconnect(after.tx)
             /\ Len(after.tx) <= Len(out.tx) + 2
             /\ after.credit \in Nat /\ after.credit <= out.credit
             /\ \/ /\ DataPackets(after) > DataPackets(out)
                   /\ after.credit = out.credit - 1 /\ Pipe(i) \in txOpen
                   /\ Carried(after.tx, Append(queued, p))
                \/ /\ ~(DataPackets(after) > DataPackets(out)) /\ Carried(after.tx, queued)
                   /\ Len(out.tx) <= 2 => Pipe(i) \notin txOpen
<1> DEFINE advertised == IF out.broadcast = Local[i].adv
                         THEN SentTo(out, "setLocal", Local[i].adv) ELSE out
           s == Local[i].set
           r == SentTo(advertised, "setLocal", s)
           d == <<"data", Pipe(i)>>
           n == Notified(r, txOpen, Pipe(i))
           after == updateCharacteristicValue(out, txOpen, i)
<1>1. advertised = out
  BY DEF DriverInv, SentTo
<1>2. /\ OutShape(r) /\ r.credit = out.credit /\ r.broadcast = 0 /\ NoDisconnect(r.tx)
      /\ Len(r.tx) <= Len(out.tx) + 1 /\ Len(r.tx) \in Nat /\ Len(out.tx) \in Nat
      /\ Carried(r.tx, queued) /\ Packets(r.tx) = Packets(out.tx)
  <2> DEFINE c == <<"setLocal", s>>
  <2>1. Len(out.tx) \in Nat
    BY QueueFacts DEF OutShape
  <2>2. CASE s = 0
    BY <1>1, <2>1, <2>2 DEF SentTo, DriverInv, CarriedInv
  <2>3. CASE s # 0
    <3>1. r = Sent(out, c)
      BY <1>1, <2>3 DEF SentTo
    <3>2. ~IsData(c) /\ c[1] # "disconnect"
      BY DEF IsData
    <3> HIDE DEF c, r
    <3>3. /\ OutShape(r) /\ r.credit = out.credit /\ r.broadcast = out.broadcast
          /\ Len(r.tx) <= Len(out.tx) + 1 /\ NoDisconnect(r.tx)
          /\ (r.tx = out.tx \/ r.tx = Append(out.tx, c))
      BY <3>1, <3>2, SentCases DEF DriverInv
    <3>4. Packets(r.tx) = Packets(out.tx)
      BY <3>1, <3>2, SentFacts
    <3>5. Carried(r.tx, queued)
      BY <3>2, <3>3, CarriedAppend DEF CarriedInv, OutShape, PacketQueue
    <3>6. QED
      BY <2>1, <3>3, <3>4, <3>5, QueueFacts DEF DriverInv, OutShape
  <2>4. QED
    BY <2>2, <2>3
<1>3. after = n
  <2>1. 0 \notin txOpen
    BY DEF DriverInv, AllTxPipes, TxPipes
  <2>2. after = Notified(n, txOpen, 0)
    BY DEF updateCharacteristicValue, Pipe
  <2> HIDE DEF n, after
  <2>3. QED
    BY <2>1, <2>2 DEF Notified
<1>4. Pipe(p.hid) = Pipe(i)
  OBVIOUS
<1> HIDE DEF r, after
<1>5. CASE Pipe(i) \notin txOpen
  <2>1. after = r
    BY <1>3, <1>5 DEF Notified
  <2>2. DataPackets(after) = DataPackets(out) /\ DataPackets(out) \in Nat
    BY <1>2, <2>1, PacketCount
  <2>3. QED
    BY <1>2, <1>5, <2>1, <2>2 DEF after, DriverInv
<1>6. CASE Pipe(i) \in txOpen
  <2> DEFINE spent == [r EXCEPT !.credit = r.credit - 1]
  <2>1. /\ OutShape(spent) /\ spent.tx = r.tx /\ spent.credit = r.credit - 1
        /\ spent.broadcast = r.broadcast
    BY <1>2 DEF OutShape
  <2>2. after = Sent(spent, d)
    BY <1>2, <1>3, <1>6 DEF Notified, canNotifyCharacteristic
  <2>3. IsData(d) /\ d[1] # "disconnect" /\ d = <<"data", Pipe(p.hid)>>
    BY DEF IsData
  <2> HIDE DEF spent
  <2>4. /\ OutShape(after) /\ after.credit = spent.credit /\ after.broadcast = spent.broadcast
        /\ Room(spent) => after.tx = Append(spent.tx, d)
        /\ ~Room(spent) => after.tx = spent.tx
        /\ Len(after.tx) <= Len(spent.tx) + 1 /\ NoDisconnect(after.tx)
    BY <1>2, <2>1, <2>2, <2>3, SentCases
  <2>5. after.credit = out.credit - 1 /\ after.credit \in Nat /\ after.credit <= out.credit
    BY <1>2, <2>1, <2>4 DEF DriverInv
  <2>6. CASE Room(spent)
    <3>1. Packets(after.tx) = Packets(out.tx) + 1
      <4>1. IsQueue(r.tx) /\ after.tx = Append(r.tx, d)
        BY <1>2, <2>1, <2>4, <2>6 DEF OutShape
      <4>2. Packets(Append(r.tx, d)) = Packets(r.tx) + 1
        <5> HIDE DEF d
        <5>1. QED
          BY <2>3, <4>1, CountFacts
      <4>3. QED
        BY <1>2, <4>1, <4>2
    <3>2. DataPackets(after) > DataPackets(out)
      BY <2>4, <3>1, PacketCount
    <3>3. Carried(after.tx, Append(queued, p))
      BY <1>2, <2>1, <2>3, <2>4, <2>6, CarriedAppend DEF OutShape, PacketQueue
    <3>4. QED
      BY <1>2, <1>6, <2>1, <2>4, <2>5, <3>2, <3>3, QueueFacts DEF after, OutShape
  <2>7. CASE ~Room(spent)
    <3>1. after.tx = r.tx
      BY <2>1, <2>4, <2>7
    <3>2. ~(DataPackets(after) > DataPackets(out))
      BY <1>2, <2>4, <3>1, PacketCount
    <3>3. ~(Len(out.tx) <= 2)
      BY <1>2, <2>1, <2>7 DEF Room, ACI_QUEUE_SIZE
    <3>4. QED
      BY <1>2, <2>1, <2>4, <2>5, <3>1, <3>2, <3>3 DEF after
  <2>8. QED
    BY <2>6, <2>7
<1>7. QED
  BY <1>5, <1>6

------------------------------------------------------------------------------
(* The inductive invariant.                                                *)
KeysInv ==
  /\ DevicesInv /\ TypingShape /\ SendingInv /\ DriverInv /\ ComingInv /\ BalanceInv
  /\ RoomInv /\ ToldInv /\ CarriedInv /\ OwedInv /\ LatestInv

(* What is assumed of the tables: the HIDs' report characteristics are in  *)
(* them, notify and do not indicate, as BLEHIDReportCharacteristic says,   *)
(* and the HIDs' descriptors together are a report map that a byte can     *)
(* count.                                                                  *)
HidTables ==
  \A ks \in HidSets :
    /\ MapFits(ks) /\ Len(ks) <= Len(Local)
    /\ \A i \in 1 .. Len(ks) : Local[i].txAck = 0

LEMMA HidPipes ==
  ASSUME HidTables, TypingShape
  PROVE  /\ MapFits(kinds) /\ Hids = 1 .. Len(kinds) /\ Len(kinds) \in Nat
         /\ \A i \in Hids : Local[i].txAck = 0
<1>1. MapFits(kinds) /\ \A i \in 1 .. Len(kinds) : Local[i].txAck = 0
  BY DEF HidTables, TypingShape
<1>2. Hids = 1 .. Len(kinds) /\ Len(kinds) \in Nat
  BY <1>1, MapKinds DEF Hids
<1>3. QED
  BY <1>1, <1>2

LEMMA QueueGrows ==
  ASSUME NEW q, PacketQueue(q), NEW p, PacketShape(p)
  PROVE  /\ PacketQueue(Append(q, p)) /\ Len(Append(q, p)) = Len(q) + 1 /\ Len(q) \in Nat
         /\ \A k \in DOMAIN Append(q, p) :
              Append(q, p)[k] = p \/ \E l \in DOMAIN q : Append(q, p)[k] = q[l]
<1> DEFINE a == Append(q, p)
<1>1. /\ IsQueue(a) /\ Len(a) = Len(q) + 1 /\ Len(q) \in Nat
      /\ \A k \in DOMAIN a : a[k] = p \/ (k \in DOMAIN q /\ a[k] = q[k])
  BY AppendFacts, AppendElements, QueueFacts DEF PacketQueue
<1> HIDE DEF a
<1>2. PacketQueue(a)
  BY <1>1 DEF PacketQueue
<1>3. QED
  BY <1>1, <1>2 DEF a

LEMMA QueueShrinks ==
  ASSUME NEW q, PacketQueue(q), q # << >>
  PROVE  /\ PacketQueue(Rest(q)) /\ Len(Rest(q)) = Len(q) - 1 /\ Len(q) \in Nat
         /\ 1 \in DOMAIN q /\ Head(q) = q[1] /\ Tail(q) = Rest(q) /\ PacketShape(q[1])
         /\ \A k \in DOMAIN Rest(q) : \E l \in DOMAIN q : Rest(q)[k] = q[l]
<1> DEFINE t == Rest(q)
<1>1. /\ IsQueue(t) /\ Len(t) = Len(q) - 1 /\ Len(q) \in Nat /\ 1 \in DOMAIN q /\ Head(q) = q[1]
      /\ \A k \in DOMAIN t : k + 1 \in DOMAIN q /\ t[k] = q[k + 1]
  BY RestFacts, RestIndex, QueueFacts DEF PacketQueue
<1>2. Tail(q) = t
  BY DEF Rest
<1> HIDE DEF t
<1>3. PacketQueue(t) /\ PacketShape(q[1])
  BY <1>1 DEF PacketQueue
<1>4. QED
  BY <1>1, <1>2, <1>3 DEF t

LEMMA EmptyQueue == \A s : IsQueue(s) => (s = << >> <=> Len(s) = 0)
<1> TAKE s
<1>1. ASSUME IsQueue(s) PROVE s = << >> <=> Len(s) = 0
  <2>1. PICK S : s \in Seq(S)
    BY <1>1 DEF IsQueue
  <2>2. QED
    BY <2>1
<1>2. QED
  BY <1>1

(* What sendData still has to send.                                        *)
LEMMA SendingShrinks ==
  ASSUME SendingInv, sending # << >>
  PROVE  /\ IsQueue(Tail(sending)) /\ Len(Tail(sending)) = Len(sending) - 1
         /\ Len(sending) \in {1, 2} /\ Head(sending) = sending[1] /\ sending[1].hid \in Hids
         /\ Tail(sending) = << >> =>
              Len(sending) = 1 /\ sending[1].report = device[sending[1].hid]
         /\ Tail(sending) # << >> =>
              /\ Len(sending) = 2 /\ Tail(sending)[1].hid = sending[1].hid
              /\ Tail(sending)[Len(Tail(sending))].report = device[sending[1].hid]
         /\ \A k \in DOMAIN Tail(sending) : Tail(sending)[k].hid = sending[1].hid
<1> DEFINE t == Tail(sending)
<1>1. /\ IsQueue(t) /\ Len(t) = Len(sending) - 1 /\ Head(sending) = sending[1]
      /\ Len(sending) \in Nat /\ DOMAIN sending = 1 .. Len(sending) /\ 1 \in DOMAIN sending
      /\ \A k \in 1 .. Len(t) : t[k] = sending[k + 1]
      /\ DOMAIN t = 1 .. Len(t)
  <2>1. t = Rest(sending)
    BY DEF Rest
  <2> HIDE DEF t
  <2>2. QED
    BY <2>1, RestFacts, QueueFacts DEF SendingInv
<1>2. t = << >> <=> Len(t) = 0
  BY <1>1, EmptyQueue
<1> HIDE DEF t
<1>3. Len(sending) \in {1, 2}
  <2>1. Len(sending) # 0
    BY EmptyQueue DEF SendingInv
  <2>2. QED
    BY <1>1, <2>1 DEF SendingInv
<1>4. \A k \in DOMAIN t : k + 1 \in DOMAIN sending /\ t[k] = sending[k + 1]
  BY <1>1
<1>5. t # << >> => Len(sending) = 2 /\ Len(t) = 1 /\ t[1] = sending[2] /\ 1 \in DOMAIN t
  BY <1>1, <1>2, <1>3
<1>6. \A k \in DOMAIN t : t[k].hid = sending[1].hid
  BY <1>4 DEF SendingInv
<1>7. QED
  BY <1>1, <1>2, <1>3, <1>5, <1>6 DEF SendingInv, t

LEMMA SendKeys ==
  ASSUME KeysInv, StoreInv, HidTables, sendData
  PROVE  KeysInv'
<1> DEFINE i == Head(sending).hid
           r == Head(sending).report
           after == updateCharacteristicValue(out, txOpen, i)
           p == [hid |-> i, report |-> r, told |-> Listens(i)]
           q == queued'
<1>1. /\ sending # << >> /\ out.credit > 0 /\ sending' = Tail(sending) /\ out' = after
      /\ q = IF DataPackets(after) > DataPackets(out) THEN Append(queued, p) ELSE queued
      /\ told' = IF Listens(i) THEN told \cup {i} ELSE told \ {i}
      /\ owed' = [owed EXCEPT ![i] = IF Listens(i) THEN owed[i] + 1 ELSE owed[i]]
      /\ UNCHANGED <<txOpen, chip, events, use, kinds, device, taken, seen, held>>
  BY DEF sendData, canNotify
<1>2. /\ DevicesInv /\ TypingShape /\ SendingInv /\ DriverInv /\ ComingInv /\ BalanceInv
      /\ RoomInv /\ ToldInv /\ CarriedInv /\ OwedInv /\ LatestInv
  BY DEF KeysInv
<1>3. /\ Len(sending') = Len(sending) - 1 /\ IsQueue(sending') /\ Len(sending) \in {1, 2}
      /\ i = sending[1].hid /\ r = sending[1].report /\ i \in Hids
      /\ sending' = << >> => Len(sending) = 1 /\ r = device[i]
      /\ sending' # << >> =>
           /\ Len(sending) = 2 /\ sending'[1].hid = i /\ sending'[Len(sending')].report = device[i]
      /\ \A k \in DOMAIN sending' : sending'[k].hid = i
  BY <1>1, <1>2, SendingShrinks
<1>4. Local[i].txAck = 0 /\ OutShape(out) /\ PacketQueue(queued) /\ PacketQueue(taken)
  BY <1>2, <1>3, HidPipes DEF StoreInv, BondingInv, TurnInv, TypingShape
<1>5. p.hid = i /\ p.report = r /\ p.told = Listens(i) /\ PacketShape(p)
  <2>1. Listens(i) \in BOOLEAN
    BY DEF Listens
  <2>2. QED
    BY <1>3, <2>1 DEF PacketShape
<1> HIDE DEF p
<1>6. /\ out'.broadcast = 0 /\ NoDisconnect(out'.tx)
      /\ Len(out'.tx) <= Len(out.tx) + 2 /\ out'.credit \in Nat /\ out'.credit <= out.credit
      /\ \/ /\ q = Append(queued, p) /\ out'.credit = out.credit - 1 /\ Pipe(i) \in txOpen
            /\ Carried(out'.tx, q)
         \/ /\ q = queued /\ Carried(out'.tx, q)
            /\ Len(out.tx) <= 2 => Pipe(i) \notin txOpen
  <2> HIDE DEF after, i
  <2>1. /\ OutShape(after) /\ after.broadcast = 0 /\ NoDisconnect(after.tx)
        /\ Len(after.tx) <= Len(out.tx) + 2
        /\ after.credit \in Nat /\ after.credit <= out.credit
        /\ \/ /\ DataPackets(after) > DataPackets(out)
              /\ after.credit = out.credit - 1 /\ Pipe(i) \in txOpen
              /\ Carried(after.tx, Append(queued, p))
           \/ /\ ~(DataPackets(after) > DataPackets(out)) /\ Carried(after.tx, queued)
              /\ Len(out.tx) <= 2 => Pipe(i) \notin txOpen
    BY <1>1, <1>2, <1>4, <1>5, SendFacts DEF after
  <2>2. QED
    BY <1>1, <2>1
<1> HIDE DEF i, r, after, q
<1>7. /\ Len(out'.tx) <= Len(out.tx) + 2 /\ out'.credit \in Nat /\ out'.credit <= out.credit
      /\ (q = Append(queued, p) /\ out'.credit = out.credit - 1) \/ q = queued
  BY <1>6
<1>8. /\ PacketQueue(q) /\ Len(queued) \in Nat
      /\ \A k \in DOMAIN q : q[k] = p \/ \E l \in DOMAIN queued : q[k] = queued[l]
      /\ q = Append(queued, p) => Len(q) = Len(queued) + 1
  <2>1. Len(queued) \in Nat
    BY <1>4, QueueFacts DEF PacketQueue
  <2>2. CASE q = queued
    <3>1. q # Append(queued, p)
      <4>1. Len(Append(queued, p)) = Len(queued) + 1
        BY <1>4, <1>5, QueueGrows
      <4>2. QED
        BY <2>1, <2>2, <4>1
    <3>2. QED
      BY <1>4, <2>1, <2>2, <3>1
  <2>3. CASE q = Append(queued, p)
    BY <1>4, <1>5, <2>1, <2>3, QueueGrows
  <2>4. QED
    BY <1>7, <2>2, <2>3
<1>9. Len(out.tx) \in Nat /\ Len(out'.tx) \in Nat
  <2>1. OutShape(out)
    BY DEF StoreInv, BondingInv, TurnInv
  <2>2. out' = updateCharacteristicValue(out, txOpen, Head(sending).hid)
    BY DEF sendData
  <2>3. OutShape(out')
    BY <2>1, <2>2, UpdateGrows DEF Grows
  <2>4. QED
    BY <2>1, <2>3, QueueFacts DEF OutShape
<1>10. chip.mode = "connected" => Len(out.tx) <= 2 /\ (Len(sending) = 2 => Len(out.tx) = 0)
  <2>1. << >> = out.tx => Len(out.tx) = 0
    OBVIOUS
  <2>2. QED
    BY <1>1, <1>2, <1>3, <2>1 DEF RoomInv
<1>11. Listens(i) => q = Append(queued, p) /\ OpenTo(i)
  BY <1>6, <1>10 DEF Listens, OpenTo
<1>12. Hids' = Hids
  BY <1>1 DEF Hids
<1>13. DevicesInv'
  BY <1>1, <1>2, <1>12 DEF DevicesInv
<1>14. TypingShape'
  <2>1. /\ kinds \in HidSets /\ use \in {"typing", "bonding"}
        /\ owed = [j \in Hids |-> owed[j]] /\ seen = [j \in Hids |-> seen[j]]
        /\ device = [j \in Hids |-> device[j]] /\ held = [j \in Hids |-> held[j]]
        /\ \A j \in Hids : owed[j] \in Int
        /\ use # "bonding"
    BY <1>1, <1>2 DEF TypingShape
  <2>2. owed' = [j \in Hids |-> owed'[j]] /\ \A j \in Hids : owed'[j] \in Int
    <3> DEFINE v == IF Listens(i) THEN owed[i] + 1 ELSE owed[i]
    <3>1. owed' = [owed EXCEPT ![i] = v] /\ v \in Int
      BY <1>1, <1>3, <2>1
    <3> HIDE DEF v
    <3>2. owed' = [j \in Hids |-> IF j = i THEN v ELSE owed[j]]
      BY <1>3, <2>1, <3>1
    <3>3. QED
      BY <2>1, <3>1, <3>2
  <2>3. PacketQueue(queued)' /\ PacketQueue(taken)'
    BY <1>1, <1>4, <1>8, <1>12 DEF PacketQueue, PacketShape, q
  <2>4. QED
    BY <1>1, <1>12, <2>1, <2>2, <2>3 DEF TypingShape
<1>15. SendingInv'
  <2>1. sending' # << >> => 1 \in DOMAIN sending'
    BY <1>3, EmptyQueue, QueueFacts
  <2>2. \A k \in DOMAIN sending' : sending'[k].hid = sending'[1].hid
    BY <1>3, <2>1
  <2>3. Len(sending') <= 2
    BY <1>3
  <2>4. QED
    BY <1>1, <1>3, <1>12, <2>2, <2>3 DEF SendingInv
<1>16. DriverInv'
  BY <1>1, <1>2, <1>6 DEF DriverInv, HidEvent
<1>17. ComingInv'
  <2>1. ~(sending = << >> \/ out.credit = 0)
    BY <1>1
  <2>2. QED
    BY <1>1, <1>2, <2>1 DEF ComingInv
<1>18. BalanceInv'
  <2>1. Live' <=> Live
    BY <1>1 DEF Live
  <2>2. Len(taken) \in Nat /\ Returned(events) \in Nat /\ Credits \in Nat /\ out.credit \in Nat
    BY <1>2, <1>4, QueueFacts, CountFacts, CreditsAssumption
       DEF PacketQueue, StoreInv, BondingInv, TurnInv, DriverInv
  <2>3. Live => out.credit + Len(queued) + Len(taken) + Returned(events) <= Credits
    BY <1>2 DEF BalanceInv
  <2>4. Live => out'.credit + Len(q) + Len(taken) + Returned(events) <= Credits
    <3>1. Len(queued) \in Nat /\ out'.credit \in Nat /\ out'.credit <= out.credit
      BY <1>7, <1>8
    <3>2. CASE q = queued
      <4>1. Len(q) = Len(queued)
        BY <3>2
      <4>2. QED
        BY <2>2, <2>3, <3>1, <4>1
    <3>3. CASE q = Append(queued, p) /\ out'.credit = out.credit - 1
      <4>1. Len(q) = Len(queued) + 1
        BY <1>8, <3>3
      <4>2. QED
        BY <2>2, <2>3, <3>1, <3>3, <4>1
    <3>4. QED
      BY <1>7, <3>2, <3>3
  <2>5. QED
    BY <1>1, <2>1, <2>4 DEF BalanceInv, q
<1>19. RoomInv'
  <2>1. ASSUME chip.mode = "connected", Len(sending') = 1 PROVE Len(out'.tx) <= 2
    <3>1. Len(sending) = 2
      BY <1>3, <2>1
    <3>2. Len(out.tx) = 0
      BY <1>10, <2>1, <3>1
    <3>3. Len(out'.tx) <= Len(out.tx) + 2
      BY <1>7
    <3>4. QED
      BY <1>9, <3>2, <3>3
  <2>2. Len(sending') # 2
    BY <1>3
  <2>3. QED
    BY <1>1, <2>1, <2>2 DEF RoomInv
<1>20. ToldInv'
  <2>1. \A j : OpenTo(j)' <=> OpenTo(j)
    BY <1>1 DEF OpenTo
  <2>2. told' \subseteq Hids /\ \A j \in told' : OpenTo(j)
    BY <1>1, <1>2, <1>3, <1>11 DEF ToldInv
  <2>3. \A k \in DOMAIN q : q[k].told => OpenTo(q[k].hid)
    BY <1>2, <1>5, <1>8, <1>11 DEF ToldInv
  <2>4. QED
    BY <1>12, <2>1, <2>2, <2>3 DEF ToldInv, q
<1>21. CarriedInv'
  BY <1>6 DEF CarriedInv, q
<1>22. OwedInv'
  <2> SUFFICES ASSUME NEW j \in Hids PROVE owed'[j] = Owing(q, j) + Owing(taken, j)
    BY <1>1, <1>12 DEF OwedInv, q
  <2>1. owed[j] = Owing(queued, j) + Owing(taken, j)
    BY <1>2 DEF OwedInv
  <2>2. Owing(queued, j) \in Nat /\ Owing(taken, j) \in Nat
    BY <1>4, OwingFacts DEF PacketQueue
  <2>3. Owing(Append(queued, p), j) =
          IF Owes(p, j) THEN Owing(queued, j) + 1 ELSE Owing(queued, j)
    BY <1>4, OwingFacts DEF PacketQueue
  <2>4. Owes(p, j) <=> j = i /\ Listens(i)
    BY <1>5 DEF Owes
  <2>5. owed'[j] = IF j = i /\ Listens(i) THEN owed[j] + 1 ELSE owed[j]
    BY <1>1, <1>2 DEF TypingShape
  <2>6. Owing(q, j) = IF j = i /\ Listens(i) THEN Owing(queued, j) + 1 ELSE Owing(queued, j)
    BY <1>11, <1>7, <2>3, <2>4
  <2>7. QED
    BY <2>1, <2>2, <2>5, <2>6
<1>23. LatestInv'
  <2> SUFFICES ASSUME NEW j \in told', sending' = << >> \/ sending'[1].hid # j
               PROVE  LatestIn(q, taken, seen[j], device[j], j)
    BY <1>1 DEF LatestInv, q
  <2>1. CASE j = i
    <3>1. Listens(i) /\ sending' = << >>
      BY <1>1, <1>3, <2>1
    <3>2. p.hid = j /\ p.told /\ p.report = device[j]
      BY <1>3, <1>5, <2>1, <3>1
    <3>3. q = Append(queued, p) /\ IsQueue(queued)
      BY <1>4, <1>11, <3>1 DEF PacketQueue
    <3>4. QED
      BY <3>2, <3>3, LatestSent
  <2>2. CASE j # i
    <3>1. j \in told /\ sending[1].hid # j
      BY <1>1, <1>3, <2>2
    <3>2. LatestIn(queued, taken, seen[j], device[j], j)
      BY <1>2, <3>1 DEF LatestInv
    <3>3. p.hid # j /\ IsQueue(queued)
      BY <1>4, <1>5, <2>2 DEF PacketQueue
    <3>4. QED
      BY <1>6, <3>2, <3>3, LatestSent
  <2>3. QED
    BY <2>1, <2>2
<1>24. QED
  BY <1>13, <1>14, <1>15, <1>16, <1>17, <1>18, <1>19, <1>20, <1>21, <1>22, <1>23 DEF KeysInv

LEMMA SketchKeys ==
  ASSUME KeysInv, StoreInv, KeysOK, Patient, Sketch
  PROVE  KeysInv'
<1>1. /\ DevicesInv /\ TypingShape /\ SendingInv /\ DriverInv /\ ComingInv /\ BalanceInv
      /\ RoomInv /\ ToldInv /\ CarriedInv /\ OwedInv /\ LatestInv
  BY DEF KeysInv
<1>2. PICK i \in Hids : \E reports, holding : Calls(i, reports, holding) /\ Right(i, reports, holding)
  BY <1>1, SketchCalls
<1>3. PICK reports, holding : Calls(i, reports, holding) /\ Right(i, reports, holding)
  BY <1>2
<1>4. /\ use = "typing" /\ central /\ sending = << >> /\ out.tx = << >>
      /\ sending' = [k \in DOMAIN reports |-> [hid |-> i, report |-> reports[k]]]
      /\ device' = IF reports = << >> THEN device ELSE [device EXCEPT ![i] = Last(reports)]
      /\ held' = [held EXCEPT ![i] = holding]
      /\ UNCHANGED <<vars, use, kinds, queued, taken, told, seen, owed>>
  BY <1>3 DEF Calls
<1>5. UNCHANGED <<out, txOpen, central, chip, events>> /\ Hids' = Hids
  BY <1>4 DEF vars, sketch, Hids
<1>6. /\ device = [j \in Hids |-> device[j]] /\ held = [j \in Hids |-> held[j]]
  BY <1>1 DEF TypingShape
<1>7. /\ held' = [j \in Hids |-> IF j = i THEN holding ELSE held[j]]
      /\ device' = [j \in Hids |-> IF j = i THEN After(i, reports) ELSE device[j]]
  <2>1. held' = [j \in Hids |-> IF j = i THEN holding ELSE held[j]]
    BY <1>4, <1>6
  <2>2. CASE reports = << >>
    BY <1>4, <1>6, <2>2 DEF After
  <2>3. CASE reports # << >>
    <3> DEFINE l == Last(reports)
    <3>1. device' = [device EXCEPT ![i] = l] /\ After(i, reports) = l
      BY <1>4, <2>3 DEF After
    <3> HIDE DEF l
    <3>2. QED
      BY <1>6, <2>1, <3>1
  <2>4. QED
    BY <2>1, <2>2, <2>3
<1>8. /\ IsQueue(reports) /\ Len(reports) \in Nat /\ Len(reports) <= 2
      /\ DOMAIN reports = 1 .. Len(reports)
      /\ DeviceOK(kinds[i], After(i, reports), holding)
  BY <1>3, QueueFacts DEF Right
<1>9. /\ IsQueue(sending') /\ Len(sending') = Len(reports) /\ DOMAIN sending' = 1 .. Len(reports)
      /\ \A k \in 1 .. Len(reports) : sending'[k].hid = i /\ sending'[k].report = reports[k]
      /\ sending' = << >> => reports = << >>
  <2> DEFINE S == {[hid |-> i, report |-> reports[k]] : k \in 1 .. Len(reports)}
  <2>1. sending' = [k \in 1 .. Len(reports) |-> [hid |-> i, report |-> reports[k]]]
    BY <1>4, <1>8
  <2>2. sending' \in [1 .. Len(reports) -> S]
    BY <2>1
  <2> HIDE DEF S
  <2>3. sending' \in Seq(S)
    BY <1>8, <2>2, SeqDef
  <2>4. Len(sending') = Len(reports)
    BY <1>8, <2>1, <2>3, LenProperties
  <2>5. IsQueue(sending')
    BY <2>3 DEF IsQueue
  <2>6. sending' = << >> => reports = << >>
    BY <1>8, <2>4, <2>5, EmptyQueue
  <2>7. \A k \in 1 .. Len(reports) : sending'[k].hid = i /\ sending'[k].report = reports[k]
    BY <2>1
  <2>8. QED
    BY <1>8, <2>1, <2>4, <2>5, <2>6, <2>7
<1>10. DevicesInv'
  <2>1. \A j \in Hids : DeviceOK(kinds[j], device'[j], held'[j])
    BY <1>1, <1>7, <1>8 DEF DevicesInv
  <2>2. QED
    BY <1>4, <1>5, <2>1 DEF DevicesInv
<1>11. TypingShape'
  <2>1. held' = [j \in Hids |-> held'[j]]
    BY <1>7
  <2>2. device' = [j \in Hids |-> device'[j]]
    BY <1>7
  <2>3. PacketQueue(queued)' /\ PacketQueue(taken)'
    BY <1>1, <1>4, <1>5 DEF TypingShape, PacketQueue, PacketShape
  <2>4. QED
    BY <1>1, <1>4, <1>5, <2>1, <2>2, <2>3 DEF TypingShape
<1>12. sending' # << >> => /\ sending'[1].hid = i /\ reports # << >>
                           /\ sending'[Len(sending')].report = device'[i]
  <2> SUFFICES ASSUME sending' # << >>
               PROVE  /\ sending'[1].hid = i /\ reports # << >>
                      /\ sending'[Len(sending')].report = device'[i]
    OBVIOUS
  <2>1. Len(reports) # 0
    BY <1>9, EmptyQueue
  <2>2. reports # << >>
    BY <1>8, <2>1, EmptyQueue
  <2>3. 1 \in 1 .. Len(reports) /\ Len(reports) \in 1 .. Len(reports)
    BY <1>8, <2>1
  <2>4. sending'[Len(sending')].report = Last(reports)
    BY <1>9, <2>3 DEF Last
  <2>5. device'[i] = Last(reports)
    BY <1>7, <2>2 DEF After
  <2>6. QED
    BY <1>9, <2>2, <2>3, <2>4, <2>5
<1>13. SendingInv'
  <2>1. \A k \in DOMAIN sending' : sending'[k].hid = sending'[1].hid
    BY <1>8, <1>9
  <2>2. QED
    BY <1>5, <1>8, <1>9, <1>12, <2>1 DEF SendingInv
<1>14. DriverInv' /\ CarriedInv' /\ OwedInv' /\ BalanceInv' /\ ToldInv'
  BY <1>1, <1>4, <1>5 DEF DriverInv, HidEvent, CarriedInv, OwedInv, BalanceInv, ToldInv, OpenTo, Live
<1>15. ComingInv'
  <2>1. \A k \in DOMAIN events : ~IsConnected(events[k])
    BY <1>4 DEF StoreInv, BondingInv, TurnInv, LinkOrder
  <2>2. QED
    BY <1>5, <2>1 DEF ComingInv
<1>16. RoomInv'
  <2>1. Len(out.tx) = 0
    BY <1>4
  <2>2. QED
    BY <1>4, <1>5, <2>1 DEF RoomInv
<1>17. LatestInv'
  <2> SUFFICES ASSUME NEW j \in told, sending' = << >> \/ sending'[1].hid # j
               PROVE  LatestIn(queued, taken, seen[j], device'[j], j)
    BY <1>4 DEF LatestInv
  <2>1. LatestIn(queued, taken, seen[j], device[j], j)
    BY <1>1, <1>4 DEF LatestInv
  <2>2. j \in Hids
    BY <1>1 DEF ToldInv
  <2>3. device'[j] = device[j]
    <3>1. CASE sending' = << >>
      BY <1>4, <1>9, <3>1
    <3>2. CASE sending' # << >>
      BY <1>7, <1>12, <2>2, <3>2
    <3>3. QED
      BY <3>1, <3>2
  <2>4. QED
    BY <2>1, <2>3
<1>18. QED
  BY <1>10, <1>11, <1>13, <1>14, <1>15, <1>16, <1>17 DEF KeysInv

------------------------------------------------------------------------------
(* An event comes.                                                         *)
LEMMA KeysEmitted ==
  ASSUME NEW e, HidEvent(e), IsQueue(events), DriverInv, Emits(e)
  PROVE  /\ UNCHANGED <<out, txOpen, central>>
         /\ \A k \in DOMAIN events' : HidEvent(events'[k])
         /\ ~IsConnected(e) =>
              /\ (\A k \in DOMAIN events' : ~IsConnected(events'[k]))
                   <=> (\A k \in DOMAIN events : ~IsConnected(events[k]))
              /\ \A k \in DOMAIN events' :
                   IsConnected(events'[k]) => k \in DOMAIN events /\ IsConnected(events[k])
         /\ \A k \in DOMAIN events' : Returns(events'[k]) =>
              Returns(e) \/ (k \in DOMAIN events /\ Returns(events[k]))
         /\ Returned(events') = IF Returns(e) THEN Returned(events) + 1 ELSE Returned(events)
         /\ Returned(events) \in Nat
         /\ events = << >> => \A k \in DOMAIN events' : k = 1 /\ events'[k] = e
         /\ IsConnected(e) => \E k \in DOMAIN events' : IsConnected(events'[k])
<1> DEFINE a == Append(events, e)
<1>1. events' = a /\ UNCHANGED <<out, txOpen, central>>
  BY DEF Emits, sketch
<1>2. /\ Len(events) + 1 \in DOMAIN a /\ a[Len(events) + 1] = e
      /\ \A k \in DOMAIN a :
           (k = Len(events) + 1 /\ a[k] = e) \/ (k \in DOMAIN events /\ a[k] = events[k])
      /\ \A k \in DOMAIN events : k \in DOMAIN a /\ a[k] = events[k]
  BY AppendElements
<1>3. /\ Returned(a) = IF Returns(e) THEN Returned(events) + 1 ELSE Returned(events)
      /\ Returned(events) \in Nat
  BY CountFacts
<1>4. events = << >> => Len(events) = 0 /\ DOMAIN events = {}
  BY QueueFacts
<1> HIDE DEF a
<1>5. \A k \in DOMAIN a : HidEvent(a[k])
  BY <1>2 DEF DriverInv
<1>6. events = << >> => \A k \in DOMAIN a : k = 1 /\ a[k] = e
  BY <1>2, <1>4
<1>7. ASSUME ~IsConnected(e)
      PROVE  /\ (\A k \in DOMAIN a : ~IsConnected(a[k]))
                  <=> (\A k \in DOMAIN events : ~IsConnected(events[k]))
             /\ \A k \in DOMAIN a : IsConnected(a[k]) => k \in DOMAIN events /\ IsConnected(events[k])
  BY <1>2, <1>7
<1>8. \A k \in DOMAIN a : Returns(a[k]) => Returns(e) \/ (k \in DOMAIN events /\ Returns(events[k]))
  BY <1>2
<1>9. IsConnected(e) => \E k \in DOMAIN a : IsConnected(a[k])
  BY <1>2
<1>10. QED
  BY <1>1, <1>3, <1>5, <1>6, <1>7, <1>8, <1>9

LEMMA ReceivesKeys ==
  ASSUME KeysInv, StoreInv, HostReceives
  PROVE  KeysInv'
<1> DEFINE e == [type |-> "DataCredit", credit |-> 1]
           p == taken[1]
<1>1. /\ DevicesInv /\ TypingShape /\ SendingInv /\ DriverInv /\ ComingInv /\ BalanceInv
      /\ RoomInv /\ ToldInv /\ CarriedInv /\ OwedInv /\ LatestInv
  BY DEF KeysInv
<1>2. IsQueue(events) /\ ChipShape(chip) /\ PacketQueue(queued) /\ PacketQueue(taken)
  BY <1>1 DEF StoreInv, BondingInv, TurnInv, TypingShape
<1>3. /\ chip.mode = "connected" /\ chip.inFlight > 0
      /\ chip' = [chip EXCEPT !.inFlight = chip.inFlight - 1] /\ Emits(e)
      /\ taken' = Tail(taken)
      /\ seen' = [seen EXCEPT ![Head(taken).hid] = Head(taken).report]
      /\ owed' = [owed EXCEPT ![Head(taken).hid] = IF Head(taken).told
                    THEN owed[Head(taken).hid] - 1 ELSE owed[Head(taken).hid]]
      /\ UNCHANGED <<use, kinds, device, sending, queued, told, held>>
  BY DEF HostReceives, PeerTakesData
<1>4. HidEvent(e) /\ ~IsConnected(e) /\ Returns(e)
  BY DEF HidEvent, IsConnected, Returns
<1> HIDE DEF e
<1>5. /\ UNCHANGED <<out, txOpen, central>>
      /\ \A k \in DOMAIN events' : HidEvent(events'[k])
      /\ (\A k \in DOMAIN events' : ~IsConnected(events'[k]))
           <=> (\A k \in DOMAIN events : ~IsConnected(events[k]))
      /\ \A k \in DOMAIN events' :
           IsConnected(events'[k]) => k \in DOMAIN events /\ IsConnected(events[k])
      /\ Returned(events') = Returned(events) + 1 /\ Returned(events) \in Nat
  BY <1>1, <1>2, <1>3, <1>4, KeysEmitted
<1>6. taken # << >>
  BY <1>1, <1>2, <1>3, EmptyQueue DEF DriverInv, PacketQueue
<1>7. /\ PacketQueue(taken') /\ Len(taken') = Len(taken) - 1 /\ Len(taken) \in Nat
      /\ Head(taken) = p /\ taken' = Rest(taken) /\ PacketShape(p) /\ p.hid \in Hids
  BY <1>2, <1>3, <1>6, QueueShrinks DEF PacketShape
<1>8. /\ chip'.mode = chip.mode /\ chip'.open = chip.open /\ chip'.inFlight = chip.inFlight - 1
  BY <1>2, <1>3 DEF ChipShape
<1>9. Hids' = Hids
  BY <1>3 DEF Hids
<1> DEFINE i == p.hid
           v == IF p.told THEN owed[i] - 1 ELSE owed[i]
<1>10. /\ seen' = [j \in Hids |-> IF j = i THEN p.report ELSE seen[j]]
       /\ owed' = [j \in Hids |-> IF j = i THEN v ELSE owed[j]]
       /\ owed[i] \in Int
  <2>1. seen = [j \in Hids |-> seen[j]] /\ owed = [j \in Hids |-> owed[j]] /\ owed[i] \in Int
    BY <1>1, <1>7 DEF TypingShape
  <2>2. seen' = [seen EXCEPT ![i] = p.report] /\ owed' = [owed EXCEPT ![i] = v]
    BY <1>3, <1>7
  <2> HIDE DEF i, v, p
  <2>3. QED
    BY <2>1, <2>2
<1>11. DevicesInv' /\ SendingInv' /\ CarriedInv' /\ RoomInv'
  BY <1>1, <1>3, <1>5, <1>8, <1>9 DEF DevicesInv, SendingInv, CarriedInv, RoomInv
<1>12. DriverInv'
  BY <1>1, <1>3, <1>5, <1>7, <1>8 DEF DriverInv
<1>13. TypingShape'
  <2>1. owed' = [j \in Hids |-> owed'[j]] /\ seen' = [j \in Hids |-> seen'[j]]
        /\ \A j \in Hids : owed'[j] \in Int
    <3>1. v \in Int
      BY <1>10
    <3> HIDE DEF v, i
    <3>2. QED
      BY <1>1, <1>10, <3>1 DEF TypingShape
  <2>2. PacketQueue(queued)' /\ PacketQueue(taken)'
    BY <1>2, <1>3, <1>7, <1>9 DEF PacketQueue, PacketShape
  <2>3. use # "bonding"
    BY <1>1, <1>6 DEF TypingShape
  <2>4. QED
    BY <1>1, <1>3, <1>9, <2>1, <2>2, <2>3 DEF TypingShape
<1>14. ComingInv'
  <2>1. use = "typing"
    BY <1>1, <1>6 DEF TypingShape
  <2>2. \A k \in DOMAIN events : ~IsConnected(events[k])
    BY <1>1, <1>6, <2>1 DEF ComingInv
  <2>3. \A k \in DOMAIN events' : ~IsConnected(events'[k])
    BY <1>5, <2>2
  <2>4. QED
    BY <2>3 DEF ComingInv
<1>15. BalanceInv'
  <2>1. Live' <=> Live
    BY <1>3, <1>5, <1>8 DEF Live
  <2>2. /\ Len(queued) \in Nat /\ Returned(events) \in Nat /\ Credits \in Nat /\ out.credit \in Nat
    BY <1>1, <1>2, <1>5, QueueFacts, CreditsAssumption DEF PacketQueue, DriverInv
  <2>3. Live => out.credit + Len(queued) + Len(taken) + Returned(events) <= Credits
    BY <1>1 DEF BalanceInv
  <2>4. Live => out.credit + Len(queued) + Len(taken') + Returned(events') <= Credits
    BY <1>5, <1>7, <2>2, <2>3
  <2>5. QED
    BY <1>3, <1>5, <2>1, <2>4 DEF BalanceInv
<1>16. ToldInv'
  <2>1. \A j : OpenTo(j)' <=> OpenTo(j)
    BY <1>8 DEF OpenTo
  <2>2. QED
    BY <1>1, <1>3, <1>9, <2>1 DEF ToldInv
<1>17. OwedInv'
  <2> SUFFICES ASSUME NEW j \in Hids PROVE owed'[j] = Owing(queued, j) + Owing(taken', j)
    BY <1>3, <1>9 DEF OwedInv
  <2>1. owed[j] = Owing(queued, j) + Owing(taken, j)
    BY <1>1 DEF OwedInv
  <2>2. Owing(queued, j) \in Nat /\ Owing(taken, j) \in Nat
    BY <1>2, OwingFacts DEF PacketQueue
  <2>3. Owing(taken', j) = IF Owes(p, j) THEN Owing(taken, j) - 1 ELSE Owing(taken, j)
    BY <1>2, <1>6, <1>7, OwingFacts DEF PacketQueue
  <2>4. Owes(p, j) <=> j = i /\ p.told
    BY DEF Owes
  <2>5. owed'[j] = IF j = i /\ p.told THEN owed[j] - 1 ELSE owed[j]
    BY <1>10
  <2>6. QED
    BY <2>1, <2>2, <2>3, <2>4, <2>5
<1>18. LatestInv'
  <2> SUFFICES ASSUME NEW j \in told, sending = << >> \/ sending[1].hid # j
               PROVE  LatestIn(queued, taken', seen'[j], device[j], j)
    BY <1>3 DEF LatestInv
  <2>1. LatestIn(queued, taken, seen[j], device[j], j) /\ j \in Hids
    BY <1>1 DEF LatestInv, ToldInv
  <2>2. seen'[j] = IF p.hid = j THEN p.report ELSE seen[j]
    BY <1>10, <2>1
  <2>3. IsQueue(taken)
    BY <1>2 DEF PacketQueue
  <2>4. QED
    BY <1>6, <1>7, <2>1, <2>2, <2>3, LatestReceived
<1>19. QED
  BY <1>11, <1>12, <1>13, <1>14, <1>15, <1>16, <1>17, <1>18 DEF KeysInv

LEMMA SetsPipesKeys ==
  ASSUME KeysInv, StoreInv, HostSetsPipes
  PROVE  KeysInv'
<1> DEFINE lost == {i \in Hids : Pipe(i) \notin chip'.open}
<1>1. /\ DevicesInv /\ TypingShape /\ SendingInv /\ DriverInv /\ ComingInv /\ BalanceInv
      /\ RoomInv /\ ToldInv /\ CarriedInv /\ OwedInv /\ LatestInv
  BY DEF KeysInv
<1>2. IsQueue(events) /\ ChipShape(chip) /\ PacketQueue(queued) /\ PacketQueue(taken)
  BY <1>1 DEF StoreInv, BondingInv, TurnInv, TypingShape
<1>3. /\ use = "typing" /\ chip.mode = "connected"
      /\ told' = told \ lost /\ owed' = [i \in Hids |-> IF i \in lost THEN 0 ELSE owed[i]]
      /\ queued' = Forgotten(lost, queued) /\ taken' = Forgotten(lost, taken)
      /\ UNCHANGED <<use, kinds, device, sending, seen, held>>
  BY DEF HostSetsPipes, PeerSetsPipes, Unheard
<1>4. PICK pipes, closed :
        /\ chip' = [chip EXCEPT !.open = pipes]
        /\ Emits([type |-> "PipeStatus", open |-> pipes, closed |-> closed])
  BY DEF HostSetsPipes, PeerSetsPipes
<1> DEFINE e == [type |-> "PipeStatus", open |-> pipes, closed |-> closed]
<1>5. HidEvent(e) /\ ~IsConnected(e) /\ ~Returns(e)
  BY DEF HidEvent, IsConnected, Returns
<1> HIDE DEF e
<1>6. Emits(e)
  BY <1>4 DEF e
<1>7. /\ UNCHANGED <<out, txOpen, central>>
      /\ \A k \in DOMAIN events' : HidEvent(events'[k])
      /\ (\A k \in DOMAIN events' : ~IsConnected(events'[k]))
           <=> (\A k \in DOMAIN events : ~IsConnected(events[k]))
      /\ \A k \in DOMAIN events' :
           IsConnected(events'[k]) => k \in DOMAIN events /\ IsConnected(events[k])
      /\ \A k \in DOMAIN events' : Returns(events'[k]) => k \in DOMAIN events /\ Returns(events[k])
      /\ Returned(events') = Returned(events)
  BY <1>1, <1>2, <1>5, <1>6, KeysEmitted
<1>8. chip'.mode = chip.mode /\ chip'.open = pipes /\ chip'.inFlight = chip.inFlight
  BY <1>2, <1>4 DEF ChipShape
<1>9. Hids' = Hids
  BY <1>3 DEF Hids
<1> HIDE DEF lost
<1>10. /\ PacketQueue(queued') /\ Len(queued') = Len(queued) /\ DOMAIN queued' = DOMAIN queued
       /\ \A k \in DOMAIN queued :
            /\ queued'[k].hid = queued[k].hid
            /\ queued'[k].told <=> queued[k].told /\ queued[k].hid \notin lost
       /\ PacketQueue(taken') /\ Len(taken') = Len(taken)
  BY <1>2, <1>3, ForgottenFacts
<1>11. DevicesInv' /\ SendingInv' /\ RoomInv'
  BY <1>1, <1>3, <1>7, <1>8, <1>9 DEF DevicesInv, SendingInv, RoomInv
<1>12. DriverInv'
  BY <1>1, <1>3, <1>7, <1>8, <1>10 DEF DriverInv
<1>13. CarriedInv'
  BY <1>1, <1>2, <1>3, <1>7, CarriedForgotten DEF CarriedInv
<1>14. TypingShape'
  <2>1. owed' = [i \in Hids |-> owed'[i]] /\ \A i \in Hids : owed'[i] \in Int
    BY <1>1, <1>3 DEF TypingShape
  <2>2. PacketQueue(queued)' /\ PacketQueue(taken)'
    BY <1>9, <1>10 DEF PacketQueue, PacketShape
  <2>3. QED
    BY <1>1, <1>3, <1>9, <2>1, <2>2 DEF TypingShape
<1>15. ComingInv'
  <2> SUFFICES ASSUME NEW k \in DOMAIN events', IsConnected(events'[k])
               PROVE  /\ k = 1 /\ out.tx = << >> /\ taken' = << >>
                      /\ sending = << >> \/ out.credit = 0
                      /\ \A l \in DOMAIN events' : ~Returns(events'[l])
    BY <1>3, <1>7 DEF ComingInv
  <2>1. /\ k = 1 /\ out.tx = << >> /\ taken = << >>
        /\ sending = << >> \/ out.credit = 0
        /\ \A l \in DOMAIN events : ~Returns(events[l])
    BY <1>1, <1>3, <1>7 DEF ComingInv
  <2>2. taken' = << >>
    BY <1>2, <1>10, <2>1, EmptyQueue DEF PacketQueue
  <2>3. QED
    BY <1>7, <2>1, <2>2
<1>16. BalanceInv'
  BY <1>1, <1>3, <1>7, <1>8, <1>10 DEF BalanceInv, Live
<1>17. ToldInv'
  <2>1. \A i \in Hids : i \notin lost => chip'.mode = "connected" /\ Pipe(i) \in chip'.open
    BY <1>3, <1>8 DEF lost
  <2>2. \A i \in told' : i \in Hids /\ i \notin lost
    BY <1>1, <1>3 DEF ToldInv
  <2>3. \A k \in DOMAIN queued' : queued'[k].told =>
          chip'.mode = "connected" /\ Pipe(queued'[k].hid) \in chip'.open
    <3>1. \A k \in DOMAIN queued : queued[k].hid \in Hids
      BY <1>2 DEF PacketQueue, PacketShape
    <3>2. QED
      BY <1>10, <2>1, <3>1
  <2>4. QED
    BY <1>9, <2>1, <2>2, <2>3 DEF ToldInv, OpenTo
<1>18. OwedInv'
  <2> SUFFICES ASSUME NEW j \in Hids PROVE owed'[j] = Owing(queued', j) + Owing(taken', j)
    BY <1>9 DEF OwedInv
  <2>1. owed[j] = Owing(queued, j) + Owing(taken, j)
    BY <1>1 DEF OwedInv
  <2>2. /\ j \in lost => Owing(queued', j) = 0 /\ Owing(taken', j) = 0
        /\ j \notin lost => Owing(queued', j) = Owing(queued, j) /\ Owing(taken', j) = Owing(taken, j)
    BY <1>2, <1>3, ForgottenKeeps
  <2>3. QED
    BY <1>3, <2>1, <2>2
<1>19. LatestInv'
  <2> SUFFICES ASSUME NEW j \in told', sending = << >> \/ sending[1].hid # j
               PROVE  LatestIn(queued', taken', seen[j], device[j], j)
    BY <1>3 DEF LatestInv
  <2>1. LatestIn(queued, taken, seen[j], device[j], j) /\ j \notin lost
    BY <1>1, <1>3 DEF LatestInv
  <2>2. QED
    BY <1>2, <1>3, <2>1, LatestForgotten
<1>20. QED
  BY <1>11, <1>12, <1>13, <1>14, <1>15, <1>16, <1>17, <1>18, <1>19 DEF KeysInv

LEMMA NoneOwing ==
  /\ PacketQueue(<< >>) /\ Len(<< >>) = 0
  /\ \A i : Owing(<< >>, i) = 0
<1>1. IsQueue(<< >>) /\ Len(<< >>) = 0
  BY Reports
<1>2. DOMAIN << >> = {}
  BY <1>1, QueueFacts
<1>3. QED
  BY <1>1, <1>2, OwingFacts DEF PacketQueue

LEMMA LeavesKeys ==
  ASSUME KeysInv, StoreInv, HostLeaves
  PROVE  KeysInv'
<1> DEFINE e == [type |-> "Disconnected"]
<1>1. /\ DevicesInv /\ TypingShape /\ SendingInv /\ DriverInv /\ ComingInv /\ BalanceInv
      /\ RoomInv /\ ToldInv /\ CarriedInv /\ OwedInv /\ LatestInv
  BY DEF KeysInv
<1>2. IsQueue(events) /\ ChipShape(chip) /\ PacketQueue(queued) /\ PacketQueue(taken)
  BY <1>1 DEF StoreInv, BondingInv, TurnInv, TypingShape
<1>3. /\ chip' = Unlinked(chip) /\ Emits(e)
      /\ told' = told \ Hids /\ owed' = [i \in Hids |-> IF i \in Hids THEN 0 ELSE owed[i]]
      /\ queued' = Forgotten(Hids, queued) /\ taken' = << >>
      /\ seen' = [i \in Hids |-> Blank(kinds[i])]
      /\ UNCHANGED <<use, kinds, device, sending, held>>
  BY DEF HostLeaves, LinkEnds, Unheard
<1>4. HidEvent(e) /\ ~IsConnected(e) /\ ~Returns(e)
  BY DEF HidEvent, IsConnected, Returns
<1> HIDE DEF e
<1>5. /\ UNCHANGED <<out, txOpen, central>>
      /\ \A k \in DOMAIN events' : HidEvent(events'[k])
      /\ \A k \in DOMAIN events' :
           IsConnected(events'[k]) => k \in DOMAIN events /\ IsConnected(events[k])
      /\ \A k \in DOMAIN events' : Returns(events'[k]) => k \in DOMAIN events /\ Returns(events[k])
  BY <1>1, <1>2, <1>3, <1>4, KeysEmitted
<1>6. chip'.mode = "standby" /\ chip'.inFlight = 0
  BY <1>2, <1>3 DEF ChipShape, Unlinked
<1>7. Hids' = Hids
  BY <1>3 DEF Hids
<1>8. /\ PacketQueue(queued') /\ Len(queued') = Len(queued) /\ DOMAIN queued' = DOMAIN queued
      /\ \A k \in DOMAIN queued :
           queued'[k].told <=> queued[k].told /\ queued[k].hid \notin Hids
      /\ \A i \in Hids : Owing(queued', i) = 0
  BY <1>2, <1>3, ForgottenFacts, ForgottenKeeps
<1>9. told' = {}
  BY <1>1, <1>3 DEF ToldInv
<1>10. DevicesInv' /\ SendingInv' /\ RoomInv' /\ BalanceInv' /\ LatestInv'
  BY <1>1, <1>3, <1>6, <1>7, <1>9 DEF DevicesInv, SendingInv, RoomInv, BalanceInv, Live, LatestInv
<1>11. DriverInv'
  <2>1. Len(<< >>) = 0
    BY NoneOwing
  <2>2. QED
    BY <1>1, <1>3, <1>5, <1>6, <2>1 DEF DriverInv
<1>12. CarriedInv'
  BY <1>1, <1>2, <1>3, <1>5, CarriedForgotten DEF CarriedInv
<1>13. TypingShape'
  <2>1. /\ owed' = [i \in Hids |-> owed'[i]] /\ \A i \in Hids : owed'[i] \in Int
        /\ seen' = [i \in Hids |-> seen'[i]]
    BY <1>3
  <2>2. PacketQueue(queued)' /\ PacketQueue(taken)'
    BY <1>3, <1>7, <1>8, NoneOwing DEF PacketQueue, PacketShape
  <2>3. queued = << >> => queued' = << >>
    BY <1>2, <1>8, EmptyQueue DEF PacketQueue
  <2>4. QED
    BY <1>1, <1>3, <1>7, <1>9, <2>1, <2>2, <2>3 DEF TypingShape
<1>14. ComingInv'
  BY <1>1, <1>3, <1>5 DEF ComingInv
<1>15. ToldInv'
  <2>1. \A k \in DOMAIN queued : queued[k].hid \in Hids
    BY <1>2 DEF PacketQueue, PacketShape
  <2>2. \A k \in DOMAIN queued' : ~queued'[k].told
    BY <1>8, <2>1
  <2>3. QED
    BY <1>9, <2>2 DEF ToldInv
<1>16. OwedInv'
  <2>1. \A j \in Hids : owed'[j] = Owing(queued', j) + Owing(taken', j)
    BY <1>3, <1>8, NoneOwing
  <2>2. QED
    BY <1>7, <2>1 DEF OwedInv
<1>17. QED
  BY <1>10, <1>11, <1>12, <1>13, <1>14, <1>15, <1>16 DEF KeysInv

LEMMA ConnectsKeys ==
  ASSUME KeysInv, StoreInv, HostConnects
  PROVE  KeysInv'
<1> DEFINE e == [type |-> "Connected"]
<1>1. /\ DevicesInv /\ TypingShape /\ SendingInv /\ DriverInv /\ ComingInv /\ BalanceInv
      /\ RoomInv /\ ToldInv /\ CarriedInv /\ OwedInv /\ LatestInv
  BY DEF KeysInv
<1>2. IsQueue(events) /\ ChipShape(chip)
  BY DEF StoreInv, BondingInv, TurnInv
<1>3. /\ chip.mode # "connected" /\ Emits(e)
      /\ chip' = [chip EXCEPT !.mode = "connected", !.timings = 0]
      /\ use = "typing" =>
           out.tx = << >> /\ events = << >> /\ (sending = << >> \/ ~(out.credit > 0))
      /\ UNCHANGED <<use, kinds, typing>>
  BY DEF HostConnects, PeerConnects, Connectable, Settled, canNotify
<1>4. HidEvent(e) /\ IsConnected(e) /\ ~Returns(e)
  BY DEF HidEvent, IsConnected, Returns
<1> HIDE DEF e
<1>5. /\ UNCHANGED <<out, txOpen, central>>
      /\ \A k \in DOMAIN events' : HidEvent(events'[k])
      /\ events = << >> => \A k \in DOMAIN events' : k = 1 /\ events'[k] = e
      /\ \E k \in DOMAIN events' : IsConnected(events'[k])
  BY <1>1, <1>2, <1>3, <1>4, KeysEmitted
<1>6. chip'.mode = "connected" /\ chip'.inFlight = chip.inFlight
  BY <1>2, <1>3 DEF ChipShape
<1>7. Hids' = Hids /\ UNCHANGED <<device, sending, queued, taken, told, seen, owed, held>>
  BY <1>3 DEF Hids, typing
<1>8. told = {} /\ taken = << >> /\ \A k \in DOMAIN queued : ~queued[k].told
  BY <1>1, <1>3 DEF ToldInv, OpenTo, DriverInv
<1>9. DevicesInv' /\ SendingInv' /\ CarriedInv' /\ OwedInv'
  BY <1>1, <1>3, <1>5, <1>7 DEF DevicesInv, SendingInv, CarriedInv, OwedInv
<1>10. DriverInv'
  BY <1>1, <1>5, <1>6, <1>7 DEF DriverInv
<1>11. TypingShape'
  <2>1. PacketQueue(queued)' /\ PacketQueue(taken)'
    BY <1>1, <1>7 DEF TypingShape, PacketQueue, PacketShape
  <2>2. QED
    BY <1>1, <1>3, <1>7, <2>1 DEF TypingShape
<1>12. ComingInv'
  <2> SUFFICES ASSUME use = "typing", NEW k \in DOMAIN events'
               PROVE  /\ k = 1 /\ out.tx = << >> /\ taken = << >>
                      /\ sending = << >> \/ out.credit = 0
                      /\ \A l \in DOMAIN events' : ~Returns(events'[l])
    BY <1>3, <1>5, <1>7 DEF ComingInv
  <2>1. k = 1 /\ \A l \in DOMAIN events' : events'[l] = e
    BY <1>3, <1>5
  <2>2. ~(out.credit > 0) => out.credit = 0
    BY <1>1 DEF DriverInv
  <2>3. QED
    BY <1>3, <1>4, <1>8, <2>1, <2>2
<1>13. BalanceInv'
  BY <1>5 DEF BalanceInv, Live
<1>14. RoomInv'
  <2>1. CASE use = "typing"
    <3>1. out.tx = << >> /\ Len(out.tx) = 0
      BY <1>3, <2>1, NoneOwing
    <3>2. QED
      BY <1>5, <1>7, <3>1 DEF RoomInv
  <2>2. CASE use # "typing"
    <3>1. sending = << >> /\ Len(sending) = 0
      BY <1>1, <2>2, NoneOwing DEF TypingShape
    <3>2. QED
      BY <1>7, <3>1 DEF RoomInv
  <2>3. QED
    BY <2>1, <2>2
<1>15. ToldInv' /\ LatestInv'
  BY <1>7, <1>8 DEF ToldInv, LatestInv
<1>16. QED
  BY <1>9, <1>10, <1>11, <1>12, <1>13, <1>14, <1>15 DEF KeysInv

(* While bonds are made nothing is typed.                                  *)
LEMMA BondsKeys ==
  ASSUME KeysInv, StoreInv, HostBonds
  PROVE  KeysInv'
<1>1. /\ DevicesInv /\ TypingShape /\ SendingInv /\ DriverInv /\ ComingInv /\ BalanceInv
      /\ RoomInv /\ ToldInv /\ CarriedInv /\ OwedInv /\ LatestInv
  BY DEF KeysInv
<1>2. IsQueue(events) /\ ChipShape(chip)
  BY DEF StoreInv, BondingInv, TurnInv
<1>3. use = "bonding" /\ UNCHANGED <<use, kinds, typing>>
  BY DEF HostBonds
<1>4. PICK success \in BOOLEAN :
        /\ chip' = [chip EXCEPT !.bonded = @ \/ success,
                                !.toSave = ~@ /\ success /\ ~chip.bonded]
        /\ Emits([type |-> "BondStatus", success |-> success])
  BY DEF HostBonds, PeerBonds
<1> DEFINE e == [type |-> "BondStatus", success |-> success]
<1>5. HidEvent(e) /\ Emits(e)
  BY <1>4 DEF HidEvent
<1> HIDE DEF e
<1>6. UNCHANGED <<out, txOpen, central>> /\ \A k \in DOMAIN events' : HidEvent(events'[k])
  BY <1>1, <1>2, <1>5, KeysEmitted
<1>7. chip'.mode = chip.mode /\ chip'.open = chip.open /\ chip'.inFlight = chip.inFlight
  BY <1>2, <1>4 DEF ChipShape
<1>8. Hids' = Hids /\ UNCHANGED <<device, sending, queued, taken, told, seen, owed, held>>
  BY <1>3 DEF Hids, typing
<1>9. DevicesInv' /\ SendingInv' /\ CarriedInv' /\ OwedInv' /\ RoomInv' /\ LatestInv'
  BY <1>1, <1>3, <1>6, <1>7, <1>8
     DEF DevicesInv, SendingInv, CarriedInv, OwedInv, RoomInv, LatestInv
<1>10. DriverInv' /\ ToldInv' /\ ComingInv' /\ BalanceInv'
  BY <1>1, <1>3, <1>6, <1>7, <1>8 DEF DriverInv, ToldInv, OpenTo, ComingInv, BalanceInv, Live
<1>11. TypingShape'
  <2>1. PacketQueue(queued)' /\ PacketQueue(taken)'
    BY <1>1, <1>8 DEF TypingShape, PacketQueue, PacketShape
  <2>2. QED
    BY <1>1, <1>3, <1>8, <2>1 DEF TypingShape
<1>12. QED
  BY <1>9, <1>10, <1>11 DEF KeysInv

LEMMA NothingCarried ==
  ASSUME NEW tx, IsQueue(tx), \A k \in DOMAIN tx : ~IsData(tx[k])
  PROVE  Carried(tx, << >>)
<1>1. Len(<< >>) = 0
  BY NoneOwing
<1> DEFINE none == << >>
           f == [n \in 1 .. Len(none) |-> 1]
<1>2. \A n \in 1 .. Len(none) : FALSE
  BY <1>1
<1> HIDE DEF none
<1>3. f \in [1 .. Len(none) -> DOMAIN tx]
  BY <1>2
<1>4. Carried(tx, none)
  BY <1>2, <1>3 DEF Carried
<1>5. QED
  BY <1>4 DEF none

LEMMA StartedDriver ==
  LET tx == << <<"info", 0>> >>
      ev == << [type |-> "DeviceStarted", hwError |-> FALSE] >>
  IN  /\ Carried(tx, << >>) /\ NoDisconnect(tx)
      /\ \A k \in DOMAIN ev : HidEvent(ev[k]) /\ ~IsConnected(ev[k])
<1> DEFINE c == <<"info", 0>>
           e == [type |-> "DeviceStarted", hwError |-> FALSE]
           tx == << c >>
           ev == << e >>
<1>1. ~IsData(c) /\ c[1] # "disconnect" /\ HidEvent(e) /\ ~IsConnected(e)
  BY DEF IsData, HidEvent, IsConnected
<1> HIDE DEF c, e
<1>2. IsQueue(tx) /\ (\A k \in DOMAIN tx : tx[k] = c) /\ (\A k \in DOMAIN ev : ev[k] = e)
  BY SingleFacts
<1> HIDE DEF tx, ev
<1>3. Carried(tx, << >>)
  BY <1>1, <1>2, NothingCarried
<1>4. NoDisconnect(tx) /\ \A k \in DOMAIN ev : HidEvent(ev[k]) /\ ~IsConnected(ev[k])
  BY <1>1, <1>2 DEF NoDisconnect
<1>5. QED
  BY <1>3, <1>4 DEF tx, ev, c, e

LEMMA RestartKeys ==
  ASSUME KeysInv, use = "bonding", NEW store, NEW version, Restarts(store, version)
  PROVE  KeysInv'
<1> DEFINE tx == << <<"info", 0>> >>
           ev == << [type |-> "DeviceStarted", hwError |-> FALSE] >>
<1>1. /\ DevicesInv /\ TypingShape /\ SendingInv /\ DriverInv /\ ComingInv /\ BalanceInv
      /\ RoomInv /\ ToldInv /\ CarriedInv /\ OwedInv /\ LatestInv
  BY DEF KeysInv
<1>2. /\ txOpen' = {} /\ chip' = SetUp /\ events' = ev
      /\ UNCHANGED <<use, kinds, typing>>
  BY DEF Restarts
<1>3. /\ Carried(tx, << >>) /\ NoDisconnect(tx)
      /\ \A k \in DOMAIN ev : HidEvent(ev[k]) /\ ~IsConnected(ev[k])
  BY StartedDriver
<1> HIDE DEF tx, ev
<1>4. out'.tx = tx /\ out'.credit = 0 /\ out'.broadcast = 0
  BY DEF Restarts, Begun, tx
<1>5. chip'.mode = "standby" /\ chip'.inFlight = 0
  BY <1>2 DEF SetUp
<1>6. Hids' = Hids /\ UNCHANGED <<device, sending, queued, taken, told, seen, owed, held>>
  BY <1>2 DEF Hids, typing
<1>7. /\ sending = << >> /\ queued = << >> /\ taken = << >> /\ told = {}
      /\ DOMAIN queued = {} /\ Len(taken) = 0
  <2>1. sending = << >> /\ queued = << >> /\ taken = << >> /\ told = {}
    BY <1>1 DEF TypingShape
  <2>2. IsQueue(queued) /\ Len(queued) = 0 /\ Len(taken) = 0
    BY <2>1, NoneOwing DEF PacketQueue
  <2>3. QED
    BY <2>1, <2>2, QueueFacts
<1>8. DevicesInv' /\ SendingInv' /\ CarriedInv' /\ OwedInv' /\ RoomInv' /\ LatestInv'
  BY <1>1, <1>2, <1>3, <1>4, <1>5, <1>6, <1>7
     DEF DevicesInv, SendingInv, CarriedInv, OwedInv, RoomInv, LatestInv
<1>9. DriverInv' /\ ToldInv' /\ ComingInv' /\ BalanceInv'
  BY <1>1, <1>2, <1>3, <1>4, <1>5, <1>6, <1>7 DEF DriverInv, ToldInv, ComingInv, BalanceInv, Live
<1>10. TypingShape'
  <2>1. PacketQueue(queued)' /\ PacketQueue(taken)'
    BY <1>1, <1>6 DEF TypingShape, PacketQueue, PacketShape
  <2>2. QED
    BY <1>1, <1>2, <1>6, <2>1 DEF TypingShape
<1>11. QED
  BY <1>8, <1>9, <1>10 DEF KeysInv

LEMMA InitKeys == HidInit /\ HidTables => KeysInv
<1> SUFFICES ASSUME HidInit, HidTables PROVE KeysInv
  OBVIOUS
<1> DEFINE tx == << <<"info", 0>> >>
           ev == << [type |-> "DeviceStarted", hwError |-> FALSE] >>
<1>1. txOpen = {} /\ chip = SetUp /\ events = ev
  BY DEF HidInit, Init
<1>2. /\ use \in {"typing", "bonding"} /\ kinds \in HidSets
      /\ device = [i \in Hids |-> Blank(kinds[i])] /\ seen = device
      /\ sending = << >> /\ queued = << >> /\ taken = << >> /\ told = {}
      /\ owed = [i \in Hids |-> 0] /\ held = [i \in Hids |-> {}]
  BY DEF HidInit
<1>3. /\ Carried(tx, << >>) /\ NoDisconnect(tx)
      /\ \A k \in DOMAIN ev : HidEvent(ev[k]) /\ ~IsConnected(ev[k])
  BY StartedDriver
<1> HIDE DEF tx, ev
<1>4. out.tx = tx /\ out.credit = 0 /\ out.broadcast = 0
  BY DEF HidInit, Init, Begun, tx
<1>5. chip.mode = "standby" /\ chip.inFlight = 0
  BY <1>1 DEF SetUp
<1>6. PacketQueue(<< >>) /\ IsQueue(<< >>) /\ Len(<< >>) = 0 /\ DOMAIN << >> = {}
  <2>1. PacketQueue(<< >>) /\ Len(<< >>) = 0
    BY NoneOwing
  <2>2. QED
    BY <2>1, QueueFacts DEF PacketQueue
<1>7. TypingShape
  BY <1>2, <1>6 DEF TypingShape
<1>8. DevicesInv
  <2> SUFFICES ASSUME NEW i \in Hids PROVE DeviceOK(kinds[i], Blank(kinds[i]), {})
    BY <1>2 DEF DevicesInv
  <2>1. CASE kinds[i] = "keyboard"
    BY <2>1, BlankKeyboard DEF DeviceOK
  <2>2. CASE kinds[i] # "keyboard"
    BY <2>2 DEF DeviceOK, Blank, Report
  <2>3. QED
    BY <2>1, <2>2
<1>9. SendingInv /\ RoomInv /\ LatestInv /\ CarriedInv
  BY <1>2, <1>3, <1>4, <1>5, <1>6 DEF SendingInv, RoomInv, LatestInv, CarriedInv
<1>10. DriverInv /\ ToldInv /\ ComingInv /\ BalanceInv
  BY <1>1, <1>2, <1>3, <1>4, <1>5, <1>6 DEF DriverInv, ToldInv, ComingInv, BalanceInv, Live
<1>11. OwedInv
  BY <1>2, NoneOwing DEF OwedInv
<1>12. QED
  BY <1>7, <1>8, <1>9, <1>10, <1>11 DEF KeysInv

------------------------------------------------------------------------------
(* A poll, in two halves: the chip obeys a command, and the driver handles *)
(* an event.                                                               *)
LEMMA QuietCommand ==
  ASSUME NEW k, ChipShape(k), NEW c, ~IsData(c), c[1] # "disconnect"
  PROVE  /\ ChipAfter(k, c).open = k.open /\ ChipAfter(k, c).inFlight = k.inFlight
         /\ \/ ChipAfter(k, c).mode = k.mode
            \/ k.mode = "standby" /\ ChipAfter(k, c).mode \in Advertising
         /\ \/ Replies(k, c) = << >>
            \/ \E e : /\ Replies(k, c) = << e >> /\ HidEvent(e)
                      /\ ~Returns(e) /\ ~IsConnected(e)
<1> DEFINE n == ChipAfter(k, c)
           r == Replies(k, c)
<1>1. c[1] # "data"
  BY DEF IsData
<1>2. n.open = k.open /\ n.inFlight = k.inFlight
      /\ (n.mode = k.mode \/ (k.mode = "standby" /\ n.mode \in Advertising))
  <2>1. \/ n = [k EXCEPT !.unacked = 0] \/ n = [k EXCEPT !.adv = c[2]]
        \/ n = [k EXCEPT !.timings = k.timings + 1]
        \/ c[1] \in Advertising /\ k.mode = "standby" /\ n = [k EXCEPT !.mode = c[1]]
        \/ n = [k EXCEPT !.read = (k.read + 1) % Chunks, !.toSave = k.toSave /\ k.read + 1 # Chunks]
        \/ n = [k EXCEPT !.restored = k.restored + 1]
        \/ n = k
    BY <1>1 DEF ChipAfter
  <2> HIDE DEF n
  <2>2. QED
    BY <2>1 DEF ChipShape
<1>3. r = << >> \/ \E e : r = << e >> /\ e.type \in {"DataRead", "DataWritten"}
  <2> DEFINE d == [type |-> "DataRead", seqNo |-> k.read + 1, complete |-> k.read + 1 = Chunks]
             w == [type |-> "DataWritten", complete |-> k.restored + 1 = Chunks]
  <2>1. r = << >> \/ r = << d >> \/ r = << w >>
    BY <1>1 DEF Replies
  <2>2. d.type = "DataRead" /\ w.type = "DataWritten"
    OBVIOUS
  <2> HIDE DEF d, w, r
  <2>3. QED
    BY <2>1, <2>2
<1> HIDE DEF n, r
<1>4. r = << >> \/ \E e : r = << e >> /\ HidEvent(e) /\ ~Returns(e) /\ ~IsConnected(e)
  BY <1>3 DEF HidEvent, Returns, IsConnected
<1>5. QED
  BY <1>2, <1>4 DEF n, r

(* With no handler of the sketch's that calls the API, an event's handling *)
(* sends one command at most, and none that is data.                       *)
Quiet(c) == ~IsData(c) /\ c[1] # "disconnect"

Handled(e, o) ==
  /\ OutShape(o) /\ o.tx = Received.tx /\ o.broadcast = out.broadcast
  /\ o.credit = IF IsConnected(e) \/ IsDisconnected(e) THEN Credits
                ELSE IF Returns(e) THEN (out.credit + 1) % 256 ELSE out.credit
  /\ \/ out' = o
     \/ ~Returns(e) /\ ~IsConnected(e) /\ \E c : Quiet(c) /\ out' = Sent(o, c)

LEMMA NoneCalling ==
  ASSUME CallingHandlers = {}
  PROVE  /\ \A h, o, flags, subs : AfterHandler(h, o, flags, subs) = {o}
         /\ \A o, pipes, found : BehindLoop(o, pipes, found) = {o}
         /\ \A o, pipes, c : InLoop(o, pipes, c) = {o}
         /\ \A o : AfterUnlink(o) = {o}
<1>1. ASSUME NEW h, NEW o, NEW flags, NEW subs PROVE AfterHandler(h, o, flags, subs) = {o}
  BY DEF AfterHandler
<1>2. /\ \A o, pipes, found : BehindLoop(o, pipes, found) = {o}
      /\ \A o, pipes, c : InLoop(o, pipes, c) = {o}
  BY <1>1 DEF BehindLoop, InLoop
<1>3. ASSUME NEW o PROVE AfterUnlink(o) = {o}
  <2> DEFINE U == UNION {AfterHandler("Disconnected", o, txOpen, UpTo(c, {}, subscribed))
                           : c \in subscribed}
  <2>1. AfterUnlink(o) = AfterHandler("Disconnected", o, txOpen, {}) \cup U
    BY DEF AfterUnlink
  <2>2. AfterHandler("Disconnected", o, txOpen, {}) = {o} /\ U \subseteq {o}
    BY <1>1
  <2> HIDE DEF U
  <2>3. QED
    BY <2>1, <2>2
<1>4. QED
  BY <1>1, <1>2, <1>3

LEMMA PollHandled ==
  ASSUME CallingHandlers = {}, OutShape(out), OutShape(Received), DriverInv, poll,
         events # << >>, HidEvent(Head(events))
  PROVE  /\ \E o : Handled(Head(events), o)
         /\ txOpen' \subseteq AllTxPipes
<1> DEFINE e == Head(events)
           R == Received
<1>1. /\ txOpen \subseteq AllTxPipes /\ OutShape(R)
      /\ R.credit = out.credit /\ R.broadcast = out.broadcast
  BY DEF DriverInv, Received, OutShape
<1>2. Quiet(<<"writeDynamic", 1>>) /\ Quiet(<<"readDynamic", 0>>) /\ Quiet(<<"timing", 0>>)
      /\ (\A n : Quiet(<<"writeDynamic", n>>))
      /\ Quiet(<<"connect", 0>>) /\ Quiet(<<"bond", 0>>) /\ Quiet(<<"broadcast", 0>>)
  BY DEF Quiet, IsData
<1>3. ASSUME NEW o, NEW b PROVE \E c : Quiet(c) /\ startAdvertising(o, b) = Sent(o, c)
  BY <1>2 DEF startAdvertising
<1>4. /\ \A x : OutShape([R EXCEPT !.credit = x]) /\ [R EXCEPT !.credit = x].tx = R.tx
                /\ [R EXCEPT !.credit = x].broadcast = R.broadcast
                /\ [R EXCEPT !.credit = x].credit = x
      /\ \A z : LET o == [R EXCEPT !.open = {}, !.closed = {}, !.credit = z]
                IN  OutShape(o) /\ o.tx = R.tx /\ o.broadcast = R.broadcast /\ o.credit = z
  BY <1>1 DEF OutShape
<1> HIDE DEF R
<1>5. ASSUME ~IsConnected(e), ~IsDisconnected(e), ~Returns(e)
      PROVE  /\ out' = R => Handled(e, R)
             /\ (\E c : Quiet(c) /\ out' = Sent(R, c)) => Handled(e, R)
  BY <1>1, <1>5 DEF Handled, R
<1>6. CASE DeviceStarted
  <2>1. e.type = "DeviceStarted"
    BY <1>6 DEF DeviceStarted, Gets
  <2>2. ~IsConnected(e) /\ ~IsDisconnected(e) /\ ~Returns(e)
    BY <2>1 DEF IsConnected, IsDisconnected, Returns
  <2>3. out' = R \/ out' = Sent(R, <<"writeDynamic", 1>>) \/ out' = startAdvertising(R, hasData)
    BY <1>6 DEF DeviceStarted, R
  <2>4. out' = R \/ \E c : Quiet(c) /\ out' = Sent(R, c)
    BY <1>2, <1>3, <2>3
  <2>5. UNCHANGED txOpen
    BY <1>6 DEF DeviceStarted
  <2>6. QED
    BY <1>1, <1>5, <2>2, <2>4, <2>5
<1>7. CASE DataRead
  <2>1. e.type = "DataRead"
    BY <1>7 DEF DataRead, Gets
  <2>2. ~IsConnected(e) /\ ~IsDisconnected(e) /\ ~Returns(e)
    BY <2>1 DEF IsConnected, IsDisconnected, Returns
  <2>3. out' = Sent(R, <<"readDynamic", 0>>) \/ out' = startAdvertising(R, TRUE)
    BY <1>7 DEF DataRead, R
  <2>4. \E c : Quiet(c) /\ out' = Sent(R, c)
    BY <1>2, <1>3, <2>3
  <2>5. UNCHANGED txOpen
    BY <1>7 DEF DataRead
  <2>6. QED
    BY <1>1, <1>5, <2>2, <2>4, <2>5
<1>8. CASE DataWritten
  <2>1. e.type = "DataWritten"
    BY <1>8 DEF DataWritten, Gets
  <2>2. ~IsConnected(e) /\ ~IsDisconnected(e) /\ ~Returns(e)
    BY <2>1 DEF IsConnected, IsDisconnected, Returns
  <2>3. out' = Sent(R, <<"writeDynamic", sequenceNo'>>) \/ out' = startAdvertising(R, hasData)
    BY <1>8 DEF DataWritten, R
  <2>4. \E c : Quiet(c) /\ out' = Sent(R, c)
    BY <1>2, <1>3, <2>3
  <2>5. UNCHANGED txOpen
    BY <1>8 DEF DataWritten
  <2>6. QED
    BY <1>1, <1>5, <2>2, <2>4, <2>5
<1>9. CASE Connected
  <2> DEFINE o == [R EXCEPT !.credit = Credits]
  <2>1. IsConnected(e)
    BY <1>9 DEF Connected, Gets, IsConnected
  <2>2. out' = o /\ UNCHANGED txOpen
    BY <1>9, NoneCalling DEF Connected, R
  <2>3. OutShape(o) /\ o.tx = R.tx /\ o.broadcast = R.broadcast /\ o.credit = Credits
    BY <1>4
  <2> HIDE DEF o
  <2>4. Handled(e, o)
    BY <1>1, <2>1, <2>2, <2>3 DEF Handled, R
  <2>5. QED
    BY <1>1, <2>2, <2>4
<1>10. CASE PipeStatus
  <2> DEFINE o == [R EXCEPT !.open = e.open, !.closed = e.closed]
             found == /\ closedPipesCleared' /\ lib_aci_is_discovery_finished(o)
                      /\ ~remoteServicesDiscovered
             n == IF Retimed(e.open) THEN Sent(o, <<"timing", 0>>) ELSE o
  <2>1. e.type = "PipeStatus"
    BY <1>10 DEF PipeStatus, Gets
  <2>2. ~IsConnected(e) /\ ~IsDisconnected(e) /\ ~Returns(e)
    BY <2>1 DEF IsConnected, IsDisconnected, Returns
  <2>3. lib_aci_event_get(Received) = o
    BY <2>1 DEF lib_aci_event_get, R
  <2>4. /\ out' \in BehindLoop(n, e.open, found) \/ \E c : out' \in InLoop(n, e.open, c)
        /\ \E c, left : Looped(c, e.open, left)
    BY <1>10, <2>3 DEF PipeStatus
  <2>5. OutShape(o) /\ o.tx = R.tx /\ o.broadcast = R.broadcast /\ o.credit = R.credit
    BY <1>1 DEF OutShape
  <2> HIDE DEF o, found
  <2>6. out' = n
    BY <2>4, NoneCalling
  <2>7. out' = o \/ out' = Sent(o, <<"timing", 0>>)
    BY <2>6
  <2>8. Handled(e, o)
    BY <1>1, <1>2, <2>2, <2>5, <2>7 DEF Handled, R
  <2>9. txOpen' \subseteq AllTxPipes
    <3>1. \A d, c, left : OpenFor(d, c, e.open, left) \subseteq TxPipes(d)
      BY DEF OpenFor
    <3>2. QED
      BY <2>4, <3>1 DEF Looped, AllTxPipes
  <2>10. QED
    BY <2>8, <2>9
<1>11. CASE Disconnected
  <2> DEFINE o == [R EXCEPT !.open = {}, !.closed = {}, !.credit = Credits]
  <2>1. e.type = "Disconnected"
    BY <1>11 DEF Disconnected, Gets
  <2>2. IsDisconnected(e) /\ ~IsConnected(e) /\ ~Returns(e)
    BY <2>1 DEF IsConnected, IsDisconnected, Returns
  <2>3. lib_aci_event_get(Received) = o
    BY <2>1 DEF lib_aci_event_get, R
  <2>4. OutShape(o) /\ o.tx = R.tx /\ o.broadcast = R.broadcast /\ o.credit = Credits
    BY <1>4
  <2> HIDE DEF o
  <2>5. out' = Sent(o, <<"readDynamic", 0>>) \/ out' = startAdvertising(o, hasData)
    BY <1>11, <2>3, NoneCalling DEF Disconnected
  <2>6. \E c : Quiet(c) /\ out' = Sent(o, c)
    BY <1>2, <1>3, <2>5
  <2>7. Handled(e, o)
    BY <1>1, <2>2, <2>4, <2>6 DEF Handled, R
  <2>8. UNCHANGED txOpen
    BY <1>11 DEF Disconnected
  <2>9. QED
    BY <1>1, <2>7, <2>8
<1>12. CASE BondStatus
  <2>1. e.type = "BondStatus"
    BY <1>12 DEF BondStatus, Gets
  <2>2. ~IsConnected(e) /\ ~IsDisconnected(e) /\ ~Returns(e)
    BY <2>1 DEF IsConnected, IsDisconnected, Returns
  <2>3. out' = R /\ UNCHANGED txOpen
    BY <1>12, NoneCalling DEF BondStatus, R
  <2>4. QED
    BY <1>1, <1>5, <2>2, <2>3
<1>13. CASE DataCredit \/ PipeError
  <2> DEFINE o == [R EXCEPT !.credit = (R.credit + 1) % 256]
  <2>1. /\ e.type = "DataCredit" \/ e.type = "PipeError"
        /\ e.type = "DataCredit" => e.credit = 1
        /\ e.type = "PipeError" => ~e.peer
    BY <1>13 DEF DataCredit, PipeError, Gets, HidEvent
  <2>2. ~IsConnected(e) /\ ~IsDisconnected(e) /\ Returns(e)
    BY <2>1 DEF IsConnected, IsDisconnected, Returns
  <2>3. out' = o /\ UNCHANGED txOpen
    <3>1. CASE DataCredit
      <4>1. Head(events).type = "DataCredit" /\ Head(events).credit = 1
        BY <2>1, <3>1 DEF DataCredit, Gets
      <4>2. out' = Credited(Received, 1) /\ UNCHANGED txOpen
        BY <3>1, <4>1 DEF DataCredit
      <4>3. QED
        BY <4>2 DEF Credited, R
    <3>2. CASE PipeError
      <4>1. ~Head(events).peer
        BY <2>1, <3>2 DEF PipeError, Gets
      <4>2. out' = Credited(Received, 1) /\ UNCHANGED txOpen
        BY <3>2, <4>1 DEF PipeError
      <4>3. QED
        BY <4>2 DEF Credited, R
    <3>3. QED
      BY <1>13, <3>1, <3>2
  <2>4. OutShape(o) /\ o.tx = R.tx /\ o.broadcast = R.broadcast /\ o.credit = (R.credit + 1) % 256
    BY <1>4
  <2> HIDE DEF o
  <2>5. Handled(e, o)
    BY <1>1, <2>2, <2>3, <2>4 DEF Handled, R
  <2>6. QED
    BY <1>1, <2>3, <2>5
<1>14. ~NoEvent /\ ~DataReceived /\ ~HwError
  BY DEF NoEvent, DataReceived, HwError, Gets, HidEvent
<1>15. QED
  BY <1>6, <1>7, <1>8, <1>9, <1>10, <1>11, <1>12, <1>13, <1>14 DEF poll

(* What a poll's command leaves of the packets, the events and the link.   *)
Obeyed ==
  /\ chip'.open = chip.open /\ chip'.mode # "closing" /\ chip'.inFlight = Len(taken')
  /\ chip'.mode = "connected" <=> chip.mode = "connected"
  /\ chip'.mode # "connected" => taken' = << >>
  /\ PacketQueue(queued') /\ PacketQueue(taken')
  /\ \A k \in DOMAIN queued' : \E l \in DOMAIN queued : queued'[k] = queued[l]
  /\ queued = << >> => queued' = << >> /\ taken' = taken
  /\ Carried(Received.tx, queued') /\ NoDisconnect(Received.tx)
  /\ \A k \in DOMAIN AfterCommand :
       /\ HidEvent(AfterCommand[k])
       /\ IsConnected(AfterCommand[k]) => k \in DOMAIN events /\ IsConnected(events[k])
  /\ Len(queued') + Len(taken') + Returned(AfterCommand)
       = Len(queued) + Len(taken) + Returned(events)
  /\ \A i : Owing(queued', i) + Owing(taken', i) = Owing(queued, i) + Owing(taken, i)
  /\ \A i, last, r :
       LatestIn(queued, taken, last, r, i) => LatestIn(queued', taken', last, r, i)

(* An event, if any, is added to those that wait.                          *)
LEMMA EventAdded ==
  ASSUME IsQueue(events), DriverInv, NEW r,
         r = << >> \/ \E e : r = << e >> /\ HidEvent(e) /\ ~IsConnected(e)
  PROVE  /\ \A k \in DOMAIN (events \o r) :
              /\ HidEvent((events \o r)[k])
              /\ IsConnected((events \o r)[k]) => k \in DOMAIN events /\ IsConnected(events[k])
         /\ r = << >> => Returned(events \o r) = Returned(events)
         /\ \A e : r = << e >> =>
              Returned(events \o r) = IF Returns(e) THEN Returned(events) + 1 ELSE Returned(events)
         /\ Returned(events) \in Nat
<1>1. Returned(events) \in Nat /\ \A k \in DOMAIN events : HidEvent(events[k])
  BY CountFacts DEF DriverInv
<1>2. CASE r = << >>
  <2>1. events \o r = events
    BY <1>2, ConcatCases
  <2>2. \A e : r # << e >>
    BY <1>2, SingleFacts, NoneOwing
  <2>3. QED
    BY <1>1, <2>1, <2>2
<1>3. CASE \E e : r = << e >> /\ HidEvent(e) /\ ~IsConnected(e)
  <2>1. PICK e : r = << e >> /\ HidEvent(e) /\ ~IsConnected(e)
    BY <1>3
  <2> DEFINE a == Append(events, e)
  <2>2. events \o r = a
    BY <2>1, ConcatCases
  <2>3. \A k \in DOMAIN a :
          (k = Len(events) + 1 /\ a[k] = e) \/ (k \in DOMAIN events /\ a[k] = events[k])
    BY AppendElements
  <2>4. Returned(a) = IF Returns(e) THEN Returned(events) + 1 ELSE Returned(events)
    BY CountFacts
  <2>5. r # << >> /\ \A x : r = << x >> => x = e
    BY <2>1, SingleFacts, NoneOwing
  <2> HIDE DEF a
  <2>6. \A k \in DOMAIN a :
          /\ HidEvent(a[k])
          /\ IsConnected(a[k]) => k \in DOMAIN events /\ IsConnected(events[k])
    BY <1>1, <2>1, <2>3
  <2>7. QED
    BY <1>1, <2>2, <2>4, <2>5, <2>6
<1>4. QED
  BY <1>2, <1>3

LEMMA PollObeys ==
  ASSUME KeysInv, StoreInv, HidPoll
  PROVE  Obeyed
<1> DEFINE c == Head(out.tx)
           p == queued[1]
           r == Replies(chip, c)
<1>1. /\ TypingShape /\ DriverInv /\ ComingInv /\ BalanceInv /\ ToldInv /\ CarriedInv
      /\ PacketQueue(queued) /\ PacketQueue(taken) /\ IsQueue(queued) /\ IsQueue(taken)
  BY DEF KeysInv, TypingShape, PacketQueue
<1>2. /\ OutShape(out) /\ IsQueue(events) /\ ChipShape(chip) /\ IsQueue(out.tx)
      /\ Received.tx = Rest(out.tx)
      /\ out.tx = << >> => AfterCommand = events /\ chip' = chip /\ Rest(out.tx) = out.tx
      /\ out.tx # << >> => AfterCommand = events \o r /\ chip' = ChipAfter(chip, c)
  <2>1. TurnInv /\ poll
    BY DEF StoreInv, BondingInv, HidPoll
  <2>2. QED
    BY <2>1, PollSteps
<1>3. /\ queued' = IF out.tx # << >> /\ c[1] = "data" THEN Tail(queued) ELSE queued
      /\ taken' = IF out.tx # << >> /\ c[1] = "data" /\ Takes(chip, c[2])
                  THEN Append(taken, Head(queued)) ELSE taken
  BY DEF HidPoll, ReportLeaves, Carries
<1>4. Returned(events) \in Nat /\ Len(queued) \in Nat /\ Len(taken) \in Nat
  BY <1>1, <1>2, CountFacts, QueueFacts
<1>5. /\ NoDisconnect(Received.tx)
      /\ out.tx # << >> => c = out.tx[1] /\ c[1] # "disconnect" /\ 1 \in DOMAIN out.tx
  <2>1. \A k \in DOMAIN Rest(out.tx) : k + 1 \in DOMAIN out.tx /\ Rest(out.tx)[k] = out.tx[k + 1]
    BY <1>2, RestIndex
  <2>2. out.tx # << >> => c = out.tx[1] /\ 1 \in DOMAIN out.tx
    BY <1>2, RestIndex
  <2>3. NoDisconnect(out.tx)
    BY <1>1 DEF DriverInv
  <2>4. QED
    BY <1>2, <2>1, <2>2, <2>3 DEF NoDisconnect
<1>6. CASE out.tx = << >>
  <2>1. AfterCommand = events /\ chip' = chip /\ Received.tx = out.tx
        /\ queued' = queued /\ taken' = taken
    BY <1>2, <1>3, <1>6
  <2>2. QED
    BY <1>1, <1>5, <2>1 DEF Obeyed, DriverInv, CarriedInv
<1>7. CASE out.tx # << >> /\ ~IsData(c)
  <2>1. queued' = queued /\ taken' = taken
    BY <1>3, <1>7 DEF IsData
  <2>2. AfterCommand = events \o r /\ chip' = ChipAfter(chip, c)
    BY <1>2, <1>7
  <2>3. /\ chip'.open = chip.open /\ chip'.inFlight = chip.inFlight
        /\ chip'.mode = chip.mode \/ (chip.mode = "standby" /\ chip'.mode \in Advertising)
        /\ r = << >> \/ \E e : r = << e >> /\ HidEvent(e) /\ ~Returns(e) /\ ~IsConnected(e)
    BY <1>2, <1>5, <1>7, <2>2, QuietCommand
  <2>4. chip'.mode # "closing" /\ (chip'.mode = "connected" <=> chip.mode = "connected")
    BY <1>1, <2>3 DEF DriverInv, Advertising, Connectable
  <2>5. Carried(Received.tx, queued)
    BY <1>1, <1>2, <1>5, <1>7, CarriedRest DEF CarriedInv
  <2> HIDE DEF r
  <2>6. /\ \A k \in DOMAIN AfterCommand :
             /\ HidEvent(AfterCommand[k])
             /\ IsConnected(AfterCommand[k]) => k \in DOMAIN events /\ IsConnected(events[k])
        /\ Returned(AfterCommand) = Returned(events)
    BY <1>1, <1>2, <2>2, <2>3, EventAdded
  <2>7. QED
    BY <1>1, <1>4, <1>5, <2>1, <2>3, <2>4, <2>5, <2>6 DEF Obeyed, DriverInv
<1>8. CASE out.tx # << >> /\ IsData(c)
  <2>1. /\ queued # << >> /\ c = <<"data", Pipe(p.hid)>> /\ Carried(Received.tx, Rest(queued))
    BY <1>1, <1>2, <1>5, <1>8, CarriedRest DEF CarriedInv
  <2>2. /\ PacketQueue(Rest(queued)) /\ Len(Rest(queued)) = Len(queued) - 1
        /\ 1 \in DOMAIN queued /\ Head(queued) = p /\ Tail(queued) = Rest(queued)
        /\ PacketShape(p) /\ Len(queued) > 0
        /\ \A k \in DOMAIN Rest(queued) : \E l \in DOMAIN queued : Rest(queued)[k] = queued[l]
    <3>1. Len(queued) # 0
      BY <1>1, <2>1, EmptyQueue
    <3>2. QED
      BY <1>1, <1>4, <2>1, <3>1, QueueShrinks
  <2>3. c[1] = "data" /\ c[2] = Pipe(p.hid)
    BY <2>1
  <2>4. /\ queued' = Rest(queued)
        /\ taken' = IF Takes(chip, Pipe(p.hid)) THEN Append(taken, p) ELSE taken
        /\ AfterCommand = events \o r /\ chip' = ChipAfter(chip, c)
    BY <1>2, <1>3, <1>8, <2>2, <2>3
  <2>5. \A i : /\ Owing(queued, i) \in Nat /\ Owing(taken, i) \in Nat
               /\ Owing(Append(taken, p), i) = IF Owes(p, i) THEN Owing(taken, i) + 1 ELSE Owing(taken, i)
               /\ Owing(Rest(queued), i) = IF Owes(p, i) THEN Owing(queued, i) - 1 ELSE Owing(queued, i)
    BY <1>1, <2>1, OwingFacts
  <2>6. CASE Takes(chip, Pipe(p.hid))
    <3>1. chip' = [chip EXCEPT !.inFlight = chip.inFlight + 1] /\ r = << >>
      BY <2>3, <2>4, <2>6 DEF ChipAfter, Replies, Advertising, Connectable
    <3>2. /\ chip'.open = chip.open /\ chip'.mode = chip.mode
          /\ chip'.inFlight = chip.inFlight + 1 /\ chip.mode = "connected"
      BY <1>2, <2>6, <3>1 DEF ChipShape, Takes
    <3> HIDE DEF r, p, c
    <3>3. taken' = Append(taken, p) /\ PacketQueue(taken') /\ Len(taken') = Len(taken) + 1
      BY <1>1, <2>2, <2>4, <2>6, QueueGrows
    <3>4. /\ \A k \in DOMAIN AfterCommand :
               /\ HidEvent(AfterCommand[k])
               /\ IsConnected(AfterCommand[k]) => k \in DOMAIN events /\ IsConnected(events[k])
          /\ Returned(AfterCommand) = Returned(events)
      BY <1>1, <1>2, <2>4, <3>1, EventAdded
    <3>5. \A i : Owing(queued', i) + Owing(taken', i) = Owing(queued, i) + Owing(taken, i)
      BY <2>4, <2>5, <3>3
    <3>6. \A i, last, x :
            LatestIn(queued, taken, last, x, i) => LatestIn(queued', taken', last, x, i)
      BY <1>1, <2>1, <2>4, <3>3, LatestTaken DEF p
    <3>7. Len(queued') + Len(taken') + Returned(AfterCommand)
            = Len(queued) + Len(taken) + Returned(events)
      <4>1. Len(queued') = Len(queued) - 1
        BY <2>2, <2>4
      <4>2. Len(taken') = Len(taken) + 1
        BY <3>3
      <4>3. Returned(AfterCommand) = Returned(events)
        BY <3>4
      <4>4. QED
        BY <1>4, <4>1, <4>2, <4>3
    <3>8. chip'.mode # "closing" /\ chip'.inFlight = Len(taken')
      BY <1>1, <3>2, <3>3 DEF DriverInv
    <3>9. QED
      BY <1>5, <2>1, <2>2, <2>4, <3>2, <3>3, <3>4, <3>5, <3>6, <3>7, <3>8 DEF Obeyed
  <2>7. CASE ~Takes(chip, Pipe(p.hid))
    <3> DEFINE e == [type |-> "PipeError", peer |-> FALSE]
    <3>1. chip' = chip /\ r = << e >>
      BY <2>3, <2>4, <2>7 DEF ChipAfter, Replies, Advertising, Connectable
    <3>2. HidEvent(e) /\ ~IsConnected(e) /\ Returns(e)
      BY DEF HidEvent, IsConnected, Returns
    <3>3. ~p.told
      <4> SUFFICES ASSUME p.told PROVE FALSE
        OBVIOUS
      <4>1. use = "typing"
        BY <1>1, <2>1 DEF TypingShape
      <4>2. chip.mode = "connected" /\ Pipe(p.hid) \in chip.open
        BY <1>1, <2>2 DEF ToldInv, OpenTo
      <4>3. \A k \in DOMAIN events : ~IsConnected(events[k])
        BY <1>1, <1>8, <4>1 DEF ComingInv
      <4>4. out.credit + Len(queued) + Len(taken) + Returned(events) <= Credits
        BY <1>1, <4>1, <4>2, <4>3 DEF BalanceInv, Live
      <4>5. chip.inFlight = Len(taken) /\ out.credit \in Nat /\ Credits \in Nat
        BY <1>1, CreditsAssumption DEF DriverInv
      <4>6. chip.inFlight < Credits
        BY <1>4, <2>2, <4>4, <4>5
      <4>7. QED
        BY <2>7, <4>2, <4>6 DEF Takes
    <3> HIDE DEF r, p, c, e
    <3>4. /\ \A k \in DOMAIN AfterCommand :
               /\ HidEvent(AfterCommand[k])
               /\ IsConnected(AfterCommand[k]) => k \in DOMAIN events /\ IsConnected(events[k])
          /\ Returned(AfterCommand) = Returned(events) + 1
      BY <1>1, <1>2, <2>4, <3>1, <3>2, EventAdded
    <3>5. taken' = taken
      BY <2>4, <2>7
    <3>6. \A i : Owing(queued', i) + Owing(taken', i) = Owing(queued, i) + Owing(taken, i)
      BY <2>4, <2>5, <3>3, <3>5 DEF Owes
    <3>7. \A i, last, x :
            LatestIn(queued, taken, last, x, i) => LatestIn(queued', taken', last, x, i)
      BY <1>1, <2>1, <2>4, <3>3, <3>5, LatestRefused DEF p
    <3>8. Len(queued') + Len(taken') + Returned(AfterCommand)
            = Len(queued) + Len(taken) + Returned(events)
      <4>1. Len(queued') = Len(queued) - 1
        BY <2>2, <2>4
      <4>2. Returned(AfterCommand) = Returned(events) + 1
        BY <3>4
      <4>3. QED
        BY <1>4, <3>5, <4>1, <4>2
    <3>9. QED
      BY <1>1, <1>5, <2>1, <2>2, <2>4, <3>1, <3>4, <3>5, <3>6, <3>7, <3>8 DEF Obeyed, DriverInv
  <2>8. QED
    BY <2>6, <2>7
<1>9. QED
  BY <1>6, <1>7, <1>8

LEMMA PollKeys ==
  ASSUME KeysInv, StoreInv, CallingHandlers = {}, HidPoll
  PROVE  KeysInv'
<1> DEFINE R == Received
           e == Head(events)
<1>1. /\ DevicesInv /\ TypingShape /\ SendingInv /\ DriverInv /\ ComingInv /\ BalanceInv
      /\ RoomInv /\ ToldInv /\ CarriedInv /\ OwedInv /\ LatestInv
      /\ out.credit \in Nat /\ out.broadcast = 0 /\ Credits \in 1 .. 255
  BY CreditsAssumption DEF KeysInv, DriverInv
<1>2. /\ chip'.open = chip.open /\ chip'.mode # "closing" /\ chip'.inFlight = Len(taken')
      /\ chip'.mode = "connected" <=> chip.mode = "connected"
      /\ chip'.mode # "connected" => taken' = << >>
      /\ PacketQueue(queued') /\ PacketQueue(taken')
      /\ \A k \in DOMAIN queued' : \E l \in DOMAIN queued : queued'[k] = queued[l]
      /\ queued = << >> => queued' = << >> /\ taken' = taken
      /\ Carried(R.tx, queued') /\ NoDisconnect(R.tx)
      /\ \A k \in DOMAIN AfterCommand :
           /\ HidEvent(AfterCommand[k])
           /\ IsConnected(AfterCommand[k]) => k \in DOMAIN events /\ IsConnected(events[k])
      /\ Len(queued') + Len(taken') + Returned(AfterCommand)
           = Len(queued) + Len(taken) + Returned(events)
      /\ \A i : Owing(queued', i) + Owing(taken', i) = Owing(queued, i) + Owing(taken, i)
      /\ \A i, last, r :
           LatestIn(queued, taken, last, r, i) => LatestIn(queued', taken', last, r, i)
  BY PollObeys DEF Obeyed
<1>3. /\ sending = << >> \/ out.credit = 0
      /\ poll /\ UNCHANGED <<use, kinds, device, sending, told, seen, owed, held>>
  BY <1>1 DEF HidPoll, ReportLeaves, canNotify
<1>4. /\ OutShape(out) /\ OutShape(R) /\ IsQueue(events) /\ R.tx = Rest(out.tx)
      /\ IsQueue(out.tx) /\ IsQueue(AfterCommand)
      /\ events = << >> => out' = R /\ events' = AfterCommand
      /\ events # << >> =>
           /\ AfterCommand # << >> /\ Head(AfterCommand) = e /\ events' = Rest(AfterCommand)
      /\ out.tx = << >> => AfterCommand = events /\ R.tx = out.tx
      /\ Turn(R.tx, AfterCommand, chip')
  BY <1>3, PollSteps DEF StoreInv, BondingInv
<1>5. R.credit = out.credit /\ R.broadcast = out.broadcast
  BY <1>4 DEF Received, OutShape
<1>6. events # << >> =>
        /\ 1 \in DOMAIN AfterCommand /\ e = AfterCommand[1] /\ HidEvent(e)
        /\ 1 \in DOMAIN events /\ e = events[1]
  <2>1. events # << >> => 1 \in DOMAIN AfterCommand /\ e = AfterCommand[1] /\ 1 \in DOMAIN events /\ e = events[1]
    BY <1>4, RestIndex
  <2>2. QED
    BY <1>2, <2>1
<1>7. txOpen' \subseteq AllTxPipes
  <2>1. CASE events = << >>
    <3>1. txOpen' = txOpen
      <4>1. NoEvent
        BY <1>3, <2>1 DEF poll, NoEvent, DeviceStarted, DataRead, DataWritten, Connected, PipeStatus,
                          Disconnected, BondStatus, DataReceived, DataCredit, PipeError, HwError, Gets
      <4>2. QED
        BY <4>1 DEF NoEvent
    <3>2. QED
      BY <1>1, <3>1 DEF DriverInv
  <2>2. CASE events # << >>
    BY <1>1, <1>3, <1>4, <1>6, <2>2, PollHandled
  <2>3. QED
    BY <2>1, <2>2
<1>8. \E o : /\ OutShape(o) /\ o.tx = R.tx /\ o.broadcast = 0
             /\ o.credit = IF events # << >> /\ (IsConnected(e) \/ IsDisconnected(e)) THEN Credits
                           ELSE IF events # << >> /\ Returns(e) THEN (out.credit + 1) % 256
                           ELSE out.credit
             /\ \/ out' = o
                \/ /\ events # << >> /\ ~Returns(e) /\ ~IsConnected(e)
                   /\ \E c : Quiet(c) /\ out' = Sent(o, c)
  <2>1. CASE events = << >>
    BY <1>1, <1>4, <1>5, <2>1
  <2>2. CASE events # << >>
    <3>1. PICK o : Handled(e, o)
      BY <1>1, <1>3, <1>4, <1>6, <2>2, PollHandled
    <3>2. QED
      BY <1>1, <2>2, <3>1 DEF Handled
  <2>3. QED
    BY <2>1, <2>2
<1>9. PICK o : /\ OutShape(o) /\ o.tx = R.tx /\ o.broadcast = 0
               /\ o.credit = IF events # << >> /\ (IsConnected(e) \/ IsDisconnected(e)) THEN Credits
                             ELSE IF events # << >> /\ Returns(e) THEN (out.credit + 1) % 256
                             ELSE out.credit
               /\ \/ out' = o
                  \/ /\ events # << >> /\ ~Returns(e) /\ ~IsConnected(e)
                     /\ \E c : Quiet(c) /\ out' = Sent(o, c)
  BY <1>8
<1> DEFINE came == events # << >> /\ IsConnected(e)
           left == events # << >> /\ IsDisconnected(e)
           returns == events # << >> /\ Returns(e)
<1>10. /\ out'.credit = IF came \/ left THEN Credits
                        ELSE IF returns THEN (out.credit + 1) % 256 ELSE out.credit
       /\ out'.broadcast = 0 /\ NoDisconnect(out'.tx) /\ Carried(out'.tx, queued')
       /\ came \/ returns \/ events = << >> => out'.tx = R.tx
       /\ Len(out'.tx) <= Len(R.tx) + 1 /\ Len(out'.tx) \in Nat
  <2>1. Len(R.tx) \in Nat
    BY <1>4, QueueFacts DEF OutShape
  <2>2. CASE out' = o
    BY <1>2, <1>9, <2>1, <2>2
  <2>3. CASE events # << >> /\ ~Returns(e) /\ ~IsConnected(e) /\ \E c : Quiet(c) /\ out' = Sent(o, c)
    <3>1. PICK c : Quiet(c) /\ out' = Sent(o, c)
      BY <2>3
    <3>2. ~IsData(c) /\ c[1] # "disconnect"
      BY <3>1 DEF Quiet
    <3>3. /\ OutShape(out') /\ out'.credit = o.credit /\ out'.broadcast = o.broadcast
          /\ out'.tx = Append(o.tx, c) \/ out'.tx = o.tx
          /\ Len(out'.tx) <= Len(o.tx) + 1 /\ NoDisconnect(out'.tx)
      BY <1>2, <1>9, <3>1, <3>2, SentCases
    <3>4. Carried(Append(R.tx, c), queued')
      BY <1>2, <1>4, <3>2, CarriedAppend DEF OutShape, PacketQueue
    <3>5. Carried(out'.tx, queued')
      BY <1>2, <1>9, <3>3, <3>4
    <3>6. Len(out'.tx) \in Nat
      BY <3>3, QueueFacts DEF OutShape
    <3>7. QED
      BY <1>9, <2>3, <3>3, <3>5, <3>6
  <2>4. QED
    BY <1>9, <2>2, <2>3
<1> HIDE DEF R
<1>11. Hids' = Hids
  BY <1>3 DEF Hids
<1>12. DevicesInv' /\ SendingInv'
  BY <1>1, <1>3, <1>11 DEF DevicesInv, SendingInv
<1>13. TypingShape'
  <2>1. PacketQueue(queued)' /\ PacketQueue(taken)'
    BY <1>2, <1>11 DEF PacketQueue, PacketShape
  <2>2. use = "bonding" => queued' = << >> /\ taken' = << >>
    BY <1>1, <1>2 DEF TypingShape
  <2>3. QED
    BY <1>1, <1>3, <1>11, <2>1, <2>2 DEF TypingShape
<1>14. CarriedInv'
  BY <1>10, <1>11, <1>3 DEF CarriedInv, Carried, Pipe
<1>15. /\ \A k \in DOMAIN events' : HidEvent(events'[k])
       /\ use = "typing" => \A k \in DOMAIN events' : ~IsConnected(events'[k])
  <2>1. CASE events = << >>
    <3>1. DOMAIN events = {}
      BY <1>4, <2>1, NoneOwing, QueueFacts
    <3>2. QED
      BY <1>2, <1>4, <2>1, <3>1
  <2>2. CASE events # << >>
    <3>1. /\ events' = Rest(AfterCommand)
          /\ \A k \in DOMAIN Rest(AfterCommand) :
               /\ k \in Nat /\ k > 0 /\ k + 1 \in DOMAIN AfterCommand
               /\ Rest(AfterCommand)[k] = AfterCommand[k + 1]
      BY <1>4, <2>2, RestIndex
    <3>2. \A k \in DOMAIN events' : HidEvent(events'[k])
      BY <1>2, <3>1
    <3>3. ASSUME use = "typing", NEW k \in DOMAIN events', IsConnected(events'[k]) PROVE FALSE
      <4>1. k + 1 \in DOMAIN events /\ IsConnected(events[k + 1]) /\ k \in Nat /\ k > 0
        BY <1>2, <3>1, <3>3
      <4>2. k + 1 = 1
        BY <1>1, <3>3, <4>1 DEF ComingInv
      <4>3. QED
        BY <4>1, <4>2
    <3>4. QED
      BY <3>2, <3>3
  <2>3. QED
    BY <2>1, <2>2
<1>16. DriverInv'
  <2>1. out'.credit \in Nat
    <3>1. Credits \in Nat /\ (out.credit + 1) % 256 \in Nat
      BY <1>1
    <3>2. QED
      BY <1>1, <1>10, <3>1
  <2>2. AllTxPipes' = AllTxPipes
    BY DEF AllTxPipes, Characteristics, TxPipes
  <2>3. QED
    BY <1>2, <1>7, <1>10, <1>15, <2>1, <2>2 DEF DriverInv
<1>17. ComingInv'
  BY <1>3, <1>15 DEF ComingInv
<1>18. chip'.mode = "connected" => ~left
  <2>1. IsDisconnected(e) => Starter(e)
    BY DEF IsDisconnected, Starter
  <2>2. QED
    BY <1>4, <1>6, <2>1 DEF Turn
<1>19. RoomInv'
  <2> SUFFICES ASSUME chip'.mode = "connected"
               PROVE  /\ Len(sending) = 1 => Len(out'.tx) <= 2
                      /\ Len(sending) = 2 => Len(out'.tx) <= 1 /\ (out'.credit > 0 => out'.tx = << >>)
    BY <1>3 DEF RoomInv
  <2>1. /\ Len(out.tx) \in Nat /\ Len(R.tx) \in Nat
        /\ out.tx = << >> => Len(R.tx) = 0
        /\ out.tx # << >> => Len(R.tx) = Len(out.tx) - 1
    BY <1>4, RestFacts, QueueFacts
  <2>2. /\ Len(sending) = 1 => Len(out.tx) <= 2
        /\ Len(sending) = 2 => Len(out.tx) <= 1
    BY <1>1, <1>2 DEF RoomInv
  <2>3. Len(out'.tx) <= Len(R.tx) + 1 /\ Len(out'.tx) \in Nat
    BY <1>10
  <2>4. Len(sending) = 1 => Len(out'.tx) <= 2
    BY <2>1, <2>2, <2>3
  <2>5. Len(sending) = 2 => Len(out'.tx) <= 1 /\ Len(R.tx) = 0
    BY <2>1, <2>2, <2>3
  <2>6. ASSUME Len(sending) = 2, out'.credit > 0 PROVE out'.tx = << >>
    <3>1. out.credit = 0
      <4>1. sending # << >>
        BY <2>6, NoneOwing
      <4>2. QED
        BY <1>3, <4>1
    <3>2. came \/ returns
      BY <1>10, <1>18, <2>6, <3>1
    <3>3. out'.tx = R.tx /\ IsQueue(R.tx)
      BY <1>4, <1>10, <3>2 DEF OutShape
    <3>4. QED
      BY <2>5, <2>6, <3>3, EmptyQueue
  <2>7. QED
    BY <2>4, <2>5, <2>6
<1>20. BalanceInv'
  <2> SUFFICES ASSUME use = "typing", chip.mode = "connected"
               PROVE  out'.credit + Len(queued') + Len(taken') + Returned(events') <= Credits
    BY <1>2, <1>3 DEF BalanceInv, Live
  <2>1. /\ Len(queued') \in Nat /\ Len(taken') \in Nat /\ Returned(AfterCommand) \in Nat
        /\ Len(queued) \in Nat /\ Len(taken) \in Nat /\ Returned(events) \in Nat
    BY <1>1, <1>2, <1>4, CountFacts, QueueFacts DEF TypingShape, PacketQueue
  <2>2. CASE came
    <3>1. /\ out.tx = << >> /\ taken = << >> /\ \A l \in DOMAIN events : ~Returns(events[l])
      BY <1>1, <1>6, <2>2 DEF ComingInv
    <3>2. queued = << >>
      <4>1. PICK f \in [1 .. Len(queued) -> DOMAIN out.tx] : TRUE
        BY <1>1 DEF CarriedInv, Carried
      <4>2. DOMAIN out.tx = {}
        BY <1>4, <3>1, NoneOwing, QueueFacts
      <4>3. Len(queued) = 0
        <5>1. \A n \in 1 .. Len(queued) : FALSE
          BY <4>1, <4>2
        <5>2. Len(queued) > 0 => 1 \in 1 .. Len(queued)
          BY <2>1
        <5>3. QED
          BY <2>1, <5>1, <5>2
      <4>4. QED
        BY <1>1, <4>3, EmptyQueue DEF TypingShape, PacketQueue
    <3>3. Len(queued') = 0 /\ Len(taken') = 0
      BY <1>2, <3>1, <3>2, NoneOwing
    <3>4. Returned(events') = 0
      <4>1. events' = Rest(events)
        BY <1>4, <2>2, <3>1
      <4>2. Returned(events) = 0
        BY <1>4, <3>1, CountFacts
      <4>3. Returned(Rest(events)) = IF Returns(events[1]) THEN Returned(events) - 1 ELSE Returned(events)
        BY <1>4, <2>2, CountFacts
      <4>4. ~Returns(events[1])
        BY <1>6, <2>2, <3>1
      <4>5. QED
        BY <4>1, <4>2, <4>3, <4>4
    <3>5. out'.credit = Credits
      BY <1>10, <2>2
    <3>6. QED
      BY <1>1, <3>3, <3>4, <3>5
  <2>3. CASE ~came
    <3>1. \A k \in DOMAIN events : ~IsConnected(events[k])
      <4> SUFFICES ASSUME NEW k \in DOMAIN events, IsConnected(events[k]) PROVE FALSE
        OBVIOUS
      <4>1. k = 1
        BY <1>1 DEF ComingInv
      <4>2. events # << >>
        <5>1. DOMAIN << >> = {}
          BY NoneOwing, QueueFacts DEF PacketQueue
        <5>2. QED
          BY <5>1
      <4>3. QED
        BY <1>6, <2>3, <4>1, <4>2
    <3>2. out.credit + Len(queued) + Len(taken) + Returned(events) <= Credits
      BY <1>1, <3>1 DEF BalanceInv, Live
    <3>3. Len(queued') + Len(taken') + Returned(AfterCommand)
            = Len(queued) + Len(taken) + Returned(events)
      BY <1>2
    <3>4. out.credit + Len(queued') + Len(taken') + Returned(AfterCommand) <= Credits
      BY <1>1, <2>1, <3>2, <3>3
    <3>5. ~left
      BY <1>2, <1>18
    <3>6. CASE returns
      <4>1. Returned(AfterCommand) \in Nat /\ Returned(events') = Returned(AfterCommand) - 1
        BY <1>4, <1>6, <3>6, CountFacts
      <4>2. Returned(events') \in Nat
        <5>1. IsQueue(events')
          BY <1>4, <3>6, RestFacts
        <5>2. QED
          BY <5>1, CountFacts
      <4>3. out.credit + 1 <= 255
        <5>1. out.credit \in Nat /\ Credits \in Nat /\ Credits <= 255
          BY <1>1
        <5>2. Returned(AfterCommand) >= 1
          BY <4>1, <4>2
        <5>3. QED
          BY <2>1, <3>4, <5>1, <5>2
      <4>4. out'.credit = out.credit + 1
        <5>1. out'.credit = (out.credit + 1) % 256
          BY <1>10, <2>3, <3>5, <3>6
        <5>2. QED
          BY <1>1, <4>3, <5>1
      <4>5. QED
        BY <1>1, <2>1, <3>4, <4>1, <4>2, <4>4
    <3>7. CASE ~returns
      <4>1. out'.credit = out.credit
        BY <1>10, <2>3, <3>5, <3>7
      <4>2. Returned(events') = Returned(AfterCommand)
        <5>1. CASE events = << >>
          BY <1>4, <5>1
        <5>2. CASE events # << >>
          <6>1. events' = Rest(AfterCommand) /\ ~Returns(AfterCommand[1])
            BY <1>4, <1>6, <3>7, <5>2
          <6>2. QED
            BY <1>4, <5>2, <6>1, CountFacts
        <5>3. QED
          BY <5>1, <5>2
      <4>3. QED
        BY <3>4, <4>1, <4>2
    <3>8. QED
      BY <3>6, <3>7
  <2>4. QED
    BY <2>2, <2>3
<1>21. ToldInv'
  <2>1. \A j : OpenTo(j)' <=> OpenTo(j)
    BY <1>2 DEF OpenTo, Pipe
  <2>2. told \subseteq Hids /\ (\A i \in told : OpenTo(i))
        /\ \A k \in DOMAIN queued : queued[k].told => OpenTo(queued[k].hid)
    BY <1>1 DEF ToldInv
  <2>3. \A k \in DOMAIN queued' : queued'[k].told => OpenTo(queued'[k].hid)
    BY <1>2, <2>2
  <2>4. QED
    BY <1>3, <1>11, <2>1, <2>2, <2>3 DEF ToldInv
<1>22. OwedInv'
  BY <1>1, <1>2, <1>3, <1>11 DEF OwedInv
<1>23. LatestInv'
  BY <1>1, <1>2, <1>3 DEF LatestInv
<1>24. QED
  BY <1>12, <1>13, <1>14, <1>16, <1>17, <1>19, <1>20, <1>21, <1>22, <1>23 DEF KeysInv

(* Nothing happens.                                                        *)
LEMMA SameKeys == KeysInv /\ UNCHANGED hidVars => KeysInv'
<1> SUFFICES ASSUME KeysInv, UNCHANGED hidVars PROVE KeysInv'
  OBVIOUS
<1>1. /\ UNCHANGED <<out, txOpen, chip, events, use, kinds, device, sending, queued, taken,
                     told, seen, owed, held>>
      /\ Hids' = Hids
  BY DEF hidVars, vars, typing, Hids
<1>2. \A i : Pipe(i)' = Pipe(i)
  BY DEF Pipe
<1>3. DevicesInv' /\ TypingShape' /\ SendingInv'
  BY <1>1 DEF KeysInv, DevicesInv, TypingShape, PacketQueue, PacketShape, SendingInv
<1>4. DriverInv' /\ ComingInv' /\ BalanceInv' /\ RoomInv' /\ ToldInv'
  BY <1>1, <1>2 DEF KeysInv, DriverInv, ComingInv, BalanceInv, Live, RoomInv, ToldInv, OpenTo
<1>5. CarriedInv' /\ OwedInv' /\ LatestInv'
  BY <1>1 DEF KeysInv, CarriedInv, OwedInv, LatestInv
<1>6. QED
  BY <1>3, <1>4, <1>5 DEF KeysInv

(* Every step.                                                             *)
LEMMA StepKeys ==
  ASSUME CallingHandlers = {}, Patient, KeysOK, HidTables
  PROVE  KeysInv /\ StoreInv /\ [HidNext]_hidVars => KeysInv'
<1> SUFFICES ASSUME KeysInv, StoreInv, [HidNext]_hidVars PROVE KeysInv'
  OBVIOUS
<1>1. CASE UNCHANGED hidVars
  BY <1>1, SameKeys
<1>2. CASE sendData
  BY <1>2, SendKeys
<1>3. CASE Sketch
  BY <1>3, SketchKeys
<1>4. CASE HidPoll
  BY <1>4, PollKeys
<1>5. CASE Host
  <2>1. CASE HostConnects
    BY <2>1, ConnectsKeys
  <2>2. CASE HostSetsPipes
    BY <2>2, SetsPipesKeys
  <2>3. CASE HostReceives
    BY <2>3, ReceivesKeys
  <2>4. CASE HostLeaves
    BY <2>4, LeavesKeys
  <2>5. CASE HostBonds
    BY <2>5, BondsKeys
  <2>6. CASE PowerLost
    BY <2>6, RestartKeys DEF PowerLost
  <2>7. CASE PowerLostSaving
    BY <2>7, RestartKeys DEF PowerLostSaving
  <2>8. QED
    BY <1>5, <2>1, <2>2, <2>3, <2>4, <2>5, <2>6, <2>7 DEF Host
<1>6. QED
  BY <1>1, <1>2, <1>3, <1>4, <1>5 DEF HidNext

LEMMA KeysShown ==
  ASSUME HidTables, IdOffset \in 0 .. 255, KeysInv
  PROVE  KeysReported
<1> SUFFICES ASSUME NEW i \in Hids, Absent(queued, i), Absent(taken, i)
             PROVE  /\ owed[i] = 0
                    /\ i \in told /\ sending = << >> =>
                         Attributed(i) /\ Read(kinds[i], seen[i]) = held[i]
  BY DEF KeysReported, Absent
<1>1. TypingShape /\ OwedInv /\ LatestInv /\ DevicesInv /\ PacketQueue(queued) /\ PacketQueue(taken)
  BY DEF KeysInv, TypingShape
<1>2. owed[i] = 0
  <2>1. (\A k \in DOMAIN queued : ~Owes(queued[k], i)) /\ \A k \in DOMAIN taken : ~Owes(taken[k], i)
    BY DEF Absent, Owes
  <2>2. Owing(queued, i) = 0 /\ Owing(taken, i) = 0
    BY <1>1, <2>1, OwingFacts DEF PacketQueue
  <2>3. QED
    BY <1>1, <2>2 DEF OwedInv
<1>3. ASSUME i \in told, sending = << >>
      PROVE  Attributed(i) /\ Read(kinds[i], seen[i]) = held[i]
  <2>1. Attributed(i)
    BY <1>1, AttributedAlways, HidPipes
  <2>2. seen[i] = device[i]
    <3>1. LatestIn(queued, taken, seen[i], device[i], i)
      BY <1>1, <1>3 DEF LatestInv
    <3>2. ~LastIs(queued, i, device[i]) /\ ~LastIs(taken, i, device[i])
      BY DEF Absent, LastIs
    <3>3. QED
      BY <3>1, <3>2 DEF LatestIn
  <2>3. Read(kinds[i], device[i]) = held[i]
    <3>1. DeviceOK(kinds[i], device[i], held[i])
      BY <1>1 DEF DevicesInv
    <3>2. kinds[i] \in {"keyboard", "mouse", "multimedia", "systemControl"}
      <4>1. kinds[i] \in Kinds
        BY <1>1, HidPipes, MapKinds
      <4>2. QED
        BY <4>1 DEF Kinds
    <3>3. CASE kinds[i] = "keyboard"
      BY <3>1, <3>3 DEF DeviceOK
    <3>4. CASE kinds[i] = "mouse"
      <4>1. KeysDescribed("mouse") = 0
        BY DEF KeysDescribed
      <4>2. QED
        BY <3>1, <3>4, <4>1 DEF DeviceOK, Read, Usage
    <3>5. CASE kinds[i] \in {"multimedia", "systemControl"}
      <4>1. KeysDescribed(kinds[i]) = 1
        BY <3>5 DEF KeysDescribed
      <4>2. device[i].bits = {} /\ device[i].bytes[1] = 0 /\ held[i] = {}
        BY <3>1, <3>5 DEF DeviceOK, Report
      <4>3. Usage(kinds[i], device[i].bytes[1]) = 0
        <5>1. 0 % 4 = 0
          OBVIOUS
        <5>2. QED
          BY <4>2, <5>1 DEF Usage
      <4>4. {<<"key", Usage(kinds[i], device[i].bytes[n])>> : n \in 1 .. 1} = {<<"key", 0>>}
        BY <4>3
      <4>5. QED
        BY <4>1, <4>2, <4>4 DEF Read
    <3>6. QED
      BY <3>2, <3>3, <3>4, <3>5
  <2>4. QED
    BY <2>1, <2>2, <2>3
<1>4. QED
  BY <1>2, <1>3

(* Once the reports of a HID that were queued for the chip or taken by it  *)
(* have been seen or given up, nothing is owed to the host, and if all     *)
(* that was sent was told to a listening host, it finds the device by its  *)
(* id in the report map and sees pressed just the keys and buttons that    *)
(* the sketch holds down: for any HIDs whose descriptors fit the report    *)
(* map, any number of buffers, and links that come and go.  That is of a   *)
(* sketch whose event handlers call nothing and which polls until tx is    *)
(* empty before it calls again; else a report can be one that tx has no    *)
(* room for.                                                               *)
THEOREM KeysReportedAlways ==
  ASSUME CallingHandlers = {}, Patient, KeysOK, HidTables, IdOffset \in 0 .. 255
  PROVE  HidSpec => []KeysReported
<1> DEFINE Inv == (StoreInv \/ saved = Half) /\ KeysInv
<1>1. HidInit => Inv
  BY InitStore, InitKeys
<1>2. Inv /\ [HidNext]_hidVars => Inv'
  <2> SUFFICES ASSUME Inv, [HidNext]_hidVars PROVE Inv'
    OBVIOUS
  <2>1. CASE StoreInv
    BY <2>1, StepStore, StepKeys
  <2>2. CASE saved = Half
    <3>1. UNCHANGED hidVars
      BY <2>2 DEF HidNext, Ended
    <3>2. saved' = Half
      BY <2>2, <3>1 DEF hidVars, storing, Half
    <3>3. QED
      BY <3>1, <3>2, SameKeys
  <2>3. QED
    BY <2>1, <2>2
<1>3. Inv => KeysReported
  BY KeysShown
<1> HIDE DEF Inv
<1>4. QED
  BY <1>1, <1>2, <1>3, PTL DEF HidSpec
==============================================================================
