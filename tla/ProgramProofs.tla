---------------------------- MODULE ProgramProofs ----------------------------
(***************************************************************************)
(* begin() for any sketch: it returns only when the nRF8001 has taken      *)
(* every setup message, and writes only where it allocated.  The calls of  *)
(* lib_aci after it: commands and events are read as they were written.    *)
(***************************************************************************)
EXTENDS Program, FiniteSetTheorems, TLAPS

(* The walks of the two drivers and what they are after each step.         *)
Locals == INSTANCE Iteration WITH Step <- AttributeTold
Values == INSTANCE Iteration WITH Step <- ChunkTold
Members == INSTANCE Iteration WITH Step <- RemotePipeInfo
Remotes == INSTANCE Iteration WITH Step <- RemoteAttributeTold
LocalPipes == INSTANCE Iteration WITH Step <- LocalPipeTold
RemotePipes == INSTANCE Iteration WITH Step <- RemotePipeTold
UuidList == INSTANCE Iteration WITH Step <- UuidTold

(* A sequence of some elements or other.                                   *)
IsQueue(s) == \E S : s \in Seq(S)

LEMMA QueueFacts ==
  ASSUME NEW s, IsQueue(s)
  PROVE  Len(s) \in Nat /\ DOMAIN s = 1 .. Len(s)
BY DEF IsQueue

LEMMA ElementFacts ==
  ASSUME NEW S, NEW s \in Seq(S), NEW k \in 1 .. Len(s)
  PROVE  s[k] \in S
OBVIOUS

LEMMA AppendFacts ==
  ASSUME NEW s, NEW e, IsQueue(s)
  PROVE  /\ IsQueue(Append(s, e))
         /\ DOMAIN Append(s, e) = 1 .. Len(s) + 1
         /\ Len(Append(s, e)) = Len(s) + 1
         /\ \A i \in 1 .. Len(s) : Append(s, e)[i] = s[i]
         /\ Append(s, e)[Len(s) + 1] = e
<1>1. PICK S : s \in Seq(S)
  BY DEF IsQueue
<1> DEFINE T == S \cup {e}
<1>2. s \in Seq(T) /\ e \in T
  BY <1>1
<1>3. Append(s, e) \in Seq(T)
  BY <1>2
<1>4. QED
  BY <1>2, <1>3 DEF IsQueue

LEMMA EmptyFacts == IsQueue(<< >>) /\ Len(<< >>) = 0
<1>1. << >> \in Seq({})
  OBVIOUS
<1>2. QED
  BY <1>1 DEF IsQueue

------------------------------------------------------------------------------
(* What a walk has at any time, and the tables it fills.                   *)
Fields == {"messages", "offset", "handle", "pipe", "customUuid", "locals", "remotes", "localSlots"}

WalkShape(w) ==
  /\ DOMAIN w = Fields
  /\ IsQueue(w.messages) /\ IsQueue(w.locals) /\ IsQueue(w.remotes)

SameTables(v, w) ==
  v.locals = w.locals /\ v.remotes = w.remotes /\ v.localSlots = w.localSlots

(* A step that only tells the chip something.                              *)
OnlyTells(v, w) == WalkShape(v) /\ SameTables(v, w)

LEMMA OnlyTellsTwice ==
  ASSUME NEW u, NEW v, NEW w, OnlyTells(v, w), OnlyTells(u, v)
  PROVE  OnlyTells(u, w)
BY DEF OnlyTells, SameTables

LEMMA ToldFacts ==
  ASSUME NEW w, WalkShape(w), NEW target, NEW length, NEW says
  PROVE  LET v == Told(w, target, length, says)
         IN  /\ OnlyTells(v, w)
             /\ \E m : v.messages = Append(w.messages, m) /\ m.target = target
<1> DEFINE m == Base(target, w.offset[target], length, says)
           v == Told(w, target, length, says)
<1>1. DOMAIN v = Fields /\ SameTables(v, w)
  BY DEF Told, WalkShape, Fields, SameTables
<1>2. v.messages = Append(w.messages, m)
  BY DEF Told, WalkShape, Fields
<1>3. m.target = target
  BY DEF Base
<1> HIDE DEF m, v
<1>4. IsQueue(v.messages)
  BY <1>2, AppendFacts DEF WalkShape
<1>5. OnlyTells(v, w)
  BY <1>1, <1>4 DEF WalkShape, SameTables, OnlyTells
<1>6. QED
  BY <1>2, <1>3, <1>5 DEF v

LEMMA HandleMoved ==
  ASSUME NEW w, WalkShape(w), NEW n
  PROVE  OnlyTells([w EXCEPT !.handle = n], w)
BY DEF WalkShape, Fields, SameTables, OnlyTells

LEMMA CountedFacts ==
  ASSUME NEW w, WalkShape(w), NEW a
  PROVE  OnlyTells(Counted(w, a), w)
BY DEF WalkShape, Fields, SameTables, OnlyTells, Counted

(* A value takes no message, or several.                                   *)
LEMMA ValueFacts ==
  ASSUME NEW w, WalkShape(w), NEW size \in Nat
  PROVE  OnlyTells(ValueTold(w, size), w)
<1> DEFINE n == Chunks(size)
           f == Values!Iterated(w, size, n)
           T == {k \in Nat : k <= n => OnlyTells(f[k], w)}
<1>1. n \in Nat
  BY DEF Chunks, MAX_ATTRIBUTE_VALUE_PER_SETUP_MSG
<1>2. ValueTold(w, size) = f[n]
  BY DEF ValueTold, Values!Iterated
<1> HIDE DEF n
<1>3. f[0] = w /\ \A k \in 1 .. n : f[k] = ChunkTold(f[k - 1], size, k)
  BY <1>1, Values!Iterates
<1> HIDE DEF f
<1>4. 0 \in T
  BY <1>3 DEF OnlyTells, SameTables
<1>5. ASSUME NEW k \in Nat, k \in T PROVE k + 1 \in T
  <2> SUFFICES ASSUME k + 1 <= n PROVE OnlyTells(f[k + 1], w)
    OBVIOUS
  <2>1. f[k + 1] = ChunkTold(f[k], size, k + 1)
    BY <1>1, <1>3
  <2>2. OnlyTells(f[k], w)
    BY <1>1, <1>5
  <2>3. OnlyTells(ChunkTold(f[k], size, k + 1), f[k])
    BY <2>2, ToldFacts DEF ChunkTold, OnlyTells
  <2>4. QED
    BY <2>1, <2>2, <2>3, OnlyTellsTwice
<1> HIDE DEF T
<1>6. \A k \in Nat : k \in T
  BY <1>4, <1>5, Values!SetInduction
<1>7. QED
  BY <1>1, <1>2, <1>6 DEF T

LEMMA ServiceFacts ==
  ASSUME NEW w, WalkShape(w), NEW a
  PROVE  OnlyTells(ServiceTold(w, a), w)
<1> DEFINE v == [w EXCEPT !.handle = @ + 1]
<1>1. OnlyTells(v, w)
  BY HandleMoved
<1> HIDE DEF v
<1>2. OnlyTells(Told(v, "gatt", 12 + a.uuidLength, [what |-> "service", handle |-> w.handle]), v)
  BY <1>1, ToldFacts DEF OnlyTells
<1>3. QED
  BY <1>1, <1>2, OnlyTellsTwice DEF ServiceTold, v

LEMMA DescriptorFacts ==
  ASSUME NEW w, WalkShape(w), NEW a, a.size \in Nat
  PROVE  OnlyTells(DescriptorTold(w, a), w)
<1> DEFINE v == [w EXCEPT !.handle = @ + 1]
           u == Told(v, "gatt", 12, [what |-> "descriptor", handle |-> w.handle])
<1>1. OnlyTells(v, w)
  BY HandleMoved
<1> HIDE DEF v
<1>2. OnlyTells(u, v)
  BY <1>1, ToldFacts DEF OnlyTells
<1>3. DescriptorTold(w, a) = ValueTold(u, a.size)
  BY DEF DescriptorTold, v
<1> HIDE DEF u
<1>4. OnlyTells(ValueTold(u, a.size), u)
  BY <1>2, ValueFacts DEF OnlyTells
<1>5. QED
  BY <1>1, <1>2, <1>3, <1>4, OnlyTellsTwice

LEMMA ConfigurationFacts ==
  ASSUME NEW w, WalkShape(w), NEW a
  PROVE  OnlyTells(ConfigurationTold(w, a), w)
<1> DEFINE v == [w EXCEPT !.handle = @ + 1]
           u == Told(v, "gatt", 14, [what |-> "configuration", handle |-> w.handle])
<1>1. OnlyTells(v, w)
  BY HandleMoved
<1> HIDE DEF v
<1>2. OnlyTells(u, v)
  BY <1>1, ToldFacts DEF OnlyTells
<1>3. ConfigurationTold(w, a) = IF ~HasConfiguration(a) THEN w ELSE u
  BY DEF ConfigurationTold, v
<1> HIDE DEF u
<1>4. OnlyTells(w, w)
  BY DEF OnlyTells, SameTables
<1>5. QED
  BY <1>1, <1>2, <1>3, <1>4, OnlyTellsTwice

LEMMA MaxPair ==
  ASSUME NEW a \in Nat, NEW b \in Nat
  PROVE  Max({a, b}) = IF a >= b THEN a ELSE b
<1> DEFINE M == IF a >= b THEN a ELSE b
<1>1. \A x \in {a, b} : (\A y \in {a, b} : x >= y) <=> x = M
  OBVIOUS
<1>2. M \in {a, b}
  OBVIOUS
<1> HIDE DEF M
<1>3. (CHOOSE x \in {a, b} : \A y \in {a, b} : x >= y) = M
  BY <1>1, <1>2
<1>4. QED
  BY <1>3 DEF M, Max

LEMMA CharacteristicFacts ==
  ASSUME NEW w, WalkShape(w), NEW a, a.size \in Nat, NEW i
  PROVE  LET v == CharacteristicTold(w, a, i)
         IN  /\ WalkShape(v) /\ v.remotes = w.remotes
             /\ v.localSlots = Max({w.localSlots, Len(w.locals) + 1})
             /\ \E info : v.locals = IF a.properties = {} THEN w.locals ELSE Append(w.locals, info)
<1> DEFINE info == LocalPipeInfo(w, a, i)
           moved == [w EXCEPT !.handle = @ + 2]
           declared == Told(moved, "gatt", 15 + a.uuidLength,
                               [what |-> "characteristic", handle |-> w.handle,
                                valueHandle |-> info.valueHandle])
           typed == Told(declared, "gatt", 12, [what |-> "valueAttribute", handle |-> info.valueHandle])
           valued == ValueTold(typed, a.size)
           told == ConfigurationTold(valued, a)
           v == CharacteristicTold(w, a, i)
<1>1. v = [told EXCEPT !.pipe = @ + Cardinality(DOMAIN info.pipes),
                       !.localSlots = Max({@, Len(w.locals) + 1}),
                       !.locals = IF a.properties = {} THEN @ ELSE Append(@, info)]
  BY DEF CharacteristicTold
<1> HIDE DEF info, v
<1>2. OnlyTells(moved, w)
  BY HandleMoved
<1> HIDE DEF moved
<1>3. OnlyTells(declared, moved)
  BY <1>2, ToldFacts DEF OnlyTells
<1> HIDE DEF declared
<1>4. OnlyTells(typed, declared)
  BY <1>3, ToldFacts DEF OnlyTells
<1> HIDE DEF typed
<1>5. OnlyTells(valued, typed)
  BY <1>4, ValueFacts DEF OnlyTells
<1> HIDE DEF valued
<1>6. OnlyTells(told, valued)
  BY <1>5, ConfigurationFacts DEF OnlyTells
<1>7. OnlyTells(told, w)
  BY <1>2, <1>3, <1>4, <1>5, <1>6, OnlyTellsTwice
<1> HIDE DEF told
<1>8. /\ DOMAIN v = Fields /\ v.messages = told.messages /\ v.remotes = told.remotes
      /\ v.localSlots = Max({told.localSlots, Len(w.locals) + 1})
      /\ v.locals = IF a.properties = {} THEN told.locals ELSE Append(told.locals, info)
  BY <1>1, <1>7 DEF OnlyTells, WalkShape, Fields
<1>9. IsQueue(v.locals)
  BY <1>7, <1>8, AppendFacts DEF OnlyTells, WalkShape
<1>10. QED
  BY <1>7, <1>8, <1>9 DEF OnlyTells, WalkShape, SameTables, v

------------------------------------------------------------------------------
(* How many of the first n numbers a set has.                              *)
UpTo(S, n) == {i \in 1 .. n : i \in S}

LEMMA CountedUpTo ==
  ASSUME NEW S
  PROVE  /\ Cardinality(UpTo(S, 0)) = 0
         /\ \A n \in Nat :
              /\ Cardinality(UpTo(S, n)) \in Nat
              /\ Cardinality(UpTo(S, n + 1)) =
                   IF n + 1 \in S THEN Cardinality(UpTo(S, n)) + 1 ELSE Cardinality(UpTo(S, n))
<1>1. \A n \in Nat : IsFiniteSet(UpTo(S, n))
  <2>1. \A n \in Nat : IsFiniteSet(1 .. n) /\ UpTo(S, n) \subseteq 1 .. n
    BY FS_Interval DEF UpTo
  <2>2. QED
    BY <2>1, FS_Subset
<1>2. UpTo(S, 0) = {}
  BY DEF UpTo
<1>3. ASSUME NEW n \in Nat
      PROVE  /\ UpTo(S, n + 1) = IF n + 1 \in S THEN UpTo(S, n) \cup {n + 1} ELSE UpTo(S, n)
             /\ n + 1 \notin UpTo(S, n)
  BY DEF UpTo
<1>4. \A n \in Nat : Cardinality(UpTo(S, n)) \in Nat
  BY <1>1, FS_CardinalityType
<1>5. ASSUME NEW n \in Nat
      PROVE  Cardinality(UpTo(S, n + 1)) =
               IF n + 1 \in S THEN Cardinality(UpTo(S, n)) + 1 ELSE Cardinality(UpTo(S, n))
  <2>1. Cardinality(UpTo(S, n) \cup {n + 1}) = Cardinality(UpTo(S, n)) + 1
    BY <1>1, <1>3, FS_AddElement
  <2>2. QED
    BY <1>3, <2>1
<1>6. Cardinality(UpTo(S, 0)) = 0
  BY <1>2, FS_EmptySet
<1>7. QED
  BY <1>4, <1>5, <1>6

(* How many of the first n attributes of a list have pipes.                *)
PipedBefore(list, n) == Cardinality(UpTo({i \in Nat : Piped(list[i])}, n))

LEMMA PipedCounted ==
  ASSUME NEW list
  PROVE  /\ PipedBefore(list, 0) = 0
         /\ \A n \in Nat :
              /\ PipedBefore(list, n) \in Nat
              /\ PipedBefore(list, n + 1) =
                   IF Piped(list[n + 1]) THEN PipedBefore(list, n) + 1 ELSE PipedBefore(list, n)
<1> DEFINE S == {i \in Nat : Piped(list[i])}
<1>1. \A n \in Nat : n + 1 \in S <=> Piped(list[n + 1])
  OBVIOUS
<1>2. \A n : PipedBefore(list, n) = Cardinality(UpTo(S, n))
  BY DEF PipedBefore
<1> HIDE DEF S
<1>3. QED
  BY <1>1, <1>2, CountedUpTo

(* A slot for each local characteristic, when all of them have pipes.      *)
AllPiped(list) == \A i \in DOMAIN list : IsCharacteristic(list[i]) => list[i].properties # {}

LocalStep(v, w, a) ==
  /\ WalkShape(v) /\ v.remotes = w.remotes
  /\ ~IsCharacteristic(a) => SameTables(v, w)
  /\ IsCharacteristic(a) =>
       /\ v.localSlots = Max({w.localSlots, Len(w.locals) + 1})
       /\ \E info : v.locals = IF a.properties = {} THEN w.locals ELSE Append(w.locals, info)

LEMMA AttributeFacts ==
  \A w, list, i :
    WalkShape(w) /\ list[i].size \in Nat => LocalStep(AttributeTold(w, list, i), w, list[i])
<1> SUFFICES ASSUME NEW w, WalkShape(w), NEW list, NEW i, list[i].size \in Nat
             PROVE  LocalStep(AttributeTold(w, list, i), w, list[i])
  OBVIOUS
<1> DEFINE v == AttributeTold(w, list, i)
           a == list[i]
<1>1. CASE IsService(a)
  <2>1. v = ServiceTold(w, a) /\ ~IsCharacteristic(a)
    BY <1>1 DEF AttributeTold, IsService, IsCharacteristic
  <2> HIDE DEF v, a
  <2>2. OnlyTells(v, w)
    BY <2>1, ServiceFacts
  <2>3. QED
    BY <2>1, <2>2 DEF OnlyTells, SameTables, LocalStep, v, a
<1>2. CASE IsCharacteristic(a)
  <2>1. v = CharacteristicTold(w, a, i)
    BY <1>2 DEF AttributeTold, IsService, IsCharacteristic
  <2> HIDE DEF v, a
  <2>2. /\ WalkShape(v) /\ v.remotes = w.remotes
        /\ v.localSlots = Max({w.localSlots, Len(w.locals) + 1})
        /\ \E info : v.locals = IF a.properties = {} THEN w.locals ELSE Append(w.locals, info)
    BY <2>1, CharacteristicFacts DEF a
  <2>3. QED
    BY <1>2, <2>2 DEF LocalStep, v, a
<1>3. CASE ~IsService(a) /\ ~IsCharacteristic(a)
  <2>1. v = DescriptorTold(w, a)
    BY <1>3 DEF AttributeTold
  <2> HIDE DEF v, a
  <2>2. OnlyTells(v, w)
    BY <2>1, DescriptorFacts DEF a
  <2>3. QED
    BY <1>3, <2>2 DEF OnlyTells, SameTables, LocalStep, v, a
<1>4. QED
  BY <1>1, <1>2, <1>3

SlotPerPiped(w, list, n) ==
  Len(w.locals) = PipedBefore(list, n) /\ w.localSlots = Len(w.locals)

LEMMA LocalFacts ==
  ASSUME NEW w, WalkShape(w), w.locals = << >>, w.remotes = << >>, w.localSlots = 0,
         NEW list \in Seq(LocalAttributes)
  PROVE  LET v == LocalTold(w, list)
         IN  /\ WalkShape(v) /\ v.remotes = << >>
             /\ AllPiped(list) => SlotPerPiped(v, list, Len(list))
<1> DEFINE n == Len(list)
           f == Locals!Iterated(w, list, n)
           T == {i \in Nat : i <= n => /\ WalkShape(f[i]) /\ f[i].remotes = << >>
                                       /\ AllPiped(list) => SlotPerPiped(f[i], list, i)}
<1>1. n \in Nat /\ DOMAIN list = 1 .. n
  OBVIOUS
<1>2. LocalTold(w, list) = f[n]
  BY DEF LocalTold, Locals!Iterated
<1>3. \A i \in 1 .. n : list[i].size \in Nat
  <2>1. \A i \in 1 .. n : list[i] \in LocalAttributes
    OBVIOUS
  <2>2. \A a \in LocalAttributes : a.size \in Nat
    BY DEF LocalAttributes, Attributes
  <2>3. QED
    BY <2>1, <2>2
<1> HIDE DEF n
<1>4. f[0] = w /\ \A i \in 1 .. n : f[i] = AttributeTold(f[i - 1], list, i)
  BY <1>1, Locals!Iterates
<1> HIDE DEF f
<1>5. 0 \in T
  BY <1>4, PipedCounted, EmptyFacts DEF SlotPerPiped
<1>6. ASSUME NEW i \in Nat, i \in T PROVE i + 1 \in T
  <2> SUFFICES ASSUME i + 1 <= n
               PROVE  /\ WalkShape(f[i + 1]) /\ f[i + 1].remotes = << >>
                      /\ AllPiped(list) => SlotPerPiped(f[i + 1], list, i + 1)
    OBVIOUS
  <2>1. f[i + 1] = AttributeTold(f[i], list, i + 1) /\ i + 1 \in 1 .. n
    BY <1>1, <1>4
  <2>2. WalkShape(f[i]) /\ f[i].remotes = << >> /\ (AllPiped(list) => SlotPerPiped(f[i], list, i))
    BY <1>1, <1>6
  <2> HIDE DEF T
  <2>3. /\ WalkShape(f[i + 1]) /\ f[i + 1].remotes = << >>
        /\ ~IsCharacteristic(list[i + 1]) => SameTables(f[i + 1], f[i])
        /\ IsCharacteristic(list[i + 1]) =>
             /\ f[i + 1].localSlots = Max({f[i].localSlots, Len(f[i].locals) + 1})
             /\ \E info : f[i + 1].locals = IF list[i + 1].properties = {} THEN f[i].locals
                                            ELSE Append(f[i].locals, info)
    <3>1. list[i + 1].size \in Nat /\ WalkShape(f[i])
      BY <1>3, <2>1, <2>2
    <3>2. LocalStep(f[i + 1], f[i], list[i + 1])
      BY <2>1, <3>1, AttributeFacts
    <3>3. QED
      BY <2>2, <3>2 DEF LocalStep
  <2>4. ASSUME AllPiped(list) PROVE SlotPerPiped(f[i + 1], list, i + 1)
    <3>1. CASE ~IsCharacteristic(list[i + 1])
      <4>1. PipedBefore(list, i + 1) = PipedBefore(list, i)
        BY <3>1, PipedCounted DEF Piped
      <4>2. QED
        BY <2>2, <2>3, <2>4, <3>1, <4>1 DEF SlotPerPiped, SameTables
    <3>2. CASE IsCharacteristic(list[i + 1])
      <4>1. list[i + 1].properties # {}
        BY <1>1, <2>1, <2>4, <3>2 DEF AllPiped
      <4>2. PipedBefore(list, i + 1) = PipedBefore(list, i) + 1
        BY <3>2, <4>1, PipedCounted DEF Piped
      <4>3. PICK info : f[i + 1].locals = Append(f[i].locals, info)
        BY <2>3, <3>2, <4>1
      <4>4. Len(f[i + 1].locals) = Len(f[i].locals) + 1 /\ Len(f[i].locals) \in Nat
        BY <2>2, <4>3, AppendFacts, QueueFacts DEF WalkShape
      <4>5. f[i + 1].localSlots = Len(f[i].locals) + 1
        BY <2>2, <2>3, <2>4, <3>2, <4>4, MaxPair DEF SlotPerPiped
      <4>6. QED
        BY <2>2, <2>4, <4>2, <4>4, <4>5 DEF SlotPerPiped
    <3>3. QED
      BY <3>1, <3>2
  <2>5. QED
    BY <2>3, <2>4
<1> HIDE DEF T
<1>7. \A i \in Nat : i \in T
  BY <1>5, <1>6, Locals!SetInduction
<1>8. n \in T /\ n <= n
  BY <1>1, <1>7
<1>9. QED
  BY <1>2, <1>8 DEF T, n

(* The tables and the UUIDs are only told.                                 *)
LEMMA LocalPipesFacts ==
  ASSUME NEW w, WalkShape(w)
  PROVE  OnlyTells(LocalPipesTold(w), w)
<1> DEFINE n == Len(w.locals)
           f == LocalPipes!Iterated(w, w.locals, n)
           T == {k \in Nat : k <= n => OnlyTells(f[k], w)}
<1>1. n \in Nat
  BY QueueFacts DEF WalkShape
<1>2. LocalPipesTold(w) = f[n]
  BY DEF LocalPipesTold, LocalPipes!Iterated
<1> HIDE DEF n
<1>3. f[0] = w /\ \A k \in 1 .. n : f[k] = LocalPipeTold(f[k - 1], w.locals, k)
  BY <1>1, LocalPipes!Iterates
<1> HIDE DEF f
<1>4. 0 \in T
  BY <1>3 DEF OnlyTells, SameTables
<1>5. ASSUME NEW k \in Nat, k \in T PROVE k + 1 \in T
  <2> SUFFICES ASSUME k + 1 <= n PROVE OnlyTells(f[k + 1], w)
    OBVIOUS
  <2>1. f[k + 1] = LocalPipeTold(f[k], w.locals, k + 1)
    BY <1>1, <1>3
  <2>2. OnlyTells(f[k], w)
    BY <1>1, <1>5
  <2>3. OnlyTells(LocalPipeTold(f[k], w.locals, k + 1), f[k])
    BY <2>2, ToldFacts DEF LocalPipeTold, OnlyTells
  <2>4. QED
    BY <2>1, <2>2, <2>3, OnlyTellsTwice
<1> HIDE DEF T
<1>6. \A k \in Nat : k \in T
  BY <1>4, <1>5, LocalPipes!SetInduction
<1>7. QED
  BY <1>1, <1>2, <1>6 DEF T

LEMMA RemotePipesFacts ==
  ASSUME NEW w, WalkShape(w), NEW list
  PROVE  OnlyTells(RemotePipesTold(w, list), w)
<1> DEFINE n == Len(w.remotes)
           f == RemotePipes!Iterated(w, list, n)
           T == {k \in Nat : k <= n => OnlyTells(f[k], w)}
<1>1. n \in Nat
  BY QueueFacts DEF WalkShape
<1>2. RemotePipesTold(w, list) = f[n]
  BY DEF RemotePipesTold, RemotePipes!Iterated
<1> HIDE DEF n
<1>3. f[0] = w /\ \A k \in 1 .. n : f[k] = RemotePipeTold(f[k - 1], list, k)
  BY <1>1, RemotePipes!Iterates
<1> HIDE DEF f
<1>4. 0 \in T
  BY <1>3 DEF OnlyTells, SameTables
<1>5. ASSUME NEW k \in Nat, k \in T PROVE k + 1 \in T
  <2> SUFFICES ASSUME k + 1 <= n PROVE OnlyTells(f[k + 1], w)
    OBVIOUS
  <2> DEFINE info == f[k].remotes[k + 1]
             a == list[info.characteristic]
             u == Told(f[k], "pipes", 13,
                       [what |-> "remotePipes", attribute |-> info.characteristic,
                        pipes |-> info.pipes, uuid |-> UuidIndex(f[k], a)])
  <2>1. f[k + 1] = Counted(u, a)
    <3>1. f[k + 1] = RemotePipeTold(f[k], list, k + 1)
      BY <1>1, <1>3
    <3>2. RemotePipeTold(f[k], list, k + 1) = Counted(u, a)
      BY DEF RemotePipeTold
    <3>3. QED
      BY <3>1, <3>2
  <2>2. OnlyTells(f[k], w)
    BY <1>1, <1>5
  <2> HIDE DEF info, a
  <2>3. OnlyTells(u, f[k])
    BY <2>2, ToldFacts DEF OnlyTells
  <2> HIDE DEF u
  <2>4. OnlyTells(Counted(u, a), u)
    BY <2>3, CountedFacts DEF OnlyTells
  <2>5. QED
    BY <2>1, <2>2, <2>3, <2>4, OnlyTellsTwice
<1> HIDE DEF T
<1>6. \A k \in Nat : k \in T
  BY <1>4, <1>5, RemotePipes!SetInduction
<1>7. QED
  BY <1>1, <1>2, <1>6 DEF T

LEMMA UuidsFacts ==
  ASSUME NEW w, WalkShape(w), NEW list, Len(list) \in Nat
  PROVE  OnlyTells(UuidsTold(w, list), w)
<1> DEFINE n == Len(list)
           f == UuidList!Iterated(w, list, n)
           T == {k \in Nat : k <= n => OnlyTells(f[k], w)}
<1>1. n \in Nat
  OBVIOUS
<1>2. UuidsTold(w, list) = f[n]
  BY DEF UuidsTold, UuidList!Iterated
<1> HIDE DEF n
<1>3. f[0] = w /\ \A k \in 1 .. n : f[k] = UuidTold(f[k - 1], list, k)
  BY <1>1, UuidList!Iterates
<1> HIDE DEF f
<1>4. 0 \in T
  BY <1>3 DEF OnlyTells, SameTables
<1>5. ASSUME NEW k \in Nat, k \in T PROVE k + 1 \in T
  <2> SUFFICES ASSUME k + 1 <= n PROVE OnlyTells(f[k + 1], w)
    OBVIOUS
  <2>1. f[k + 1] = UuidTold(f[k], list, k + 1)
    BY <1>1, <1>3
  <2>2. OnlyTells(f[k], w)
    BY <1>1, <1>5
  <2>3. OnlyTells(UuidTold(f[k], list, k + 1), f[k])
    BY <2>2, ToldFacts DEF UuidTold, OnlyTells
  <2>4. QED
    BY <2>1, <2>2, <2>3, OnlyTellsTwice
<1> HIDE DEF T
<1>6. \A k \in Nat : k \in T
  BY <1>4, <1>5, UuidList!SetInduction
<1>7. QED
  BY <1>1, <1>2, <1>6 DEF T

------------------------------------------------------------------------------
LEMMA MinOfNaturals ==
  ASSUME NEW S, S \subseteq Nat, S # {}
  PROVE  Min(S) \in S /\ \A y \in S : Min(S) <= y
<1>1. \E x \in S : \A y \in S : x <= y
  <2> SUFFICES ASSUME \A x \in S : \E y \in S : ~(x <= y) PROVE FALSE
    OBVIOUS
  <2> DEFINE T == {n \in Nat : \A m \in 0 .. n : m \notin S}
  <2>1. 0 \in T
    OBVIOUS
  <2>2. ASSUME NEW n \in Nat, n \in T PROVE n + 1 \in T
    <3>1. n + 1 \notin S
      <4> SUFFICES ASSUME n + 1 \in S PROVE FALSE
        OBVIOUS
      <4>1. PICK y \in S : ~(n + 1 <= y)
        OBVIOUS
      <4>2. y \in 0 .. n
        BY <4>1
      <4>3. QED
        BY <2>2, <4>2
    <3>2. QED
      BY <2>2, <3>1
  <2> HIDE DEF T
  <2>3. \A n \in Nat : n \in T
    BY <2>1, <2>2, Values!SetInduction
  <2>4. PICK x : x \in S
    OBVIOUS
  <2>5. QED
    BY <2>3, <2>4 DEF T
<1>2. QED
  BY <1>1 DEF Min

(* The characteristics after a remote service are those up to the next     *)
(* attribute that is none.                                                 *)
LEMMA MembersFacts ==
  ASSUME NEW list, NEW i \in Nat, Len(list) \in Nat, i <= Len(list), DOMAIN list = 1 .. Len(list)
  PROVE  LET n == CharacteristicsOf(list, i).number
         IN  /\ n \in Nat /\ i + n <= Len(list)
             /\ \A j \in i + 1 .. i + n : IsCharacteristic(list[j])
<1> DEFINE after == {j \in i + 1 .. Len(list) : ~IsCharacteristic(list[j])} \cup {Len(list) + 1}
           m == Min(after)
<1>1. after \subseteq Nat /\ after # {} /\ Len(list) + 1 \in after
  OBVIOUS
<1>2. \A x \in after : x \in i + 1 .. Len(list) + 1
  OBVIOUS
<1>3. \A j \in i + 1 .. Len(list) : j \in after \/ IsCharacteristic(list[j])
  OBVIOUS
<1>4. CharacteristicsOf(list, i).number = m - i - 1
  BY DEF CharacteristicsOf
<1> HIDE DEF after
<1>5. m \in after /\ \A y \in after : m <= y
  BY <1>1, MinOfNaturals
<1> HIDE DEF m
<1>6. m \in i + 1 .. Len(list) + 1
  BY <1>2, <1>5
<1>7. ASSUME NEW j \in i + 1 .. m - 1 PROVE IsCharacteristic(list[j])
  <2>1. j \in i + 1 .. Len(list) /\ ~(m <= j)
    BY <1>6
  <2>2. QED
    BY <1>3, <1>5, <2>1
<1>8. QED
  BY <1>4, <1>6, <1>7

(* Each of them gets a record.                                             *)
RecordsFollow(v, w, i, k) ==
  /\ WalkShape(v) /\ v.locals = w.locals /\ v.localSlots = w.localSlots
  /\ Len(v.remotes) = Len(w.remotes) + k
  /\ \A j \in 1 .. Len(w.remotes) : v.remotes[j] = w.remotes[j]
  /\ \A j \in 1 .. k : v.remotes[Len(w.remotes) + j].characteristic = i + j

LEMMA RecordFacts ==
  ASSUME NEW v, NEW w, NEW members, NEW k \in Nat, WalkShape(w),
         RecordsFollow(v, w, members.service, k)
  PROVE  RecordsFollow(RemotePipeInfo(v, members, k + 1), w, members.service, k + 1)
<1> DEFINE info == [characteristic |-> members.service + (k + 1),
                    pipes |-> PipesFrom(RemoteOrder, members.list[members.service + (k + 1)].properties, v.pipe)]
           u == RemotePipeInfo(v, members, k + 1)
<1>1. info.characteristic = members.service + (k + 1)
  OBVIOUS
<1>2. u = [v EXCEPT !.remotes = Append(@, info), !.pipe = @ + Cardinality(DOMAIN info.pipes)]
  BY DEF RemotePipeInfo
<1> HIDE DEF info, u
<1>3. /\ DOMAIN u = Fields /\ u.messages = v.messages /\ u.locals = v.locals
      /\ u.localSlots = v.localSlots /\ u.remotes = Append(v.remotes, info)
  BY <1>2 DEF RecordsFollow, WalkShape, Fields
<1>4. IsQueue(v.remotes) /\ Len(w.remotes) \in Nat
  BY QueueFacts DEF RecordsFollow, WalkShape
<1>5. /\ IsQueue(u.remotes) /\ Len(u.remotes) = Len(v.remotes) + 1
      /\ \A j \in 1 .. Len(v.remotes) : u.remotes[j] = v.remotes[j]
      /\ u.remotes[Len(v.remotes) + 1] = info
  BY <1>3, <1>4, AppendFacts
<1>6. WalkShape(u) /\ u.locals = w.locals /\ u.localSlots = w.localSlots
  BY <1>3, <1>5 DEF RecordsFollow, WalkShape
<1>7. Len(v.remotes) = Len(w.remotes) + k
  BY DEF RecordsFollow
<1>8. Len(w.remotes) + (k + 1) = Len(v.remotes) + 1
  <2> DEFINE L == Len(w.remotes)
  <2>1. L \in Nat /\ Len(v.remotes) = L + k
    BY <1>4, <1>7
  <2> HIDE DEF L
  <2>2. L + (k + 1) = (L + k) + 1
    BY <2>1
  <2>3. QED
    BY <2>1, <2>2 DEF L
<1>9. \A j \in 1 .. Len(w.remotes) : u.remotes[j] = w.remotes[j]
  BY <1>4, <1>5, <1>7 DEF RecordsFollow
<1>10. \A j \in 1 .. k + 1 : u.remotes[Len(w.remotes) + j].characteristic = members.service + j
  <2> TAKE j \in 1 .. k + 1
  <2>1. CASE j = k + 1
    BY <1>1, <1>5, <1>8, <2>1
  <2>2. CASE j \in 1 .. k
    <3>1. Len(w.remotes) + j \in 1 .. Len(v.remotes)
      BY <1>4, <1>7, <2>2
    <3>2. v.remotes[Len(w.remotes) + j].characteristic = members.service + j
      BY <2>2 DEF RecordsFollow
    <3>3. QED
      BY <1>5, <3>1, <3>2
  <2>3. QED
    BY <2>1, <2>2
<1>11. Len(u.remotes) = Len(w.remotes) + (k + 1)
  BY <1>5, <1>8
<1>12. QED
  BY <1>6, <1>9, <1>10, <1>11 DEF RecordsFollow, u

LEMMA RecordsFacts ==
  ASSUME NEW w, WalkShape(w), NEW members, members.number \in Nat
  PROVE  RecordsFollow(RemotePipeInfos(w, members), w, members.service, members.number)
<1> DEFINE n == members.number
           f == Members!Iterated(w, members, n)
           T == {k \in Nat : k <= n => RecordsFollow(f[k], w, members.service, k)}
<1>1. n \in Nat
  OBVIOUS
<1>2. RemotePipeInfos(w, members) = f[n]
  BY DEF RemotePipeInfos, Members!Iterated
<1> HIDE DEF n
<1>3. f[0] = w /\ \A k \in 1 .. n : f[k] = RemotePipeInfo(f[k - 1], members, k)
  BY <1>1, Members!Iterates
<1> HIDE DEF f
<1>4. 0 \in T
  <2>1. Len(w.remotes) \in Nat
    BY QueueFacts DEF WalkShape
  <2>2. QED
    BY <1>3, <2>1 DEF RecordsFollow
<1>5. ASSUME NEW k \in Nat, k \in T PROVE k + 1 \in T
  <2> SUFFICES ASSUME k + 1 <= n PROVE RecordsFollow(f[k + 1], w, members.service, k + 1)
    OBVIOUS
  <2>1. f[k + 1] = RemotePipeInfo(f[k], members, k + 1)
    BY <1>1, <1>3
  <2>2. RecordsFollow(f[k], w, members.service, k)
    BY <1>1, <1>5
  <2> HIDE DEF T
  <2>3. RecordsFollow(RemotePipeInfo(f[k], members, k + 1), w, members.service, k + 1)
    BY <2>2, RecordFacts
  <2>4. QED
    BY <2>1, <2>3
<1> HIDE DEF T
<1>6. \A k \in Nat : k \in T
  BY <1>4, <1>5, Members!SetInduction
<1>7. QED
  BY <1>1, <1>2, <1>6 DEF T, n

(* The records of the remote characteristics, when the walk has come to    *)
(* attribute i: of different ones, in their order, and those ahead of the  *)
(* walk follow without a service in between.                               *)
RemoteRecords(w, list, i) ==
  /\ \A k \in 1 .. Len(w.remotes) :
       /\ w.remotes[k].characteristic \in 1 .. Len(list)
       /\ IsCharacteristic(list[w.remotes[k].characteristic])
       /\ \A j \in i + 1 .. w.remotes[k].characteristic : IsCharacteristic(list[j])
  /\ \A j, k \in 1 .. Len(w.remotes) :
       j < k => w.remotes[j].characteristic < w.remotes[k].characteristic

LEMMA ServiceRecords ==
  ASSUME NEW w, NEW v, NEW list, Len(list) \in Nat, NEW i \in Nat, NEW n \in Nat,
         WalkShape(w), RemoteRecords(w, list, i),
         ~IsCharacteristic(list[i + 1]), i + 1 + n <= Len(list),
         \A j \in i + 2 .. i + 1 + n : IsCharacteristic(list[j]),
         RecordsFollow(v, w, i + 1, n)
  PROVE  RemoteRecords(v, list, i + 1)
<1> DEFINE L == Len(w.remotes)
           c(k) == w.remotes[k].characteristic
           d(k) == v.remotes[k].characteristic
<1>1. L \in Nat /\ Len(v.remotes) = L + n
  BY QueueFacts DEF WalkShape, RecordsFollow
<1>2. \A k \in 1 .. L : d(k) = c(k)
  BY DEF RecordsFollow
<1>3. \A j \in 1 .. n : d(L + j) = (i + 1) + j
  BY DEF RecordsFollow
<1>4. \A k \in 1 .. L : c(k) \in 1 .. Len(list) /\ IsCharacteristic(list[c(k)])
  BY DEF RemoteRecords
<1>5. \A j, k \in 1 .. L : j < k => c(j) < c(k)
  BY DEF RemoteRecords
<1>6. \A k \in 1 .. L : c(k) <= i
  <2> SUFFICES ASSUME NEW k \in 1 .. L, ~(c(k) <= i) PROVE FALSE
    BY <1>4
  <2>1. c(k) \in Nat /\ i + 1 \in i + 1 .. c(k)
    BY <1>4
  <2>2. \A j \in i + 1 .. c(k) : IsCharacteristic(list[j])
    BY DEF RemoteRecords
  <2>3. QED
    BY <2>1, <2>2
<1> HIDE DEF c, d, L
<1>7. \A k \in L + 1 .. L + n : d(k) = (i + 1) + (k - L)
  <2> TAKE k \in L + 1 .. L + n
  <2>1. k - L \in 1 .. n /\ L + (k - L) = k
    BY <1>1
  <2>2. QED
    BY <1>3, <2>1
<1>8. \A k \in 1 .. L + n :
        d(k) \in 1 .. Len(list) /\ IsCharacteristic(list[d(k)])
          /\ \A j \in (i + 1) + 1 .. d(k) : IsCharacteristic(list[j])
  <2> TAKE k \in 1 .. L + n
  <2>1. CASE k \in 1 .. L
    <3>1. d(k) = c(k) /\ c(k) \in 1 .. Len(list) /\ c(k) <= i /\ IsCharacteristic(list[c(k)])
      BY <1>2, <1>4, <1>6, <2>1
    <3>2. (i + 1) + 1 .. d(k) = {}
      BY <3>1
    <3>3. QED
      BY <3>1, <3>2
  <2>2. CASE k \in L + 1 .. L + n
    <3>1. d(k) = (i + 1) + (k - L) /\ k - L \in 1 .. n
      BY <1>1, <1>7, <2>2
    <3>2. d(k) \in i + 2 .. i + 1 + n /\ d(k) \in 1 .. Len(list)
      BY <3>1
    <3>3. \A j \in (i + 1) + 1 .. d(k) : j \in i + 2 .. i + 1 + n
      BY <3>2
    <3>4. QED
      BY <3>2, <3>3
  <2>3. QED
    BY <1>1, <2>1, <2>2
<1>9. ASSUME NEW j \in 1 .. L + n, NEW k \in 1 .. L + n, j < k PROVE d(j) < d(k)
  <2>1. CASE k \in 1 .. L
    <3>1. j \in 1 .. L
      BY <1>1, <1>9, <2>1
    <3>2. QED
      BY <1>2, <1>5, <1>9, <2>1, <3>1
  <2>2. CASE k \in L + 1 .. L + n
    <3>1. d(k) = (i + 1) + (k - L) /\ k - L \in 1 .. n
      BY <1>1, <1>7, <2>2
    <3>2. CASE j \in 1 .. L
      <4>1. d(j) \in Nat /\ d(j) <= i
        BY <1>2, <1>4, <1>6, <3>2
      <4>2. QED
        BY <3>1, <4>1
    <3>3. CASE j \in L + 1 .. L + n
      <4>1. d(j) = (i + 1) + (j - L)
        BY <1>7, <3>3
      <4>2. QED
        BY <1>1, <1>9, <3>1, <4>1
    <3>4. QED
      BY <1>1, <3>2, <3>3
  <2>3. QED
    BY <1>1, <2>1, <2>2
<1>10. QED
  BY <1>1, <1>8, <1>9 DEF RemoteRecords, d, L

LEMMA RemoteServiceFacts ==
  ASSUME NEW w, WalkShape(w), NEW list, NEW i,
         CharacteristicsOf(list, i).number \in Nat
  PROVE  LET v == RemoteServiceTold(w, list, i)
         IN  RecordsFollow(v, w, i, CharacteristicsOf(list, i).number)
<1> DEFINE members == CharacteristicsOf(list, i)
           r == RemotePipeInfos(w, members)
           says == [what |-> "remoteService", attribute |-> i, uuid |-> UuidIndex(w, list[i]),
                    pipesBefore |-> w.pipe - 1, characteristics |-> members.number]
           u == Told(r, "services", 8, says)
           v == RemoteServiceTold(w, list, i)
<1>1. members.service = i
  BY DEF CharacteristicsOf
<1>2. v = Counted(u, list[i])
  BY DEF RemoteServiceTold
<1> HIDE DEF members, says, v
<1>3. RecordsFollow(r, w, i, members.number)
  BY <1>1, RecordsFacts DEF members
<1> HIDE DEF r
<1>4. OnlyTells(u, r)
  BY <1>3, ToldFacts DEF RecordsFollow
<1> HIDE DEF u
<1>5. OnlyTells(v, u)
  BY <1>2, <1>4, CountedFacts DEF OnlyTells
<1>6. OnlyTells(v, r)
  BY <1>4, <1>5, OnlyTellsTwice
<1>7. QED
  BY <1>3, <1>6 DEF RecordsFollow, OnlyTells, SameTables, members, v

(* There is a record for no more of the remote characteristics than there  *)
(* are.                                                                    *)
RemotesFollow(v, w, list, i) ==
  /\ WalkShape(v) /\ v.locals = w.locals /\ v.localSlots = w.localSlots
  /\ RemoteRecords(v, list, i)

LEMMA RemoteAttributeFacts ==
  ASSUME NEW u, NEW w, NEW list \in Seq(RemoteAttributes), NEW i \in Nat, i + 1 <= Len(list),
         RemotesFollow(u, w, list, i)
  PROVE  RemotesFollow(RemoteAttributeTold(u, list, i + 1), w, list, i + 1)
<1> DEFINE v == RemoteAttributeTold(u, list, i + 1)
<1>1. Len(list) \in Nat /\ DOMAIN list = 1 .. Len(list) /\ i + 1 \in Nat
  OBVIOUS
<1>2. CASE ~IsService(list[i + 1])
  <2>1. v = u
    BY <1>2 DEF RemoteAttributeTold
  <2> HIDE DEF v
  <2>2. RemoteRecords(u, list, i + 1)
    <3>1. \A c \in 1 .. Len(list) : (i + 1) + 1 .. c \subseteq i + 1 .. c
      OBVIOUS
    <3>2. QED
      BY <3>1 DEF RemotesFollow, RemoteRecords
  <2>3. QED
    BY <2>1, <2>2 DEF RemotesFollow, v
<1>3. CASE IsService(list[i + 1])
  <2> DEFINE n == CharacteristicsOf(list, i + 1).number
  <2>1. v = RemoteServiceTold(u, list, i + 1)
    BY <1>3 DEF RemoteAttributeTold
  <2>2. ~IsCharacteristic(list[i + 1])
    BY <1>3 DEF IsService, IsCharacteristic
  <2>3. n \in Nat /\ (i + 1) + n <= Len(list) /\ \A j \in (i + 1) + 1 .. (i + 1) + n : IsCharacteristic(list[j])
    BY <1>1, MembersFacts
  <2>4. RecordsFollow(RemoteServiceTold(u, list, i + 1), u, i + 1, n)
    BY <2>3, RemoteServiceFacts DEF RemotesFollow
  <2> HIDE DEF n, v
  <2>5. RecordsFollow(v, u, i + 1, n)
    BY <2>1, <2>4
  <2>6. (i + 1) + 1 = i + 2 /\ (i + 1) + n = i + 1 + n
    BY <2>3
  <2>7. \A j \in i + 2 .. i + 1 + n : IsCharacteristic(list[j])
    BY <2>3, <2>6
  <2>8. RemoteRecords(v, list, i + 1)
    BY <1>1, <2>2, <2>3, <2>5, <2>6, <2>7, ServiceRecords DEF RemotesFollow
  <2>9. QED
    BY <2>5, <2>8 DEF RemotesFollow, RecordsFollow, v
<1>4. QED
  BY <1>2, <1>3

LEMMA RemoteFacts ==
  ASSUME NEW w, WalkShape(w), w.remotes = << >>, NEW list \in Seq(RemoteAttributes)
  PROVE  RemotesFollow(RemoteTold(w, list), w, list, Len(list))
<1> DEFINE n == Len(list)
           f == Remotes!Iterated(w, list, n)
           T == {i \in Nat : i <= n => RemotesFollow(f[i], w, list, i)}
<1>1. n \in Nat
  OBVIOUS
<1>2. RemoteTold(w, list) = f[n]
  BY DEF RemoteTold, Remotes!Iterated
<1> HIDE DEF n
<1>3. f[0] = w /\ \A i \in 1 .. n : f[i] = RemoteAttributeTold(f[i - 1], list, i)
  BY <1>1, Remotes!Iterates
<1> HIDE DEF f
<1>4. 0 \in T
  BY <1>3, EmptyFacts DEF RemotesFollow, RemoteRecords
<1>5. ASSUME NEW i \in Nat, i \in T PROVE i + 1 \in T
  <2> SUFFICES ASSUME i + 1 <= n PROVE RemotesFollow(f[i + 1], w, list, i + 1)
    OBVIOUS
  <2>1. f[i + 1] = RemoteAttributeTold(f[i], list, i + 1)
    BY <1>1, <1>3
  <2>2. RemotesFollow(f[i], w, list, i)
    BY <1>1, <1>5
  <2> HIDE DEF T
  <2>3. RemotesFollow(RemoteAttributeTold(f[i], list, i + 1), w, list, i + 1)
    BY <2>2, RemoteAttributeFacts DEF n
  <2>4. QED
    BY <2>1, <2>3
<1> HIDE DEF T
<1>6. \A i \in Nat : i \in T
  BY <1>4, <1>5, Remotes!SetInduction
<1>7. QED
  BY <1>1, <1>2, <1>6 DEF T, n

LEMMA RecordsFit ==
  ASSUME NEW w, WalkShape(w), NEW list \in Seq(RemoteAttributes), NEW i, RemoteRecords(w, list, i),
         AllPiped(list)
  PROVE  Len(w.remotes) <= CountOf(list, Piped)
<1> DEFINE n == Len(w.remotes)
           S == {k \in DOMAIN list : Piped(list[k])}
           f == [k \in 1 .. n |-> w.remotes[k].characteristic]
<1>1. n \in Nat
  BY QueueFacts DEF WalkShape
<1>2. Len(list) \in Nat /\ DOMAIN list = 1 .. Len(list)
  OBVIOUS
<1>3. IsFiniteSet(S)
  <2>1. IsFiniteSet(1 .. Len(list)) /\ S \in SUBSET (1 .. Len(list))
    BY <1>2, FS_Interval
  <2>2. QED
    BY <2>1, FS_Subset
<1>4. f \in [1 .. n -> S]
  BY <1>2 DEF RemoteRecords, AllPiped, Piped
<1>5. \A j, k \in 1 .. n : j < k => f[j] < f[k]
  BY DEF RemoteRecords
<1>6. S \subseteq Nat
  BY <1>2
<1>7. CountOf(list, Piped) = Cardinality(S)
  BY DEF CountOf
<1> HIDE DEF f, S, n
<1>8. \A j, k \in 1 .. n : f[j] = f[k] => j = k
  <2> SUFFICES ASSUME NEW j \in 1 .. n, NEW k \in 1 .. n, f[j] = f[k], j # k PROVE FALSE
    OBVIOUS
  <2>1. f[j] \in Nat /\ f[k] \in Nat
    BY <1>4, <1>6
  <2>2. j < k \/ k < j
    BY <1>1
  <2>3. QED
    BY <1>5, <2>1, <2>2
<1>9. f \in Injection(1 .. n, S)
  BY <1>4, <1>8 DEF Injection, IsInjective
<1>10. Cardinality(1 .. n) <= Cardinality(S)
  BY <1>3, <1>9, FS_Injection
<1>11. Cardinality(1 .. n) = n
  BY <1>1, FS_Interval
<1>12. QED
  BY <1>7, <1>10, <1>11 DEF n

------------------------------------------------------------------------------
(* The messages of the whole walk end with the one that has the CRC, and   *)
(* the tables it fills were given room for.                                *)
LEMMA BaseFacts ==
  ASSUME NEW l, NEW advertised, NEW scanned
  PROVE  IsQueue(BaseSetupMsgs(l, advertised, scanned))
<1>1. \A a, b, c, d, e, f, g : IsQueue(<<a, b, c, d, e, f, g>>)
  <2> SUFFICES ASSUME NEW a, NEW b, NEW c, NEW d, NEW e, NEW f, NEW g
               PROVE  IsQueue(<<a, b, c, d, e, f, g>>)
    OBVIOUS
  <2>1. <<a, b, c, d, e, f, g>> \in Seq({a, b, c, d, e, f, g})
    OBVIOUS
  <2>2. QED
    BY <2>1 DEF IsQueue
<1>2. \E a, b, c, d, e, f, g : BaseSetupMsgs(l, advertised, scanned) = <<a, b, c, d, e, f, g>>
  BY DEF BaseSetupMsgs
<1>3. QED
  BY <1>1, <1>2, Zenon

LEMMA CountedPiped ==
  ASSUME NEW S, NEW list \in Seq(S)
  PROVE  CountOf(list, Piped) = PipedBefore(list, Len(list))
<1>1. DOMAIN list = 1 .. Len(list)
  OBVIOUS
<1>2. CountOf(list, Piped) = Cardinality({i \in DOMAIN list : Piped(list[i])})
  BY DEF CountOf
<1>3. {i \in 1 .. Len(list) : Piped(list[i])} = UpTo({i \in Nat : Piped(list[i])}, Len(list))
  BY DEF UpTo
<1>4. QED
  BY <1>1, <1>2, <1>3 DEF PipedBefore

LEMMA WalkFacts ==
  ASSUME NEW l, l.local \in Seq(LocalAttributes), l.remote \in Seq(RemoteAttributes),
         NEW advertised, NEW scanned
  PROVE  LET v == Walk(l, advertised, scanned)
         IN  /\ WalkShape(v)
             /\ Len(v.messages) \in Nat /\ Len(v.messages) >= 1
             /\ v.messages[Len(v.messages)].target = "crc"
             /\ AllPiped(l.local) => v.localSlots = CountOf(l.local, Piped)
             /\ AllPiped(l.remote) => Len(v.remotes) <= CountOf(l.remote, Piped)
<1> DEFINE start == [messages |-> BaseSetupMsgs(l, advertised, scanned),
                     offset |-> [t \in {"gatt", "services", "pipes", "uuids", "crc"} |-> 0],
                     handle |-> 1, pipe |-> 1, customUuid |-> FIRST_CUSTOM_UUID,
                     locals |-> << >>, remotes |-> << >>, localSlots |-> 0]
           told == LocalTold(start, l.local)
           local == Told(told, "gatt", 4, Says("terminator"))
           remote == RemoteTold(local, l.remote)
           some == LocalPipesTold(remote)
           pipes == RemotePipesTold(some, l.remote)
           uuids == UuidsTold(pipes, l.remote)
           v == Walk(l, advertised, scanned)
<1>1. v = Told(uuids, "crc", 6, Says("crc"))
  BY DEF Walk
<1>2. WalkShape(start)
  BY BaseFacts, EmptyFacts DEF WalkShape, Fields
<1>3. start.locals = << >> /\ start.remotes = << >> /\ start.localSlots = 0
  OBVIOUS
<1> HIDE DEF start, v
<1>4. /\ WalkShape(told) /\ told.remotes = << >>
      /\ AllPiped(l.local) => SlotPerPiped(told, l.local, Len(l.local))
  BY <1>2, <1>3, LocalFacts
<1> HIDE DEF told
<1>5. OnlyTells(local, told)
  BY <1>4, ToldFacts
<1> HIDE DEF local
<1>6. WalkShape(local) /\ local.remotes = << >>
  BY <1>4, <1>5 DEF OnlyTells, SameTables
<1>7. RemotesFollow(remote, local, l.remote, Len(l.remote))
  BY <1>6, RemoteFacts
<1> HIDE DEF remote
<1>8. OnlyTells(some, remote)
  BY <1>7, LocalPipesFacts DEF RemotesFollow
<1> HIDE DEF some
<1>9. OnlyTells(pipes, some)
  BY <1>8, RemotePipesFacts DEF OnlyTells
<1> HIDE DEF pipes
<1>10. OnlyTells(uuids, pipes)
  BY <1>9, UuidsFacts DEF OnlyTells
<1> HIDE DEF uuids
<1>11. /\ OnlyTells(v, uuids)
       /\ \E m : v.messages = Append(uuids.messages, m) /\ m.target = "crc"
  BY <1>1, <1>10, ToldFacts DEF OnlyTells
<1>12. OnlyTells(v, remote)
  BY <1>8, <1>9, <1>10, <1>11, OnlyTellsTwice
<1>13. /\ Len(v.messages) \in Nat /\ Len(v.messages) >= 1
       /\ v.messages[Len(v.messages)].target = "crc"
  <2>1. PICK m : v.messages = Append(uuids.messages, m) /\ m.target = "crc"
    BY <1>11
  <2>2. IsQueue(uuids.messages)
    BY <1>10 DEF OnlyTells, WalkShape
  <2>3. QED
    BY <2>1, <2>2, AppendFacts, QueueFacts
<1>14. ASSUME AllPiped(l.local) PROVE v.localSlots = CountOf(l.local, Piped)
  <2>1. v.localSlots = told.localSlots
    BY <1>5, <1>7, <1>12 DEF OnlyTells, SameTables, RemotesFollow
  <2>2. told.localSlots = PipedBefore(l.local, Len(l.local))
    BY <1>4, <1>14 DEF SlotPerPiped
  <2>3. QED
    BY <2>1, <2>2, CountedPiped
<1>15. ASSUME AllPiped(l.remote) PROVE Len(v.remotes) <= CountOf(l.remote, Piped)
  <2>1. v.remotes = remote.remotes
    BY <1>12 DEF OnlyTells, SameTables
  <2>2. QED
    BY <1>7, <1>15, <2>1, RecordsFit DEF RemotesFollow
<1>16. QED
  BY <1>12, <1>13, <1>14, <1>15 DEF OnlyTells, v

------------------------------------------------------------------------------
(* The attribute lists: what the sketch declared so far, between what the  *)
(* library adds before and after, in arrays that were allocated for all.   *)
Lists == [local : Seq(LocalAttributes), remote : Seq(RemoteAttributes), localRoom : Nat, remoteRoom : Nat]

LocalsAre(l, s, n) ==
  /\ Len(l.local) = 5 + n
  /\ \A k \in 1 .. 5 : l.local[k] = GenericAttributes[k]
  /\ \A k \in 1 .. n : l.local[5 + k] = s.local[k]

RemotesAre(l, s, n) ==
  /\ Len(l.remote) = n
  /\ \A k \in 1 .. n : l.remote[k] = s.remote[k]

RemotesBegun(l, s) ==
  LET n == Len(s.remote)
  IN  IF s.remote = << >> THEN l.remote = << >>
      ELSE /\ Len(l.remote) = n + 2
           /\ \A k \in 1 .. n : l.remote[k] = s.remote[k]
           /\ l.remote[n + 1] = RemoteGenericAttributes[1]
           /\ l.remote[n + 2] = RemoteGenericAttributes[2]

Unbegun(l, s) ==
  /\ l.localRoom = NULL => l.local = << >>
  /\ l.localRoom # NULL =>
       l.localRoom = 5 + Len(s.local) /\ \E n \in 0 .. Len(s.local) : LocalsAre(l, s, n)
  /\ \E n \in 0 .. Len(s.remote) : RemotesAre(l, s, n)
  /\ l.remoteRoom = IF l.remote = << >> THEN NULL ELSE 2 + Len(s.remote)

Begun(l, s) ==
  /\ l.localRoom = 5 + Len(s.local) /\ LocalsAre(l, s, Len(s.local))
  /\ RemotesBegun(l, s)
  /\ l.remoteRoom = IF l.remote = << >> THEN NULL ELSE 2 + Len(s.remote)

LEMMA GenericFacts ==
  /\ GenericAttributes \in Seq(LocalAttributes) /\ Len(GenericAttributes) = 5
  /\ RemoteGenericAttributes \in Seq(RemoteAttributes) /\ Len(RemoteGenericAttributes) = 2
<1>1. \A n \in Nat : Min({n, BLE_ATTRIBUTE_MAX_VALUE_LENGTH}) \in Nat
  <2> SUFFICES ASSUME NEW n \in Nat PROVE Min({n, BLE_ATTRIBUTE_MAX_VALUE_LENGTH}) \in Nat
    OBVIOUS
  <2>1. {n, BLE_ATTRIBUTE_MAX_VALUE_LENGTH} \subseteq Nat
    BY DEF BLE_ATTRIBUTE_MAX_VALUE_LENGTH
  <2>2. QED
    BY <2>1, MinOfNaturals
<1>2. {"read", "indicate"} \subseteq Range(LocalOrder)
  <2>1. LocalOrder[3] = "indicate" /\ LocalOrder[6] = "read" /\ {3, 6} \subseteq DOMAIN LocalOrder
    BY DEF LocalOrder
  <2>2. QED
    BY <2>1 DEF Range
<1> DEFINE P == SUBSET Range(LocalOrder)
<1>3. {} \in P /\ {"read"} \in P /\ {"indicate"} \in P
  BY <1>2
<1> HIDE DEF P
<1>4. \A u \in Uuids : Service(u, 2) \in LocalAttributes /\ Service(u, 2) \in RemoteAttributes
  BY <1>3 DEF Service, Attribute, LocalAttributes, RemoteAttributes, Attributes, P
<1>5. \A u \in Uuids, p \in P, n \in Nat :
        Characteristic(u, 2, p, n) \in LocalAttributes /\ Characteristic(u, 2, p, n) \in RemoteAttributes
  <2> SUFFICES ASSUME NEW u \in Uuids, NEW p \in P, NEW n \in Nat
               PROVE  Characteristic(u, 2, p, n) \in LocalAttributes /\ Characteristic(u, 2, p, n) \in RemoteAttributes
    OBVIOUS
  <2> DEFINE size == Min({n, BLE_ATTRIBUTE_MAX_VALUE_LENGTH})
  <2>1. size \in Nat
    BY <1>1
  <2>2. Characteristic(u, 2, p, n) = [type |-> "characteristic", uuid |-> u, uuidLength |-> 2,
                                      properties |-> p, size |-> size]
    BY DEF Characteristic, Attribute
  <2> HIDE DEF size
  <2>3. QED
    BY <2>1, <2>2 DEF LocalAttributes, RemoteAttributes, Attributes, P
<1>6. \A a, b, c, d, e \in LocalAttributes :
        <<a, b, c, d, e>> \in Seq(LocalAttributes) /\ Len(<<a, b, c, d, e>>) = 5
  OBVIOUS
<1>7. \A a, b \in RemoteAttributes :
        <<a, b>> \in Seq(RemoteAttributes) /\ Len(<<a, b>>) = 2
  OBVIOUS
<1>8. GenericAttributes \in Seq(LocalAttributes) /\ Len(GenericAttributes) = 5
  <2>1. Service("1800", 2) \in LocalAttributes /\ Service("1801", 2) \in LocalAttributes
    BY <1>4, UuidsOK
  <2>2. /\ Characteristic("2a00", 2, {"read"}, 19) \in LocalAttributes
        /\ Characteristic("2a01", 2, {"read"}, 2) \in LocalAttributes
        /\ Characteristic("2a05", 2, {"indicate"}, 4) \in LocalAttributes
    BY <1>3, <1>5, UuidsOK
  <2>3. QED
    BY <1>6, <2>1, <2>2, Zenon DEF GenericAttributes
<1>9. RemoteGenericAttributes \in Seq(RemoteAttributes) /\ Len(RemoteGenericAttributes) = 2
  <2>1. Service("1801", 2) \in RemoteAttributes
    BY <1>4, UuidsOK
  <2>2. Characteristic("2a05", 2, {"indicate"}, 0) \in RemoteAttributes
    BY <1>3, <1>5, UuidsOK
  <2>3. QED
    BY <1>7, <2>1, <2>2, Zenon DEF RemoteGenericAttributes
<1>10. QED
  BY <1>8, <1>9

LEMMA SketchFacts ==
  ASSUME NEW s \in Sketches
  PROVE  /\ s.local \in Seq(LocalAttributes) /\ Len(s.local) \in Nat /\ DOMAIN s.local = 1 .. Len(s.local)
         /\ s.remote \in Seq(RemoteAttributes) /\ Len(s.remote) \in Nat /\ DOMAIN s.remote = 1 .. Len(s.remote)
         /\ s.settings \in Settings
<1>1. s.local \in Seq(LocalAttributes) /\ s.remote \in Seq(RemoteAttributes) /\ s.settings \in Settings
  BY SketchesOK
<1>2. QED
  BY <1>1

DeclaredOf(l) == IF l.localRoom = NULL THEN 0 ELSE Len(l.local) - 5

LEMMA ReadyFacts ==
  ASSUME NEW s \in Sketches, NEW l \in Lists, Unbegun(l, s)
  PROVE  LET r == initLocalAttributes(l, 5 + Len(s.local))
         IN  /\ r \in Lists /\ DeclaredOf(l) \in 0 .. Len(s.local)
             /\ r.localRoom = 5 + Len(s.local) /\ LocalsAre(r, s, DeclaredOf(l))
             /\ r.remote = l.remote /\ r.remoteRoom = l.remoteRoom
<1> DEFINE r == initLocalAttributes(l, 5 + Len(s.local))
<1>1. Len(s.local) \in Nat
  BY SketchFacts
<1>2. CASE l.localRoom # NULL
  <2>1. r = l
    BY <1>2 DEF initLocalAttributes
  <2>2. PICK n \in 0 .. Len(s.local) : LocalsAre(l, s, n)
    BY <1>2 DEF Unbegun
  <2>3. DeclaredOf(l) = n
    BY <1>1, <1>2, <2>2 DEF DeclaredOf, LocalsAre
  <2> HIDE DEF r
  <2>4. QED
    BY <1>2, <2>1, <2>2, <2>3 DEF Unbegun, r
<1>3. CASE l.localRoom = NULL
  <2>1. /\ r \in Lists /\ r.localRoom = 5 + Len(s.local) /\ r.local = GenericAttributes
        /\ r.remote = l.remote /\ r.remoteRoom = l.remoteRoom
    <3>1. r = [l EXCEPT !.local = GenericAttributes, !.localRoom = 5 + Len(s.local)]
      BY <1>3 DEF initLocalAttributes
    <3>2. 5 + Len(s.local) \in Nat /\ GenericAttributes \in Seq(LocalAttributes)
      BY <1>1, GenericFacts
    <3> HIDE DEF r
    <3>3. QED
      BY <3>1, <3>2 DEF Lists
  <2>2. DeclaredOf(l) = 0
    BY <1>3 DEF DeclaredOf
  <2> HIDE DEF r
  <2>3. LocalsAre(r, s, 0)
    BY <2>1, GenericFacts DEF LocalsAre
  <2>4. QED
    BY <1>1, <2>1, <2>2, <2>3 DEF r
<1>4. QED
  BY <1>2, <1>3

LEMMA AddedLocallyFacts ==
  ASSUME NEW s \in Sketches, NEW l \in Lists, Unbegun(l, s), DeclaredOf(l) < Len(s.local)
  PROVE  LET m == AddedLocally(l, 5 + Len(s.local), s.local[DeclaredOf(l) + 1])
         IN  m \in Lists /\ Unbegun(m, s)
<1> DEFINE r == initLocalAttributes(l, 5 + Len(s.local))
           n == DeclaredOf(l)
           a == s.local[n + 1]
           m == AddedLocally(l, 5 + Len(s.local), a)
<1>1. /\ r \in Lists /\ n \in 0 .. Len(s.local)
      /\ r.localRoom = 5 + Len(s.local) /\ LocalsAre(r, s, n)
      /\ r.remote = l.remote /\ r.remoteRoom = l.remoteRoom
  BY ReadyFacts
<1>2. Len(s.local) \in Nat /\ n < Len(s.local)
  BY SketchFacts
<1>3. a \in LocalAttributes
  BY <1>1, <1>2, SketchFacts
<1>4. m = [r EXCEPT !.local = Append(@, a)]
  BY DEF AddedLocally
<1> HIDE DEF r, n, a, m
<1>5. /\ m.local = Append(r.local, a) /\ m.localRoom = r.localRoom
      /\ m.remote = r.remote /\ m.remoteRoom = r.remoteRoom /\ m \in Lists
  <2>1. r.local \in Seq(LocalAttributes) /\ Append(r.local, a) \in Seq(LocalAttributes)
    BY <1>1, <1>3 DEF Lists
  <2>2. QED
    BY <1>1, <1>4, <2>1 DEF Lists
<1>6. /\ Len(m.local) = Len(r.local) + 1 /\ m.local[Len(r.local) + 1] = a
      /\ \A k \in 1 .. Len(r.local) : m.local[k] = r.local[k]
  <2>1. IsQueue(r.local)
    BY <1>1 DEF Lists, IsQueue
  <2>2. QED
    BY <1>5, <2>1, AppendFacts
<1>7. Len(r.local) = 5 + n
  BY <1>1 DEF LocalsAre
<1>8. LocalsAre(m, s, n + 1)
  <2>1. Len(m.local) = 5 + (n + 1)
    BY <1>1, <1>6, <1>7
  <2>2. \A k \in 1 .. 5 : m.local[k] = GenericAttributes[k]
    <3>1. \A k \in 1 .. 5 : k \in 1 .. Len(r.local)
      BY <1>1, <1>7
    <3>2. QED
      BY <1>1, <1>6, <3>1 DEF LocalsAre
  <2>3. \A k \in 1 .. n + 1 : m.local[5 + k] = s.local[k]
    <3> TAKE k \in 1 .. n + 1
    <3>1. CASE k = n + 1
      <4>1. 5 + k = Len(r.local) + 1
        BY <1>1, <1>7, <3>1
      <4>2. QED
        BY <1>6, <3>1, <4>1 DEF a
    <3>2. CASE k \in 1 .. n
      <4>1. 5 + k \in 1 .. Len(r.local)
        BY <1>1, <1>7, <3>2
      <4>2. QED
        BY <1>1, <1>6, <3>2, <4>1 DEF LocalsAre
    <3>3. QED
      BY <1>1, <3>1, <3>2
  <2>4. QED
    BY <2>1, <2>2, <2>3 DEF LocalsAre
<1>9. n + 1 \in 0 .. Len(s.local)
  BY <1>1, <1>2
<1>10. (\E k \in 0 .. Len(s.remote) : RemotesAre(m, s, k)) /\ m.localRoom # NULL
  <2>1. PICK k \in 0 .. Len(s.remote) : RemotesAre(l, s, k)
    BY DEF Unbegun
  <2>2. RemotesAre(m, s, k)
    BY <1>1, <1>5, <2>1 DEF RemotesAre
  <2>3. QED
    BY <1>1, <1>2, <1>5, <2>2 DEF NULL
<1>11. m.remoteRoom = IF m.remote = << >> THEN NULL ELSE 2 + Len(s.remote)
  BY <1>1, <1>5 DEF Unbegun
<1>12. Unbegun(m, s)
  BY <1>1, <1>5, <1>8, <1>9, <1>10, <1>11 DEF Unbegun
<1>13. QED
  BY <1>5, <1>12 DEF m, a, n

(* One more attribute at the end of the remote ones.                       *)
LEMMA AppendedRemotely ==
  ASSUME NEW l \in Lists, NEW c \in Nat, NEW a \in RemoteAttributes
  PROVE  LET m == AddedRemotely(l, c, a)
         IN  /\ m \in Lists /\ m.local = l.local /\ m.localRoom = l.localRoom
             /\ m.remoteRoom = IF l.remoteRoom = NULL THEN c ELSE l.remoteRoom
             /\ Len(l.remote) \in Nat /\ Len(m.remote) = Len(l.remote) + 1
             /\ m.remote # << >> /\ m.remote[Len(l.remote) + 1] = a
             /\ \A k \in 1 .. Len(l.remote) : m.remote[k] = l.remote[k]
<1> DEFINE m == AddedRemotely(l, c, a)
<1>1. l.remote \in Seq(RemoteAttributes) /\ Append(l.remote, a) \in Seq(RemoteAttributes)
  BY DEF Lists
<1>2. /\ m.local = l.local /\ m.localRoom = l.localRoom /\ m.remote = Append(l.remote, a) /\ m \in Lists
      /\ m.remoteRoom = IF l.remoteRoom = NULL THEN c ELSE l.remoteRoom
  BY <1>1 DEF AddedRemotely, Lists
<1>3. /\ Len(m.remote) = Len(l.remote) + 1 /\ m.remote[Len(l.remote) + 1] = a /\ Len(l.remote) \in Nat
      /\ \A k \in 1 .. Len(l.remote) : m.remote[k] = l.remote[k]
  <2>1. IsQueue(l.remote)
    BY <1>1 DEF IsQueue
  <2>2. QED
    BY <1>2, <2>1, AppendFacts, QueueFacts
<1> HIDE DEF m
<1>4. m.remote # << >>
  BY <1>3, EmptyFacts
<1>5. QED
  BY <1>2, <1>3, <1>4 DEF m

LEMMA AddedRemotelyFacts ==
  ASSUME NEW s \in Sketches, NEW l \in Lists, Unbegun(l, s), Len(l.remote) < Len(s.remote)
  PROVE  LET m == AddedRemotely(l, 2 + Len(s.remote), s.remote[Len(l.remote) + 1])
         IN  m \in Lists /\ Unbegun(m, s)
<1> DEFINE n == Len(l.remote)
           c == 2 + Len(s.remote)
           a == s.remote[n + 1]
           m == AddedRemotely(l, c, a)
<1>1. Len(s.remote) \in Nat /\ c \in Nat /\ c # NULL
  BY SketchFacts DEF NULL
<1>2. n \in Nat
  BY DEF Lists
<1>3. a \in RemoteAttributes
  BY <1>1, <1>2, SketchFacts
<1> HIDE DEF n, c, a
<1>4. /\ m \in Lists /\ m.local = l.local /\ m.localRoom = l.localRoom
      /\ m.remoteRoom = (IF l.remoteRoom = NULL THEN c ELSE l.remoteRoom)
      /\ Len(m.remote) = n + 1 /\ m.remote # << >> /\ m.remote[n + 1] = a
      /\ \A k \in 1 .. n : m.remote[k] = l.remote[k]
  BY <1>1, <1>3, AppendedRemotely DEF n
<1> HIDE DEF m
<1>5. RemotesAre(l, s, n)
  BY DEF Unbegun, RemotesAre, n
<1>6. RemotesAre(m, s, n + 1)
  BY <1>2, <1>4, <1>5 DEF RemotesAre, a
<1>7. n + 1 \in 0 .. Len(s.remote)
  BY <1>1, <1>2 DEF n
<1>8. m.remoteRoom = 2 + Len(s.remote)
  BY <1>4 DEF Unbegun, c
<1>9. \A k : LocalsAre(l, s, k) => LocalsAre(m, s, k)
  BY <1>4 DEF LocalsAre
<1>10. Unbegun(m, s)
  BY <1>4, <1>6, <1>7, <1>8, <1>9 DEF Unbegun
<1>11. QED
  BY <1>4, <1>10 DEF m, c, a, n

LEMMA BegunFacts ==
  ASSUME NEW s \in Sketches, NEW l \in Lists, Unbegun(l, s),
         DeclaredOf(l) = Len(s.local), Len(l.remote) = Len(s.remote)
  PROVE  LET m == BegunLists(l, 5 + Len(s.local), 2 + Len(s.remote))
         IN  m \in Lists /\ Begun(m, s)
<1> DEFINE n == Len(s.remote)
           c == 2 + n
           r == initLocalAttributes(l, 5 + Len(s.local))
           g == RemoteGenericAttributes[1]
           h == RemoteGenericAttributes[2]
           p == AddedRemotely(r, c, g)
           q == AddedRemotely(p, c, h)
           m == BegunLists(l, 5 + Len(s.local), 2 + Len(s.remote))
<1>1. n \in Nat /\ DOMAIN s.remote = 1 .. n /\ s.remote \in Seq(RemoteAttributes)
  BY SketchFacts
<1>2. c \in Nat /\ c # NULL
  BY <1>1 DEF NULL
<1>3. /\ r \in Lists /\ r.localRoom = 5 + Len(s.local) /\ LocalsAre(r, s, Len(s.local))
      /\ r.remote = l.remote /\ r.remoteRoom = l.remoteRoom
  BY ReadyFacts
<1>4. m = IF r.remote = << >> THEN r ELSE q
  BY DEF BegunLists
<1>5. RemotesAre(l, s, n)
  BY DEF Unbegun, RemotesAre
<1>6. l.remoteRoom = IF l.remote = << >> THEN NULL ELSE c
  BY DEF Unbegun
<1>7. s.remote = << >> <=> l.remote = << >>
  <2>1. l.remote \in Seq(RemoteAttributes) /\ Len(l.remote) = n
    BY DEF Lists
  <2> HIDE DEF n
  <2>2. s.remote = << >> <=> n = 0
    BY <1>1 DEF n
  <2>3. l.remote = << >> <=> n = 0
    BY <2>1
  <2>4. QED
    BY <2>2, <2>3
<1>8. g \in RemoteAttributes /\ h \in RemoteAttributes
  <2> DEFINE generic == RemoteGenericAttributes
  <2>1. generic \in Seq(RemoteAttributes) /\ Len(generic) = 2
    BY GenericFacts
  <2> HIDE DEF generic
  <2>2. 1 \in 1 .. Len(generic) /\ 2 \in 1 .. Len(generic)
    BY <2>1
  <2>3. generic[1] \in RemoteAttributes /\ generic[2] \in RemoteAttributes
    BY <2>1, <2>2, ElementFacts
  <2>4. QED
    BY <2>3 DEF generic
<1> HIDE DEF r, m, c, g, h
<1>9. /\ p \in Lists /\ p.local = r.local /\ p.localRoom = r.localRoom
      /\ p.remoteRoom = (IF r.remoteRoom = NULL THEN c ELSE r.remoteRoom)
      /\ Len(r.remote) \in Nat /\ Len(p.remote) = Len(r.remote) + 1 /\ p.remote # << >>
      /\ p.remote[Len(r.remote) + 1] = g
      /\ \A k \in 1 .. Len(r.remote) : p.remote[k] = r.remote[k]
  BY <1>2, <1>3, <1>8, AppendedRemotely
<1> HIDE DEF p
<1>10. /\ q \in Lists /\ q.local = p.local /\ q.localRoom = p.localRoom
       /\ q.remoteRoom = (IF p.remoteRoom = NULL THEN c ELSE p.remoteRoom)
       /\ Len(q.remote) = Len(p.remote) + 1 /\ q.remote # << >>
       /\ q.remote[Len(p.remote) + 1] = h
       /\ \A k \in 1 .. Len(p.remote) : q.remote[k] = p.remote[k]
  <2>1. p \in Lists
    BY <1>9
  <2>2. QED
    BY <1>2, <1>8, <2>1, AppendedRemotely
<1> HIDE DEF q
<1>11. CASE l.remote = << >>
  <2>1. m = r /\ s.remote = << >>
    BY <1>3, <1>4, <1>7, <1>11
  <2>2. RemotesBegun(m, s)
    BY <1>3, <1>11, <2>1 DEF RemotesBegun
  <2>3. QED
    BY <1>3, <1>6, <1>11, <2>1, <2>2 DEF Begun, m
<1>12. CASE l.remote # << >>
  <2>1. m = q /\ s.remote # << >>
    BY <1>3, <1>4, <1>7, <1>12
  <2>2. Len(r.remote) = n /\ \A k \in 1 .. n : r.remote[k] = s.remote[k]
    BY <1>3, <1>5 DEF RemotesAre
  <2>3. Len(p.remote) = n + 1 /\ p.remote[n + 1] = g
        /\ \A k \in 1 .. n : p.remote[k] = s.remote[k]
    BY <1>9, <2>2
  <2>4. Len(q.remote) = n + 2 /\ q.remote[n + 2] = h
    <3>1. (n + 1) + 1 = n + 2
      BY <1>1
    <3>2. QED
      BY <1>10, <2>3, <3>1
  <2>5. q.remote[n + 1] = g
        /\ \A k \in 1 .. n : q.remote[k] = s.remote[k]
    <3>1. n + 1 \in 1 .. Len(p.remote) /\ \A k \in 1 .. n : k \in 1 .. Len(p.remote)
      BY <1>1, <2>3
    <3>2. QED
      BY <1>10, <2>3, <3>1
  <2>6. RemotesBegun(m, s)
    BY <2>1, <2>4, <2>5 DEF RemotesBegun, g, h
  <2>7. m.remoteRoom = c /\ m.remote # << >>
    BY <1>2, <1>3, <1>6, <1>9, <1>10, <1>12, <2>1
  <2>8. LocalsAre(m, s, Len(s.local)) /\ m.localRoom = 5 + Len(s.local)
    BY <1>3, <1>9, <1>10, <2>1 DEF LocalsAre
  <2>9. QED
    BY <1>10, <2>1, <2>6, <2>7, <2>8 DEF Begun, m, c
<1>13. QED
  BY <1>11, <1>12

(* begin() another time leaves the lists as they are.                      *)
LEMMA BegunAgain ==
  ASSUME NEW s \in Sketches, NEW l \in Lists, Begun(l, s), s.remote = << >>, NEW c, NEW d
  PROVE  BegunLists(l, c, d) = l
<1>1. Len(s.local) \in Nat
  BY SketchFacts
<1>2. l.localRoom # NULL /\ l.remote = << >>
  BY <1>1 DEF Begun, RemotesBegun, NULL
<1>3. initLocalAttributes(l, c) = l
  BY <1>2 DEF initLocalAttributes
<1>4. QED
  BY <1>2, <1>3 DEF BegunLists

------------------------------------------------------------------------------
(* What is on its way from the chip: no answer to a setup message, or one. *)
ChipEvents ==
  {Started("setup"), Started("standby"), Response("state invalid"), Response("error"),
   Response("continue"), Response("complete")}

Quiet(e) == \A k \in 1 .. Len(e) : ~Answers(e[k])
AnsweredOnce(e) ==
  \E k \in 1 .. Len(e) : Answers(e[k]) /\ \A j \in 1 .. Len(e) : j # k => ~Answers(e[j])

LEMMA AnswerFacts ==
  /\ \A m : ~Answers(Started(m))
  /\ ~Answers(Response("state invalid")) /\ ~Answers(Response("error"))
  /\ Answers(Response("continue")) /\ Answers(Response("complete"))
BY DEF Answers, Started, Response

LEMMA AppendedEvent ==
  ASSUME NEW e \in Seq(ChipEvents), NEW x \in ChipEvents
  PROVE  /\ Append(e, x) \in Seq(ChipEvents)
         /\ Quiet(e) /\ ~Answers(x) => Quiet(Append(e, x))
         /\ Quiet(e) /\ Answers(x) => AnsweredOnce(Append(e, x))
         /\ AnsweredOnce(e) /\ ~Answers(x) => AnsweredOnce(Append(e, x))
<1> DEFINE f == Append(e, x)
           n == Len(e)
<1>1. f \in Seq(ChipEvents) /\ Len(f) = n + 1 /\ f[n + 1] = x /\ n \in Nat
  OBVIOUS
<1>2. \A k \in 1 .. n : f[k] = e[k]
  OBVIOUS
<1> HIDE DEF f, n
<1>3. \A k \in 1 .. n + 1 : k \in 1 .. n \/ k = n + 1
  BY <1>1
<1>4. ASSUME Quiet(e), ~Answers(x) PROVE Quiet(f)
  BY <1>1, <1>2, <1>3, <1>4 DEF Quiet, n
<1>5. ASSUME Quiet(e), Answers(x) PROVE AnsweredOnce(f)
  <2>1. n + 1 \in 1 .. Len(f) /\ Answers(f[n + 1])
    BY <1>1, <1>5
  <2>2. ASSUME NEW j \in 1 .. Len(f), j # n + 1 PROVE ~Answers(f[j])
    BY <1>1, <1>2, <1>3, <1>5, <2>2 DEF Quiet, n
  <2>3. QED
    BY <2>1, <2>2 DEF AnsweredOnce
<1>6. ASSUME AnsweredOnce(e), ~Answers(x) PROVE AnsweredOnce(f)
  <2>1. PICK k \in 1 .. n : Answers(e[k]) /\ \A j \in 1 .. n : j # k => ~Answers(e[j])
    BY <1>6 DEF AnsweredOnce, n
  <2>2. k \in 1 .. Len(f) /\ Answers(f[k])
    BY <1>1, <1>2, <2>1
  <2>3. ASSUME NEW j \in 1 .. Len(f), j # k PROVE ~Answers(f[j])
    BY <1>1, <1>2, <1>3, <1>6, <2>1, <2>3
  <2>4. QED
    BY <2>2, <2>3 DEF AnsweredOnce
<1>7. QED
  BY <1>1, <1>4, <1>5, <1>6 DEF f

LEMMA TakenEvent ==
  ASSUME NEW e \in Seq(ChipEvents), e # << >>
  PROVE  /\ Tail(e) \in Seq(ChipEvents)
         /\ Quiet(e) => Quiet(Tail(e)) /\ ~Answers(Head(e))
         /\ AnsweredOnce(e) => IF Answers(Head(e)) THEN Quiet(Tail(e)) ELSE AnsweredOnce(Tail(e))
<1> DEFINE f == Tail(e)
           n == Len(e)
<1>1. f \in Seq(ChipEvents) /\ n \in Nat /\ n >= 1 /\ Len(f) = n - 1 /\ Head(e) = e[1]
  OBVIOUS
<1>2. \A k \in 1 .. n - 1 : f[k] = e[k + 1] /\ k + 1 \in 2 .. n
  OBVIOUS
<1> HIDE DEF f, n
<1>3. ASSUME Quiet(e) PROVE Quiet(f) /\ ~Answers(Head(e))
  <2>1. 1 \in 1 .. n /\ \A k \in 1 .. n - 1 : k + 1 \in 1 .. n
    BY <1>1
  <2>2. QED
    BY <1>1, <1>2, <1>3, <2>1 DEF Quiet, n
<1>4. ASSUME AnsweredOnce(e), Answers(Head(e)) PROVE Quiet(f)
  <2>1. PICK k \in 1 .. n : Answers(e[k]) /\ \A j \in 1 .. n : j # k => ~Answers(e[j])
    BY <1>4 DEF AnsweredOnce, n
  <2>2. k = 1
    BY <1>1, <1>4, <2>1
  <2>3. \A j \in 1 .. n - 1 : j + 1 \in 1 .. n /\ j + 1 # 1
    BY <1>1
  <2>4. QED
    BY <1>1, <1>2, <2>1, <2>2, <2>3 DEF Quiet
<1>5. ASSUME AnsweredOnce(e), ~Answers(Head(e)) PROVE AnsweredOnce(f)
  <2>1. PICK k \in 1 .. n : Answers(e[k]) /\ \A j \in 1 .. n : j # k => ~Answers(e[j])
    BY <1>5 DEF AnsweredOnce, n
  <2>2. k - 1 \in 1 .. n - 1 /\ (k - 1) + 1 = k
    BY <1>1, <1>5, <2>1
  <2>3. Answers(f[k - 1])
    BY <1>2, <2>1, <2>2
  <2>4. ASSUME NEW j \in 1 .. n - 1, j # k - 1 PROVE ~Answers(f[j])
    <3>1. j + 1 \in 1 .. n /\ j + 1 # k
      BY <1>1, <2>2, <2>4
    <3>2. QED
      BY <1>2, <2>1, <3>1
  <2>5. QED
    BY <1>1, <2>2, <2>3, <2>4 DEF AnsweredOnce
<1>6. QED
  BY <1>1, <1>3, <1>4, <1>5 DEF f

(* The completion comes with another start.                                *)
LEMMA CompletedEvents ==
  ASSUME NEW e \in Seq(ChipEvents)
  PROVE  LET f == e \o <<Response("complete"), Started("standby")>>
         IN  f \in Seq(ChipEvents) /\ (Quiet(e) => AnsweredOnce(f))
<1> DEFINE x == Response("complete")
           y == Started("standby")
           f == Append(Append(e, x), y)
<1>1. x \in ChipEvents /\ y \in ChipEvents /\ Answers(x) /\ ~Answers(y)
  BY AnswerFacts DEF ChipEvents
<1> HIDE DEF x, y
<1>2. Append(e, x) \in Seq(ChipEvents) /\ (Quiet(e) => AnsweredOnce(Append(e, x)))
  BY <1>1, AppendedEvent
<1>3. f \in Seq(ChipEvents) /\ (Quiet(e) => AnsweredOnce(f))
  BY <1>1, <1>2, AppendedEvent
<1>4. f = e \o <<x, y>>
  BY <1>1
<1> HIDE DEF f
<1>5. QED
  BY <1>3, <1>4 DEF x, y

------------------------------------------------------------------------------
(* The invariant: what there is to walk over, what the walk made, and what *)
(* is on its way between begin() and the chip.                             *)
SetupTypeOK ==
  /\ device \in {"nRF8001", "nRF51822"} /\ resetPin \in {"wired", "unused"}
  /\ sketch \in Sketches /\ lists \in Lists
  /\ phase \in {"declaring", "waiting", "sending", "running"}
  /\ sent \in Nat /\ commands \in Seq(Nat) /\ events \in Seq(ChipEvents)
  /\ DOMAIN chip = {"mode", "expected"} /\ chip.mode \in {"setup", "reset", "standby"}

ListsInv == IF phase = "declaring" THEN Unbegun(lists, sketch) ELSE Begun(lists, sketch)

DriverInv ==
  phase # "declaring" =>
    driver = IF device = "nRF8001" THEN Walk(lists, Advertised, Scanned)
             ELSE [local |-> LocalsRegistered(lists.local), remote |-> RemotesRegistered(lists.remote)]

Outstanding ==
  \/ commands \in {<< >>, <<RadioReset>>, <<sent>>, <<RadioReset, sent>>} /\ Quiet(events)
  \/ /\ commands = << >> /\ AnsweredOnce(events)
     /\ driver.messages[sent].target = "crc" => chip.mode = "standby"

WireInv ==
  device = "nRF8001" =>
    /\ phase = "declaring" => commands = << >> /\ Quiet(events)
    /\ phase = "waiting" => commands \in {<< >>, <<RadioReset>>} /\ Quiet(events)
    /\ phase = "sending" => sent \in 1 .. Len(driver.messages) /\ Outstanding
    /\ phase = "running" => commands = << >> /\ chip.mode = "standby"

SetupInv == SetupTypeOK /\ ListsInv /\ DriverInv /\ WireInv

LEMMA LastIsCRC ==
  ASSUME SetupInv, device = "nRF8001", phase # "declaring"
  PROVE  /\ Len(driver.messages) \in Nat /\ Len(driver.messages) >= 1
         /\ driver.messages[Len(driver.messages)].target = "crc"
<1>1. lists.local \in Seq(LocalAttributes) /\ lists.remote \in Seq(RemoteAttributes)
  BY DEF SetupInv, SetupTypeOK, Lists
<1>2. driver = Walk(lists, Advertised, Scanned)
  BY DEF SetupInv, DriverInv
<1>3. QED
  BY <1>1, <1>2, WalkFacts

LEMMA InitSetupInv == ASSUME Init PROVE SetupInv
<1>1. NoLists \in Lists /\ NoLists.local = << >> /\ NoLists.remote = << >>
      /\ NoLists.localRoom = NULL /\ NoLists.remoteRoom = NULL
  BY DEF NoLists, Lists, NULL
<1>2. SetupTypeOK
  BY <1>1, DevicesOK, ResetPinsOK DEF Init, SetupTypeOK, ChipEvents, ChipIn
<1>3. ListsInv
  <2>1. sketch \in Sketches
    BY DEF Init
  <2>2. Len(sketch.remote) \in Nat
    BY <2>1, SketchFacts
  <2>3. RemotesAre(NoLists, sketch, 0)
    BY <1>1, EmptyFacts DEF RemotesAre
  <2>4. Unbegun(NoLists, sketch)
    BY <1>1, <2>2, <2>3 DEF Unbegun
  <2>5. QED
    BY <2>4 DEF Init, ListsInv
<1>4. DriverInv
  BY DEF Init, DriverInv
<1>5. WireInv
  <2>1. Quiet(<<Started("setup")>>)
    <3>1. \A x : ~Answers(x) => Quiet(<<x>>)
      BY DEF Quiet
    <3>2. QED
      BY <3>1, AnswerFacts
  <2>2. QED
    BY <2>1 DEF Init, WireInv
<1>6. QED
  BY <1>2, <1>3, <1>4, <1>5 DEF SetupInv

LEMMA DeclaredLocallyFacts ==
  ASSUME SetupInv
  PROVE  /\ DeclaredLocally = DeclaredOf(lists)
         /\ ConstructedLocal = 5 + Len(sketch.local) /\ ConstructedRemote = 2 + Len(sketch.remote)
BY GenericFacts DEF DeclaredLocally, DeclaredOf, ConstructedLocal, ConstructedRemote

(* The sketch's calls.                                                     *)
LEMMA DeclaringKeepsInv ==
  ASSUME SetupInv, phase = "declaring", UNCHANGED <<choices, driver, phase, sent, wire>>,
         lists' \in Lists, Unbegun(lists', sketch)
  PROVE  SetupInv'
<1>1. SetupTypeOK'
  BY DEF SetupInv, SetupTypeOK, choices, wire
<1>2. ListsInv'
  BY DEF ListsInv, choices
<1>3. DriverInv'
  BY DEF DriverInv
<1>4. WireInv'
  BY DEF SetupInv, WireInv, choices, wire
<1>5. QED
  BY <1>1, <1>2, <1>3, <1>4 DEF SetupInv

LEMMA addLocalAttributeKeepsInv ==
  ASSUME SetupInv, addLocalAttribute
  PROVE  SetupInv'
<1>1. sketch \in Sketches /\ lists \in Lists /\ Unbegun(lists, sketch)
  BY DEF SetupInv, SetupTypeOK, ListsInv, addLocalAttribute
<1>2. DeclaredOf(lists) < Len(sketch.local)
      /\ lists' = AddedLocally(lists, 5 + Len(sketch.local), sketch.local[DeclaredOf(lists) + 1])
  BY DeclaredLocallyFacts DEF addLocalAttribute
<1>3. lists' \in Lists /\ Unbegun(lists', sketch)
  BY <1>1, <1>2, AddedLocallyFacts
<1>4. QED
  BY <1>3, DeclaringKeepsInv DEF addLocalAttribute

LEMMA addRemoteAttributeKeepsInv ==
  ASSUME SetupInv, addRemoteAttribute
  PROVE  SetupInv'
<1>1. sketch \in Sketches /\ lists \in Lists /\ Unbegun(lists, sketch)
  BY DEF SetupInv, SetupTypeOK, ListsInv, addRemoteAttribute
<1>2. Len(lists.remote) < Len(sketch.remote)
      /\ lists' = AddedRemotely(lists, 2 + Len(sketch.remote), sketch.remote[Len(lists.remote) + 1])
  BY DeclaredLocallyFacts DEF addRemoteAttribute
<1>3. lists' \in Lists /\ Unbegun(lists', sketch)
  BY <1>1, <1>2, AddedRemotelyFacts
<1>4. QED
  BY <1>3, DeclaringKeepsInv DEF addRemoteAttribute

(* begin(), the first time and again.                                      *)
LEMMA BegunKeepsInv ==
  ASSUME SetupInv, begin, phase = "declaring" \/ (device = "nRF8001" => resetPin = "wired"),
         lists' \in Lists, Begun(lists', sketch)
  PROVE  SetupInv'
<1>1. /\ device' = device /\ resetPin' = resetPin /\ sketch' = sketch
      /\ Advertised' = Advertised /\ Scanned' = Scanned
  BY DEF begin, choices, Advertised, Scanned
<1> DEFINE l == BegunLists(lists, ConstructedLocal, ConstructedRemote)
<1>2. lists' = l /\ (nRF51822_begin(l) \/ nRF8001_begin(l))
  BY DEF begin
<1> HIDE DEF l
<1>3. CASE nRF51822_begin(l)
  <2>1. device = "nRF51822" /\ phase' = "running"
        /\ sent' = sent /\ commands' = commands /\ chip' = chip /\ events' = events
        /\ driver' = [local |-> LocalsRegistered(l.local), remote |-> RemotesRegistered(l.remote)]
    BY <1>3 DEF nRF51822_begin, wire
  <2>2. SetupTypeOK'
    BY <1>1, <2>1 DEF SetupInv, SetupTypeOK
  <2>3. ListsInv' /\ DriverInv' /\ WireInv'
    BY <1>1, <1>2, <2>1 DEF ListsInv, DriverInv, WireInv
  <2>4. QED
    BY <2>2, <2>3 DEF SetupInv
<1>4. CASE nRF8001_begin(l)
  <2>1. device = "nRF8001" /\ phase' = "waiting" /\ sent' = 0 /\ driver' = Walk(l, Advertised, Scanned)
    BY <1>4 DEF nRF8001_begin
  <2>2. ListsInv' /\ DriverInv'
    BY <1>1, <1>2, <2>1 DEF ListsInv, DriverInv
  <2>3. /\ commands' \in Seq(Nat) /\ events' \in Seq(ChipEvents) /\ Quiet(events')
        /\ DOMAIN chip' = {"mode", "expected"} /\ chip'.mode \in {"setup", "reset", "standby"}
        /\ commands' \in {<< >>, <<RadioReset>>}
    <3>1. CASE resetPin = "wired"
      <4>1. commands' = << >> /\ chip' = ChipIn("reset") /\ events' = << >>
        BY <1>4, <3>1 DEF nRF8001_begin
      <4>2. Quiet(<< >>)
        BY DEF Quiet
      <4>3. QED
        BY <4>1, <4>2 DEF ChipIn
    <3>2. CASE resetPin # "wired"
      <4>1. commands' = <<RadioReset>> /\ chip' = chip /\ events' = events /\ phase = "declaring"
        BY <1>4, <2>1, <3>2 DEF nRF8001_begin
      <4>2. QED
        BY <2>1, <4>1 DEF SetupInv, SetupTypeOK, WireInv, RadioReset
    <3>3. QED
      BY <3>1, <3>2
  <2>4. SetupTypeOK'
    BY <1>1, <2>1, <2>3 DEF SetupInv, SetupTypeOK
  <2>5. WireInv'
    BY <2>1, <2>3 DEF WireInv
  <2>6. QED
    BY <2>2, <2>4, <2>5 DEF SetupInv
<1>5. QED
  BY <1>2, <1>3, <1>4

LEMMA BeginKeepsInv ==
  ASSUME SetupInv, Begin
  PROVE  SetupInv'
<1>1. sketch \in Sketches /\ lists \in Lists /\ Unbegun(lists, sketch)
  BY DEF SetupInv, SetupTypeOK, ListsInv, Begin
<1>2. DeclaredOf(lists) = Len(sketch.local) /\ Len(lists.remote) = Len(sketch.remote)
  BY DeclaredLocallyFacts DEF Begin, AllDeclared
<1>3. lists' = BegunLists(lists, 5 + Len(sketch.local), 2 + Len(sketch.remote))
  BY DeclaredLocallyFacts DEF Begin, begin
<1>4. lists' \in Lists /\ Begun(lists', sketch)
  BY <1>1, <1>2, <1>3, BegunFacts
<1>5. QED
  BY <1>4, BegunKeepsInv DEF Begin

LEMMA EndAndBeginKeepsInv ==
  ASSUME SetupInv, EndAndBegin
  PROVE  SetupInv'
<1>1. sketch \in Sketches /\ lists \in Lists /\ Begun(lists, sketch) /\ sketch.remote = << >>
  BY DEF SetupInv, SetupTypeOK, ListsInv, EndAndBegin
<1>2. lists' = lists
  BY <1>1, BegunAgain DEF EndAndBegin, begin
<1>3. QED
  BY <1>1, <1>2, BegunKeepsInv DEF EndAndBegin

(* begin() goes on.                                                        *)
LEMMA SameSequence ==
  ASSUME NEW S, NEW q \in Seq(S), NEW r \in Seq(S), Len(q) = Len(r), \A i \in 1 .. Len(q) : q[i] = r[i]
  PROVE  q = r
OBVIOUS

LEMMA AppendToOne ==
  ASSUME NEW a \in Nat, NEW k \in Nat
  PROVE  Append(<<a>>, k) = <<a, k>>
<1> DEFINE p == <<a>>
           q == Append(p, k)
           r == <<a, k>>
<1>1. r \in Seq(Nat) /\ Len(r) = 2 /\ r[1] = a /\ r[2] = k
  OBVIOUS
<1>2. p \in Seq(Nat) /\ Len(p) = 1 /\ p[1] = a
  OBVIOUS
<1> HIDE DEF p, r
<1>3. IsQueue(p) /\ q \in Seq(Nat)
  BY <1>2 DEF IsQueue
<1> HIDE DEF q
<1>4. Len(q) = Len(p) + 1 /\ q[Len(p) + 1] = k /\ \A i \in 1 .. Len(p) : q[i] = p[i]
  BY <1>3, AppendFacts DEF q
<1>5. Len(q) = 2 /\ q[1] = a /\ q[2] = k
  BY <1>2, <1>4
<1>6. \A i \in 1 .. Len(q) : i = 1 \/ i = 2
  BY <1>5
<1>7. q = r
  BY <1>1, <1>3, <1>5, <1>6, SameSequence
<1>8. QED
  BY <1>7 DEF p, q, r

LEMMA SendsTyped ==
  ASSUME NEW k \in Nat, Sends(k), commands \in Seq(Nat)
  PROVE  sent' \in Nat /\ commands' \in Seq(Nat)
BY DEF Sends

LEMMA SentFacts ==
  ASSUME NEW k \in Nat, Sends(k), commands \in Seq(Nat), commands \in {<< >>, <<RadioReset>>}
  PROVE  /\ sent' = k /\ commands' \in Seq(Nat)
         /\ commands' \in {<< >>, <<RadioReset>>, <<k>>, <<RadioReset, k>>}
<1>1. commands' = commands \/ commands' = Append(commands, k)
  BY DEF Sends
<1>2. Append(<< >>, k) = <<k>> /\ Append(<<RadioReset>>, k) = <<RadioReset, k>>
  BY AppendToOne DEF RadioReset
<1>3. Append(commands, k) \in Seq(Nat)
  OBVIOUS
<1>4. QED
  BY <1>1, <1>2, <1>3 DEF Sends

LEMMA GetsFacts ==
  ASSUME events \in Seq(ChipEvents), events # << >>, events' = Tail(events)
  PROVE  /\ events' \in Seq(ChipEvents)
         /\ Quiet(events) => Quiet(events') /\ ~Answers(Head(events))
         /\ AnsweredOnce(events) => IF Answers(Head(events)) THEN Quiet(events') ELSE AnsweredOnce(events')
BY TakenEvent

LEMMA TablesKept ==
  ASSUME SetupInv, UNCHANGED <<choices, tables>>, phase # "declaring", phase' # "declaring"
  PROVE  ListsInv' /\ DriverInv'
BY DEF SetupInv, ListsInv, DriverInv, choices, tables, Advertised, Scanned

LEMMA SetupModeReachedKeepsInv ==
  ASSUME SetupInv, SetupModeReached
  PROVE  SetupInv'
<1>1. /\ phase = "waiting" /\ phase' = "sending" /\ Sends(1) /\ UNCHANGED <<choices, tables, chip>>
      /\ events # << >> /\ events' = Tail(events)
  BY DEF SetupModeReached, Gets
<1>2. ListsInv' /\ DriverInv'
  BY <1>1, TablesKept
<1>3. /\ events' \in Seq(ChipEvents)
      /\ Quiet(events) => Quiet(events')
  BY <1>1, GetsFacts DEF SetupInv, SetupTypeOK
<1>4. CASE device = "nRF8001"
  <2>1. commands \in {<< >>, <<RadioReset>>} /\ Quiet(events) /\ commands \in Seq(Nat)
    BY <1>1, <1>4 DEF SetupInv, SetupTypeOK, WireInv
  <2>2. /\ sent' = 1 /\ commands' \in Seq(Nat)
        /\ commands' \in {<< >>, <<RadioReset>>, <<1>>, <<RadioReset, 1>>}
    BY <1>1, <2>1, SentFacts
  <2>3. SetupTypeOK'
    BY <1>1, <1>3, <2>2 DEF SetupInv, SetupTypeOK, choices, tables
  <2>4. Outstanding'
    BY <1>3, <2>1, <2>2 DEF Outstanding
  <2>5. 1 \in 1 .. Len(driver.messages)
    BY <1>1, <1>4, LastIsCRC
  <2>6. WireInv'
    BY <1>1, <2>2, <2>4, <2>5 DEF WireInv, tables
  <2>7. QED
    BY <1>2, <2>3, <2>6 DEF SetupInv
<1>5. CASE device # "nRF8001"
  <2>1. sent' \in Nat /\ commands' \in Seq(Nat)
    BY <1>1 DEF Sends, SetupInv, SetupTypeOK
  <2>2. SetupTypeOK'
    BY <1>1, <1>3, <2>1 DEF SetupInv, SetupTypeOK, choices, tables
  <2>3. WireInv'
    BY <1>1, <1>5 DEF WireInv, choices
  <2>4. QED
    BY <1>2, <2>2, <2>3 DEF SetupInv
<1>6. QED
  BY <1>4, <1>5

LEMMA MessageAnsweredKeepsInv ==
  ASSUME SetupInv, MessageAnswered
  PROVE  SetupInv'
<1> DEFINE n == Len(driver.messages)
<1>1. /\ phase = "sending" /\ UNCHANGED <<choices, tables, chip>>
      /\ events # << >> /\ events' = Tail(events) /\ Answers(Head(events))
      /\ IF sent < n THEN Sends(sent + 1) /\ UNCHANGED phase
         ELSE phase' = "running" /\ UNCHANGED <<sent, commands>>
  BY DEF MessageAnswered
<1>2. ListsInv' /\ DriverInv'
  BY <1>1, TablesKept
<1>3. /\ events' \in Seq(ChipEvents)
      /\ AnsweredOnce(events) => Quiet(events')
      /\ ~Quiet(events)
  BY <1>1, GetsFacts DEF SetupInv, SetupTypeOK
<1>4. sent' \in Nat /\ commands' \in Seq(Nat)
  <2>1. sent \in Nat /\ commands \in Seq(Nat)
    BY DEF SetupInv, SetupTypeOK
  <2>2. CASE sent < n
    BY <1>1, <2>1, <2>2, SendsTyped
  <2>3. CASE ~(sent < n)
    BY <1>1, <2>1, <2>3
  <2>4. QED
    BY <2>2, <2>3
<1>5. SetupTypeOK'
  BY <1>1, <1>3, <1>4 DEF SetupInv, SetupTypeOK, choices, tables
<1>6. WireInv'
  <2> SUFFICES ASSUME device = "nRF8001" PROVE WireInv'
    BY <1>1 DEF WireInv, choices
  <2>1. /\ sent \in 1 .. n /\ commands = << >> /\ Quiet(events')
        /\ driver.messages[sent].target = "crc" => chip.mode = "standby"
    BY <1>1, <1>3 DEF SetupInv, WireInv, Outstanding
  <2>2. n \in Nat /\ driver.messages[n].target = "crc"
    BY <1>1, LastIsCRC
  <2>3. CASE sent < n
    <3>1. sent + 1 \in Nat /\ Sends(sent + 1)
      BY <1>1, <2>1, <2>3
    <3>2. /\ sent' = sent + 1
          /\ commands' \in {<< >>, <<RadioReset>>, <<sent'>>, <<RadioReset, sent'>>}
      BY <2>1, <3>1, SentFacts
    <3>3. Outstanding'
      BY <2>1, <3>2 DEF Outstanding
    <3>4. sent' \in 1 .. n
      BY <2>1, <2>2, <2>3, <3>2
    <3>5. QED
      BY <1>1, <2>3, <3>3, <3>4 DEF WireInv, tables
  <2>4. CASE ~(sent < n)
    <3>1. sent = n
      BY <2>1, <2>2, <2>4
    <3>2. QED
      BY <1>1, <2>1, <2>2, <2>4, <3>1 DEF WireInv
  <2>5. QED
    BY <2>3, <2>4
<1>7. QED
  BY <1>2, <1>5, <1>6 DEF SetupInv

LEMMA EventDroppedKeepsInv ==
  ASSUME SetupInv, EventDropped
  PROVE  SetupInv'
<1>1. /\ phase = "sending" /\ UNCHANGED <<choices, tables, phase, sent, commands, chip>>
      /\ events # << >> /\ events' = Tail(events) /\ ~Answers(Head(events))
  BY DEF EventDropped
<1>2. ListsInv' /\ DriverInv'
  BY <1>1, TablesKept
<1>3. /\ events' \in Seq(ChipEvents)
      /\ Quiet(events) => Quiet(events')
      /\ AnsweredOnce(events) => AnsweredOnce(events')
  BY <1>1, GetsFacts DEF SetupInv, SetupTypeOK
<1>4. SetupTypeOK'
  BY <1>1, <1>3 DEF SetupInv, SetupTypeOK, choices, tables
<1>5. Outstanding => Outstanding'
  BY <1>1, <1>3 DEF Outstanding, tables
<1>6. WireInv'
  BY <1>1, <1>5 DEF SetupInv, WireInv, choices, tables
<1>7. QED
  BY <1>2, <1>4, <1>6 DEF SetupInv

(* The chip's steps.                                                       *)
LEMMA ChipStartsKeepsInv ==
  ASSUME SetupInv, ChipStarts
  PROVE  SetupInv'
<1>1. /\ chip.mode = "reset" /\ chip' = [chip EXCEPT !.mode = "setup"]
      /\ events' = Append(events, Started("setup"))
      /\ UNCHANGED <<choices, tables, phase, sent, commands>>
  BY DEF ChipStarts
<1>2. ListsInv' /\ DriverInv'
  BY <1>1 DEF SetupInv, ListsInv, DriverInv, choices, tables, Advertised, Scanned
<1>3. Started("setup") \in ChipEvents
  BY DEF ChipEvents
<1>4. /\ events' \in Seq(ChipEvents)
      /\ Quiet(events) => Quiet(events')
      /\ AnsweredOnce(events) => AnsweredOnce(events')
  BY <1>1, <1>3, AppendedEvent, AnswerFacts DEF SetupInv, SetupTypeOK
<1>5. DOMAIN chip' = {"mode", "expected"} /\ chip'.mode = "setup"
  BY <1>1 DEF SetupInv, SetupTypeOK
<1>6. SetupTypeOK'
  BY <1>1, <1>4, <1>5 DEF SetupInv, SetupTypeOK, choices, tables
<1>7. Outstanding => Outstanding'
  BY <1>1, <1>4 DEF Outstanding, tables
<1>8. WireInv'
  BY <1>1, <1>4, <1>7 DEF SetupInv, WireInv, choices, tables
<1>9. QED
  BY <1>2, <1>6, <1>8 DEF SetupInv

LEMMA ChipTakesKeepsInv ==
  ASSUME SetupInv, ChipTakes
  PROVE  SetupInv'
<1> DEFINE m == driver.messages[Head(commands)]
<1>1. commands # << >> /\ commands' = Tail(commands) /\ UNCHANGED <<choices, tables, phase, sent>>
  BY DEF ChipTakes
<1>2. ListsInv' /\ DriverInv'
  BY <1>1 DEF SetupInv, ListsInv, DriverInv, choices, tables, Advertised, Scanned
<1>3. commands \in Seq(Nat) /\ commands' \in Seq(Nat) /\ events \in Seq(ChipEvents)
  BY <1>1 DEF SetupInv, SetupTypeOK
<1>4. /\ DOMAIN chip' = {"mode", "expected"}
      /\ \/ /\ \E status \in {"state invalid", "error"} : events' = Append(events, Response(status))
            /\ chip' = chip
         \/ /\ Head(commands) # RadioReset /\ m.target # "crc"
            /\ events' = Append(events, Response("continue")) /\ chip'.mode = chip.mode
         \/ /\ Head(commands) # RadioReset
            /\ events' = events \o <<Response("complete"), Started("standby")>> /\ chip'.mode = "standby"
  <2>1. DOMAIN chip = {"mode", "expected"}
    BY DEF SetupInv, SetupTypeOK
  <2>2. QED
    BY <2>1 DEF ChipTakes
<1> HIDE DEF m
<1>5. /\ Response("state invalid") \in ChipEvents /\ Response("error") \in ChipEvents
      /\ Response("continue") \in ChipEvents
  BY DEF ChipEvents
<1>6. CASE device # "nRF8001"
  <2>1. events' \in Seq(ChipEvents)
    <3>1. events \o <<Response("complete"), Started("standby")>> \in Seq(ChipEvents)
      BY <1>3, CompletedEvents
    <3>2. QED
      BY <1>3, <1>4, <1>5, <3>1, AppendedEvent
  <2>2. chip'.mode \in {"setup", "reset", "standby"}
    BY <1>4 DEF SetupInv, SetupTypeOK
  <2>3. SetupTypeOK'
    BY <1>1, <1>3, <1>4, <2>1, <2>2 DEF SetupInv, SetupTypeOK, choices, tables
  <2>4. WireInv'
    BY <1>1, <1>6 DEF WireInv, choices
  <2>5. QED
    BY <1>2, <2>3, <2>4 DEF SetupInv
<1>7. CASE device = "nRF8001"
  <2>1. phase \in {"waiting", "sending"}
    BY <1>1, <1>7 DEF SetupInv, SetupTypeOK, WireInv
  <2>2. Quiet(events) /\ commands \in {<<RadioReset>>, <<sent>>, <<RadioReset, sent>>}
    BY <1>1, <1>7, <2>1 DEF SetupInv, WireInv, Outstanding
  <2>3. phase = "waiting" => commands = <<RadioReset>>
    BY <1>1, <1>7 DEF SetupInv, WireInv
  <2>4. sent \in Nat /\ (phase = "sending" => sent # RadioReset)
    BY <1>7 DEF SetupInv, SetupTypeOK, WireInv, RadioReset
  <2>5. commands = <<RadioReset>> => Head(commands) = RadioReset /\ commands' = << >>
    BY <1>1 DEF RadioReset
  <2>6. commands = <<sent>> => Head(commands) = sent /\ commands' = << >>
    BY <1>1, <2>4
  <2>7. commands = <<RadioReset, sent>> => Head(commands) = RadioReset /\ commands' = <<sent>>
    BY <1>1, <2>4 DEF RadioReset
  <2>8. commands' \in {<< >>, <<sent>>}
    BY <2>2, <2>5, <2>6, <2>7
  <2>9. CASE \E status \in {"state invalid", "error"} : events' = Append(events, Response(status)) /\ chip' = chip
    <3>1. events' \in Seq(ChipEvents) /\ Quiet(events') /\ chip' = chip
      BY <1>3, <1>5, <2>2, <2>9, AppendedEvent, AnswerFacts
    <3>2. SetupTypeOK'
      BY <1>1, <1>3, <3>1 DEF SetupInv, SetupTypeOK, choices, tables
    <3>3. Outstanding'
      BY <1>1, <2>8, <3>1 DEF Outstanding
    <3>4. WireInv'
      BY <1>1, <1>7, <2>1, <2>3, <2>5, <3>1, <3>3 DEF SetupInv, WireInv, choices, tables
    <3>5. QED
      BY <1>2, <3>2, <3>4 DEF SetupInv
  <2>10. CASE Head(commands) # RadioReset
    <3>1. Head(commands) = sent /\ commands' = << >> /\ phase = "sending"
      BY <2>1, <2>2, <2>3, <2>5, <2>6, <2>7, <2>10
    <3>2. m = driver.messages[sent]
      BY <3>1 DEF m
    <3>3. CASE /\ m.target # "crc" /\ events' = Append(events, Response("continue"))
               /\ chip'.mode = chip.mode
      <4>1. events' \in Seq(ChipEvents) /\ AnsweredOnce(events')
        BY <1>3, <1>5, <2>2, <3>3, AppendedEvent, AnswerFacts
      <4>2. Outstanding'
        BY <1>1, <3>1, <3>2, <3>3, <4>1 DEF Outstanding, tables
      <4>3. SetupTypeOK'
        BY <1>1, <1>3, <1>4, <3>3, <4>1 DEF SetupInv, SetupTypeOK, choices, tables
      <4>4. WireInv'
        BY <1>1, <1>7, <3>1, <4>2 DEF SetupInv, WireInv, choices, tables
      <4>5. QED
        BY <1>2, <4>3, <4>4 DEF SetupInv
    <3>4. CASE /\ events' = events \o <<Response("complete"), Started("standby")>>
               /\ chip'.mode = "standby"
      <4>1. events' \in Seq(ChipEvents) /\ AnsweredOnce(events')
        BY <1>3, <2>2, <3>4, CompletedEvents
      <4>2. Outstanding'
        BY <3>1, <3>4, <4>1 DEF Outstanding
      <4>3. SetupTypeOK'
        BY <1>1, <1>3, <1>4, <3>4, <4>1 DEF SetupInv, SetupTypeOK, choices, tables
      <4>4. WireInv'
        BY <1>1, <1>7, <3>1, <4>2 DEF SetupInv, WireInv, choices, tables
      <4>5. QED
        BY <1>2, <4>3, <4>4 DEF SetupInv
    <3>5. CASE \E status \in {"state invalid", "error"} : events' = Append(events, Response(status)) /\ chip' = chip
      BY <2>9, <3>5
    <3>6. QED
      BY <1>4, <3>3, <3>4, <3>5
  <2>11. QED
    BY <1>4, <2>9, <2>10
<1>8. QED
  BY <1>6, <1>7

LEMMA NextKeepsSetupInv ==
  ASSUME SetupInv, [Next]_vars
  PROVE  SetupInv'
<1>1. CASE UNCHANGED vars
  <2>1. UNCHANGED <<device, resetPin, sketch, lists, driver, phase, sent, commands, chip, events>>
    BY <1>1 DEF vars, choices, tables, wire
  <2>2. SetupTypeOK' /\ ListsInv' /\ DriverInv' /\ WireInv'
    BY <2>1 DEF SetupInv, SetupTypeOK, ListsInv, DriverInv, WireInv, Outstanding, Advertised, Scanned
  <2>3. QED
    BY <2>2 DEF SetupInv
<1>2. QED
  BY <1>1, addLocalAttributeKeepsInv, addRemoteAttributeKeepsInv, BeginKeepsInv, EndAndBeginKeepsInv,
     SetupModeReachedKeepsInv, MessageAnsweredKeepsInv, EventDroppedKeepsInv,
     ChipStartsKeepsInv, ChipTakesKeepsInv DEF Next, Loops, Chip

THEOREM SetupInvAlways == ProgramSpec => []SetupInv
<1>1. ProgramInit => SetupInv
  BY InitSetupInv DEF ProgramInit
<1>2. SetupInv /\ [ProgramNext]_programVars => SetupInv'
  <2> SUFFICES ASSUME SetupInv, [ProgramNext]_programVars PROVE SetupInv'
    OBVIOUS
  <2>1. [Next]_vars
    BY DEF ProgramNext, programVars, SettingUp, Calling
  <2>2. QED
    BY <2>1, NextKeepsSetupInv
<1>3. QED
  BY <1>1, <1>2, PTL DEF ProgramSpec

(* begin() returns only when the chip has taken every setup message and    *)
(* left the setup mode, whatever responses and starts were on the way      *)
(* (waitForSetupMode and sendSetupMessage).                                *)
THEOREM SetupIsComplete == ProgramSpec => []SetupComplete
<1>1. SetupInv => SetupComplete
  BY DEF SetupInv, WireInv, SetupComplete
<1>2. QED
  BY <1>1, SetupInvAlways, PTL

------------------------------------------------------------------------------
(* The advertisement: fields of some length, and the room that they take.  *)
FieldSized(n, fields, k) == n + fields[k].length + 2
Sizes == INSTANCE Iteration WITH Step <- FieldSized

AdFields ==
  [type : {"solicitation", "service", "manufacturer", "short name", "name"}, length : Nat]

LEMMA SizeIterated ==
  ASSUME NEW s \in Seq(AdFields)
  PROVE  LET f == Sizes!Iterated(0, s, Len(s))
         IN  /\ SizeOf(s) = f[Len(s)]
             /\ f[0] = 0 /\ \A k \in 1 .. Len(s) : f[k] = f[k - 1] + s[k].length + 2
<1> DEFINE f == Sizes!Iterated(0, s, Len(s))
<1>1. Len(s) \in Nat
  OBVIOUS
<1>2. SizeOf(s) = f[Len(s)]
  BY DEF SizeOf, Sizes!Iterated, FieldSized
<1>3. f[0] = 0 /\ \A k \in 1 .. Len(s) : f[k] = FieldSized(f[k - 1], s, k)
  BY <1>1, Sizes!Iterates
<1> HIDE DEF f
<1>4. \A k \in 1 .. Len(s) : f[k] = f[k - 1] + s[k].length + 2
  BY <1>3 DEF FieldSized
<1>5. QED
  BY <1>2, <1>3, <1>4 DEF f

LEMMA EmptySize == SizeOf(<< >>) = 0
<1>1. << >> \in Seq(AdFields) /\ Len(<< >>) = 0
  OBVIOUS
<1>2. QED
  BY <1>1, SizeIterated

LEMMA AppendedSize ==
  ASSUME NEW s \in Seq(AdFields), NEW x \in AdFields
  PROVE  /\ Append(s, x) \in Seq(AdFields)
         /\ SizeOf(s) \in Nat /\ SizeOf(Append(s, x)) = SizeOf(s) + x.length + 2
<1> DEFINE n == Len(s)
           t == Append(s, x)
           f == Sizes!Iterated(0, s, Len(s))
           g == Sizes!Iterated(0, t, Len(t))
           T == {i \in Nat : i <= n => g[i] = f[i] /\ f[i] \in Nat}
<1>1. n \in Nat /\ t \in Seq(AdFields) /\ Len(t) = n + 1 /\ t[n + 1] = x
      /\ \A k \in 1 .. n : t[k] = s[k] /\ s[k].length \in Nat
  <2>1. n \in Nat /\ t \in Seq(AdFields) /\ Len(t) = n + 1 /\ t[n + 1] = x
        /\ \A k \in 1 .. n : t[k] = s[k] /\ s[k] \in AdFields
    OBVIOUS
  <2>2. \A y \in AdFields : y.length \in Nat
    BY DEF AdFields
  <2>3. QED
    BY <2>1, <2>2
<1>2. SizeOf(s) = f[n] /\ f[0] = 0 /\ \A k \in 1 .. n : f[k] = f[k - 1] + s[k].length + 2
  BY SizeIterated
<1> HIDE DEF t, f
<1>3. SizeOf(t) = g[n + 1] /\ g[0] = 0 /\ \A k \in 1 .. n + 1 : g[k] = g[k - 1] + t[k].length + 2
  BY <1>1, SizeIterated
<1> HIDE DEF g, n
<1>4. 0 \in T
  BY <1>2, <1>3
<1>5. ASSUME NEW i \in Nat, i \in T PROVE i + 1 \in T
  <2> SUFFICES ASSUME i + 1 <= n PROVE g[i + 1] = f[i + 1] /\ f[i + 1] \in Nat
    OBVIOUS
  <2>1. g[i] = f[i] /\ f[i] \in Nat
    BY <1>1, <1>5
  <2>2. i + 1 \in 1 .. n /\ i + 1 \in 1 .. n + 1 /\ (i + 1) - 1 = i
    BY <1>1
  <2> HIDE DEF T
  <2>3. f[i + 1] = f[i] + s[i + 1].length + 2 /\ g[i + 1] = g[i] + t[i + 1].length + 2
    BY <1>2, <1>3, <2>2
  <2>4. QED
    BY <1>1, <2>1, <2>2, <2>3
<1> HIDE DEF T
<1>6. \A i \in Nat : i \in T
  BY <1>4, <1>5, Sizes!SetInduction
<1>7. g[n] = f[n] /\ f[n] \in Nat
  BY <1>1, <1>6 DEF T
<1>8. g[n + 1] = g[n] + x.length + 2
  <2>1. n + 1 \in 1 .. n + 1 /\ (n + 1) - 1 = n
    BY <1>1
  <2>2. QED
    BY <1>1, <1>3, <2>1
<1>9. QED
  BY <1>1, <1>2, <1>3, <1>7, <1>8 DEF t

LEMMA MinPair ==
  ASSUME NEW a \in Nat, NEW b \in Nat
  PROVE  Min({a, b}) \in Nat /\ Min({a, b}) <= a /\ Min({a, b}) <= b
<1>1. {a, b} \subseteq Nat /\ {a, b} # {}
  OBVIOUS
<1>2. Min({a, b}) \in {a, b} /\ \A y \in {a, b} : Min({a, b}) <= y
  BY <1>1, MinOfNaturals
<1>3. QED
  BY <1>2

(* No field longer than a limit, and together no longer than a room.       *)
Assembled(fields, limit, room) ==
  /\ fields \in Seq(AdFields) /\ SizeOf(fields) \in Nat /\ SizeOf(fields) <= room
  /\ \A k \in 1 .. Len(fields) : fields[k].length <= limit

LEMMA NothingAssembled ==
  ASSUME NEW limit \in Nat, NEW room \in Nat
  PROVE  Assembled(<< >>, limit, room)
BY EmptySize DEF Assembled

LEMMA AppendAssembled ==
  ASSUME NEW limit \in Nat, NEW room \in Nat, NEW s, Assembled(s, limit, room), NEW x \in AdFields,
         x.length <= limit, SizeOf(s) + x.length + 2 <= room
  PROVE  Assembled(Append(s, x), limit, room)
<1> DEFINE t == Append(s, x)
           n == Len(s)
<1>1. s \in Seq(AdFields) /\ \A k \in 1 .. n : s[k].length <= limit
  BY DEF Assembled
<1>2. /\ t \in Seq(AdFields) /\ SizeOf(s) \in Nat /\ x.length \in Nat
      /\ SizeOf(t) = SizeOf(s) + x.length + 2
  BY <1>1, AppendedSize DEF AdFields
<1>3. n \in Nat /\ Len(t) = n + 1 /\ t[n + 1] = x /\ \A k \in 1 .. n : t[k] = s[k]
  BY <1>1
<1> HIDE DEF t, n
<1>4. SizeOf(t) \in Nat /\ SizeOf(t) <= room
  BY <1>2
<1>5. \A k \in 1 .. Len(t) : t[k].length <= limit
  <2> TAKE k \in 1 .. Len(t)
  <2>1. k \in 1 .. n \/ k = n + 1
    BY <1>3
  <2>2. QED
    BY <1>1, <1>3, <2>1
<1>6. QED
  BY <1>2, <1>4, <1>5 DEF Assembled, t

LEMMA FieldFacts ==
  ASSUME NEW n \in Nat,
         NEW t \in {"solicitation", "service", "manufacturer", "short name", "name"}
  PROVE  Field(t, n) \in AdFields /\ Field(t, n).length = n
BY DEF Field, AdFields

LEMMA AdvertisementFacts ==
  ASSUME NEW settings \in Settings, NEW limits, NEW n \in Nat, n >= 16, limits.advertisement = n
  PROVE  Assembled(AdvertisementData(settings, limits), n, n + 2)
<1> DEFINE room == limits.advertisement + 2
           asks == Field("solicitation", settings.solicitation)
           offers == Field("service", settings.service)
           solicited == IF settings.solicitation = 0 THEN << >> ELSE <<asks>>
           served == IF settings.service = 0 \/ SizeOf(solicited) + settings.service + 2 > room
                     THEN solicited ELSE Append(solicited, offers)
           left == room - SizeOf(served)
           made == Field("manufacturer", Min({settings.manufacturer, left - 2}))
           v == AdvertisementData(settings, limits)
<1>1. v = IF settings.manufacturer = 0 \/ left < 3 THEN served ELSE Append(served, made)
  BY DEF AdvertisementData
<1>2. /\ settings.solicitation \in Nat /\ settings.solicitation <= 16
      /\ settings.service \in Nat /\ settings.service <= 16 /\ settings.manufacturer \in Nat
  BY DEF Settings
<1>3. room = n + 2 /\ room \in Nat
  OBVIOUS
<1>4. Assembled(<< >>, n, room)
  BY <1>3, NothingAssembled
<1>5. asks \in AdFields /\ asks.length <= n /\ asks.length + 2 <= room
  <2>1. asks \in AdFields /\ asks.length = settings.solicitation
    BY <1>2, FieldFacts
  <2> HIDE DEF asks, room
  <2>2. QED
    BY <1>2, <1>3, <2>1
<1>6. offers \in AdFields /\ offers.length = settings.service
  BY <1>2, FieldFacts
<1> HIDE DEF room, asks, offers, v
<1>7. Assembled(solicited, n, room)
  <2>1. Append(<< >>, asks) = <<asks>>
    BY <1>5
  <2>2. asks.length \in Nat
    BY <1>5 DEF AdFields
  <2>3. Assembled(Append(<< >>, asks), n, room)
    <3>1. SizeOf(<< >>) + asks.length + 2 <= room
      BY <1>5, <2>2, EmptySize
    <3>2. QED
      BY <1>3, <1>4, <1>5, <3>1, AppendAssembled
  <2>4. QED
    BY <1>4, <2>1, <2>3
<1> HIDE DEF solicited
<1>8. Assembled(served, n, room)
  <2>1. CASE ~(settings.service = 0 \/ SizeOf(solicited) + settings.service + 2 > room)
    <3>1. SizeOf(solicited) \in Nat
      BY <1>7 DEF Assembled
    <3>2. offers.length <= n /\ SizeOf(solicited) + offers.length + 2 <= room
      BY <1>2, <1>3, <1>6, <2>1, <3>1
    <3>3. Assembled(Append(solicited, offers), n, room)
      BY <1>3, <1>6, <1>7, <3>2, AppendAssembled
    <3>4. QED
      BY <2>1, <3>3
  <2>2. QED
    BY <1>7, <2>1
<1> HIDE DEF served
<1>9. left \in Nat /\ left <= n + 2 /\ SizeOf(served) \in Nat /\ left = room - SizeOf(served)
  BY <1>3, <1>8 DEF Assembled
<1> HIDE DEF left
<1>10. CASE ~(settings.manufacturer = 0 \/ left < 3)
  <2>1. left - 2 \in Nat
    BY <1>9, <1>10
  <2> DEFINE m == Min({settings.manufacturer, left - 2})
  <2>2. m \in Nat /\ m <= left - 2
    BY <1>2, <2>1, MinPair
  <2>3. made \in AdFields /\ made.length = m
    BY <2>2, FieldFacts
  <2> HIDE DEF m, made
  <2>4. made.length <= n /\ SizeOf(served) + made.length + 2 <= room
    BY <1>3, <1>9, <2>1, <2>2, <2>3
  <2>5. Assembled(Append(served, made), n, room)
    BY <1>3, <1>8, <2>3, <2>4, AppendAssembled
  <2>6. QED
    BY <1>1, <1>3, <1>10, <2>5 DEF v
<1>11. QED
  BY <1>1, <1>3, <1>8, <1>10 DEF v

LEMMA ScanFacts ==
  ASSUME NEW settings \in Settings, NEW limits, NEW n \in Nat, limits.scan = n
  PROVE  Assembled(ScanData(settings, limits), n, n + 2)
<1> DEFINE m == Min({settings.name, n})
           type == IF settings.name > n THEN "short name" ELSE "name"
           x == Field(type, m)
           room == n + 2
<1>1. settings.name \in Nat
  BY DEF Settings
<1>2. m \in Nat /\ m <= n
  BY <1>1, MinPair
<1>3. ScanData(settings, limits) = IF settings.name = 0 THEN << >> ELSE <<x>>
  BY DEF ScanData
<1> HIDE DEF m
<1>4. x \in AdFields /\ x.length = m
  BY <1>2, FieldFacts
<1> HIDE DEF x
<1>5. room \in Nat /\ Assembled(<< >>, n, room)
  BY NothingAssembled
<1>6. x.length <= n /\ SizeOf(<< >>) + x.length + 2 <= room
  BY <1>2, <1>4, EmptySize
<1> HIDE DEF room
<1>7. Assembled(Append(<< >>, x), n, room)
  BY <1>4, <1>5, <1>6, AppendAssembled
<1>8. Append(<< >>, x) = <<x>>
  BY <1>4
<1>9. QED
  BY <1>3, <1>5, <1>7, <1>8 DEF room

------------------------------------------------------------------------------
(* The records of the nRF51822: of all characteristics but the three that  *)
(* the SoftDevice has.                                                     *)
Registering == INSTANCE Iteration WITH Step <- Registered
RemoteRegistering == INSTANCE Iteration WITH Step <- RemoteRegistered

CharacteristicsBefore(list, n) == Cardinality(UpTo({i \in Nat : IsCharacteristic(list[i])}, n))
ServicesBefore(list, n) == Cardinality(UpTo({i \in Nat : IsService(list[i])}, n))

LEMMA CharacteristicsCounted ==
  ASSUME NEW list
  PROVE  /\ CharacteristicsBefore(list, 0) = 0
         /\ \A n \in Nat :
              /\ CharacteristicsBefore(list, n) \in Nat
              /\ CharacteristicsBefore(list, n + 1) =
                   IF IsCharacteristic(list[n + 1]) THEN CharacteristicsBefore(list, n) + 1
                   ELSE CharacteristicsBefore(list, n)
<1> DEFINE S == {i \in Nat : IsCharacteristic(list[i])}
<1>1. \A n \in Nat : n + 1 \in S <=> IsCharacteristic(list[n + 1])
  OBVIOUS
<1>2. \A n : CharacteristicsBefore(list, n) = Cardinality(UpTo(S, n))
  BY DEF CharacteristicsBefore
<1> HIDE DEF S
<1>3. QED
  BY <1>1, <1>2, CountedUpTo

LEMMA ServicesCounted ==
  ASSUME NEW list
  PROVE  /\ ServicesBefore(list, 0) = 0
         /\ \A n \in Nat :
              /\ ServicesBefore(list, n) \in Nat
              /\ ServicesBefore(list, n + 1) =
                   IF IsService(list[n + 1]) THEN ServicesBefore(list, n) + 1
                   ELSE ServicesBefore(list, n)
<1> DEFINE S == {i \in Nat : IsService(list[i])}
<1>1. \A n \in Nat : n + 1 \in S <=> IsService(list[n + 1])
  OBVIOUS
<1>2. \A n : ServicesBefore(list, n) = Cardinality(UpTo(S, n))
  BY DEF ServicesBefore
<1> HIDE DEF S
<1>3. QED
  BY <1>1, <1>2, CountedUpTo

LEMMA ListCounted ==
  ASSUME NEW S, NEW list \in Seq(S)
  PROVE  /\ CountOf(list, IsCharacteristic) = CharacteristicsBefore(list, Len(list))
         /\ CountOf(list, IsService) = ServicesBefore(list, Len(list))
<1>1. DOMAIN list = 1 .. Len(list)
  OBVIOUS
<1>2. /\ CountOf(list, IsCharacteristic) = Cardinality({i \in DOMAIN list : IsCharacteristic(list[i])})
      /\ CountOf(list, IsService) = Cardinality({i \in DOMAIN list : IsService(list[i])})
  BY DEF CountOf
<1>3. /\ {i \in 1 .. Len(list) : IsCharacteristic(list[i])} = UpTo({i \in Nat : IsCharacteristic(list[i])}, Len(list))
      /\ {i \in 1 .. Len(list) : IsService(list[i])} = UpTo({i \in Nat : IsService(list[i])}, Len(list))
  BY DEF UpTo
<1>4. QED
  BY <1>1, <1>2, <1>3 DEF CharacteristicsBefore, ServicesBefore

WithRecords(w) == DOMAIN w = {"added", "service", "records", "described"} /\ IsQueue(w.records)

LEMMA RegisteredFacts ==
  \A w, list, i :
    WithRecords(w) =>
      LET v == Registered(w, list, i)
      IN  /\ WithRecords(v)
          /\ Len(v.records) \in {Len(w.records), Len(w.records) + 1}
          /\ ~IsCharacteristic(list[i]) \/ OwnCharacteristic(list[i]) => v.records = w.records
<1> SUFFICES ASSUME NEW w, NEW list, NEW i, WithRecords(w)
             PROVE  LET v == Registered(w, list, i)
                    IN  /\ WithRecords(v)
                        /\ Len(v.records) \in {Len(w.records), Len(w.records) + 1}
                        /\ ~IsCharacteristic(list[i]) \/ OwnCharacteristic(list[i]) => v.records = w.records
  OBVIOUS
<1> DEFINE v == Registered(w, list, i)
           a == list[i]
           x == [characteristic |-> i, service |-> w.service]
<1>1. CASE IsCharacteristic(a) /\ ~OwnCharacteristic(a)
  <2>1. ~IsService(a)
    BY <1>1 DEF IsService, IsCharacteristic
  <2>2. DOMAIN v = DOMAIN w /\ v.records = Append(w.records, x)
    BY <1>1, <2>1 DEF Registered, WithRecords
  <2> HIDE DEF v, a, x
  <2>3. IsQueue(v.records) /\ Len(v.records) = Len(w.records) + 1
    BY <2>2, AppendFacts DEF WithRecords
  <2>4. QED
    BY <1>1, <2>2, <2>3 DEF WithRecords, v, a
<1>2. CASE ~(IsCharacteristic(a) /\ ~OwnCharacteristic(a))
  <2>1. DOMAIN v = DOMAIN w /\ v.records = w.records
    <3>1. CASE IsService(a)
      <4> DEFINE y == Append(w.added, [kind |-> "service", attribute |-> i, within |-> w.service])
      <4>1. ~IsCharacteristic(a)
        BY <3>1 DEF IsService, IsCharacteristic
      <4>2. v = IF SkippedService(a) THEN w ELSE [w EXCEPT !.added = y, !.service = i]
        BY <3>1, <4>1 DEF Registered
      <4> HIDE DEF v, y
      <4>3. QED
        BY <4>2 DEF WithRecords
    <3>2. CASE IsCharacteristic(a)
      <4>1. ~IsService(a)
        BY <3>2 DEF IsService, IsCharacteristic
      <4>2. QED
        BY <1>2, <3>2, <4>1 DEF Registered
    <3>3. CASE ~IsService(a) /\ ~IsCharacteristic(a)
      BY <3>3 DEF Registered, WithRecords
    <3>4. QED
      BY <3>1, <3>2, <3>3
  <2> HIDE DEF v, a
  <2>2. QED
    BY <1>2, <2>1 DEF WithRecords, v, a
<1>3. QED
  BY <1>1, <1>2

(* Of the five attributes every peripheral has, three are characteristics, *)
(* and those get no records.                                               *)
OwnFirst(list) ==
  /\ \A i \in {1, 4} : ~IsCharacteristic(list[i])
  /\ \A i \in {2, 3, 5} : IsCharacteristic(list[i]) /\ OwnCharacteristic(list[i])

LEMMA GenericOwn ==
  ASSUME NEW list, \A k \in 1 .. 5 : list[k] = GenericAttributes[k]
  PROVE  OwnFirst(list)
<1>1. /\ list[1] = Service("1800", 2) /\ list[2] = Characteristic("2a00", 2, {"read"}, 19)
      /\ list[3] = Characteristic("2a01", 2, {"read"}, 2) /\ list[4] = Service("1801", 2)
      /\ list[5] = Characteristic("2a05", 2, {"indicate"}, 4)
  BY DEF GenericAttributes
<1>2. \A u : ~IsCharacteristic(Service(u, 2))
  BY DEF IsCharacteristic, Service, Attribute
<1>3. \A u, p, n : /\ IsCharacteristic(Characteristic(u, 2, p, n))
                   /\ Characteristic(u, 2, p, n).uuid = u
  BY DEF IsCharacteristic, Characteristic, Attribute
<1>4. ~IsCharacteristic(list[1]) /\ ~IsCharacteristic(list[4])
  BY <1>1, <1>2
<1>5. /\ IsCharacteristic(list[2]) /\ list[2].uuid = "2a00"
      /\ IsCharacteristic(list[3]) /\ list[3].uuid = "2a01"
      /\ IsCharacteristic(list[5]) /\ list[5].uuid = "2a05"
  BY <1>1, <1>3
<1>6. QED
  BY <1>4, <1>5 DEF OwnFirst, OwnCharacteristic

RecordsWithin(w, list, i) ==
  /\ WithRecords(w)
  /\ IF i <= 5 THEN Len(w.records) = 0
     ELSE Len(w.records) + 3 <= CharacteristicsBefore(list, i)

LEMMA FirstCounted ==
  ASSUME NEW list, OwnFirst(list)
  PROVE  CharacteristicsBefore(list, 5) = 3
<1> DEFINE n(i) == CharacteristicsBefore(list, i)
<1>1. n(0) = 0 /\ \A i \in Nat : n(i + 1) = IF IsCharacteristic(list[i + 1]) THEN n(i) + 1 ELSE n(i)
  BY CharacteristicsCounted
<1>2. /\ ~IsCharacteristic(list[1]) /\ ~IsCharacteristic(list[4])
      /\ IsCharacteristic(list[2]) /\ IsCharacteristic(list[3]) /\ IsCharacteristic(list[5])
  BY DEF OwnFirst
<1> HIDE DEF n
<1>3. /\ n(0 + 1) = n(0) /\ n(1 + 1) = n(1) + 1 /\ n(2 + 1) = n(2) + 1
      /\ n(3 + 1) = n(3) /\ n(4 + 1) = n(4) + 1
  BY <1>1, <1>2
<1>4. n(5) = 3
  BY <1>1, <1>3
<1>5. QED
  BY <1>4 DEF n

LEMMA RecordsKeptWithin ==
  ASSUME NEW list, OwnFirst(list), NEW i \in Nat, NEW w, RecordsWithin(w, list, i)
  PROVE  RecordsWithin(Registered(w, list, i + 1), list, i + 1)
<1> DEFINE v == Registered(w, list, i + 1)
           n(k) == CharacteristicsBefore(list, k)
<1>1. /\ WithRecords(v)
      /\ Len(v.records) \in {Len(w.records), Len(w.records) + 1}
      /\ ~IsCharacteristic(list[i + 1]) \/ OwnCharacteristic(list[i + 1]) => v.records = w.records
  BY RegisteredFacts DEF RecordsWithin
<1>2. n(i) \in Nat /\ n(i + 1) = IF IsCharacteristic(list[i + 1]) THEN n(i) + 1 ELSE n(i)
  BY CharacteristicsCounted
<1>3. n(5) = 3
  BY FirstCounted
<1>4. Len(w.records) \in Nat
  BY QueueFacts DEF RecordsWithin, WithRecords
<1> HIDE DEF v, n
<1>5. CASE i + 1 <= 5
  <2>1. Len(w.records) = 0 /\ i + 1 \in {1, 2, 3, 4, 5}
    BY <1>5 DEF RecordsWithin
  <2>2. v.records = w.records
    BY <1>1, <2>1 DEF OwnFirst
  <2>3. QED
    BY <1>1, <1>5, <2>1, <2>2 DEF RecordsWithin, v
<1>6. CASE i + 1 > 5
  <2>1. Len(w.records) + 3 <= n(i)
    <3>1. CASE i = 5
      BY <1>3, <3>1 DEF RecordsWithin
    <3>2. CASE i # 5
      BY <1>6, <3>2 DEF RecordsWithin, n
    <3>3. QED
      BY <3>1, <3>2
  <2>2. Len(v.records) + 3 <= n(i + 1)
    <3>1. CASE IsCharacteristic(list[i + 1])
      <4>1. n(i + 1) = n(i) + 1
        BY <1>2, <3>1
      <4>2. Len(v.records) \in Nat /\ Len(v.records) <= Len(w.records) + 1
        BY <1>1, <1>4
      <4>3. QED
        BY <1>2, <1>4, <2>1, <4>1, <4>2
    <3>2. CASE ~IsCharacteristic(list[i + 1])
      BY <1>1, <1>2, <2>1, <3>2
    <3>3. QED
      BY <3>1, <3>2
  <2>3. QED
    BY <1>1, <1>6, <2>2 DEF RecordsWithin, v, n
<1>7. QED
  BY <1>5, <1>6

LEMMA LocalRecordsFit ==
  ASSUME NEW S, NEW list \in Seq(S), OwnFirst(list), Len(list) >= 5
  PROVE  Len(LocalsRegistered(list).records) <= LocalRoom(list)
<1> DEFINE n == Len(list)
           f == Registering!Iterated(NoneRegistered, list, n)
           T == {i \in Nat : i <= n => RecordsWithin(f[i], list, i)}
<1>1. n \in Nat
  OBVIOUS
<1>2. LocalsRegistered(list) = f[n]
  BY DEF LocalsRegistered, Registering!Iterated
<1> HIDE DEF n
<1>3. f[0] = NoneRegistered /\ \A i \in 1 .. n : f[i] = Registered(f[i - 1], list, i)
  BY <1>1, Registering!Iterates
<1> HIDE DEF f
<1>4. 0 \in T
  BY <1>3, EmptyFacts DEF RecordsWithin, WithRecords, NoneRegistered
<1>5. ASSUME NEW i \in Nat, i \in T PROVE i + 1 \in T
  <2> SUFFICES ASSUME i + 1 <= n PROVE RecordsWithin(f[i + 1], list, i + 1)
    OBVIOUS
  <2>1. f[i + 1] = Registered(f[i], list, i + 1)
    BY <1>1, <1>3
  <2>2. RecordsWithin(f[i], list, i)
    BY <1>1, <1>5
  <2> HIDE DEF T
  <2>3. QED
    BY <2>1, <2>2, RecordsKeptWithin
<1> HIDE DEF T
<1>6. \A i \in Nat : i \in T
  BY <1>4, <1>5, Registering!SetInduction
<1>7. RecordsWithin(f[n], list, n)
  BY <1>1, <1>6 DEF T
<1>8. Len(f[n].records) + 3 <= CharacteristicsBefore(list, n)
  <2>1. CharacteristicsBefore(list, 5) = 3
    BY FirstCounted
  <2>2. n >= 5
    BY DEF n
  <2>3. CASE n = 5
    BY <1>7, <2>1, <2>3 DEF RecordsWithin
  <2>4. CASE n # 5
    BY <1>1, <1>7, <2>2, <2>4 DEF RecordsWithin
  <2>5. QED
    BY <2>3, <2>4
<1>9. LocalRoom(list) = CharacteristicsBefore(list, n) - 3
  BY ListCounted DEF LocalRoom, n
<1>10. Len(f[n].records) \in Nat /\ CharacteristicsBefore(list, n) \in Nat
  BY <1>1, <1>7, QueueFacts, CharacteristicsCounted DEF RecordsWithin, WithRecords
<1>11. QED
  BY <1>2, <1>8, <1>9, <1>10

(* The remote attributes without the two at the end are the sketch's, and  *)
(* each is a service or a characteristic.                                  *)
EachRegistered(w, list, i) ==
  /\ DOMAIN w = {"services", "characteristics", "last"}
  /\ IsQueue(w.services) /\ Len(w.services) = ServicesBefore(list, i)
  /\ IsQueue(w.characteristics) /\ Len(w.characteristics) = CharacteristicsBefore(list, i)

LEMMA RemoteRegisteredFacts ==
  ASSUME NEW w, NEW list, NEW i \in Nat, EachRegistered(w, list, i),
         IsService(list[i + 1]) \/ IsCharacteristic(list[i + 1])
  PROVE  EachRegistered(RemoteRegistered(w, list, i + 1), list, i + 1)
<1> DEFINE v == RemoteRegistered(w, list, i + 1)
           x == [characteristic |-> i + 1, service |-> w.last]
<1>1. /\ DOMAIN w = {"services", "characteristics", "last"}
      /\ IsQueue(w.services) /\ IsQueue(w.characteristics)
      /\ Len(w.services) = ServicesBefore(list, i)
      /\ Len(w.characteristics) = CharacteristicsBefore(list, i)
  BY DEF EachRegistered
<1>2. CASE IsService(list[i + 1])
  <2>1. ~IsCharacteristic(list[i + 1])
    BY <1>2 DEF IsService, IsCharacteristic
  <2>2. DOMAIN v = DOMAIN w /\ v.services = Append(w.services, i + 1) /\ v.characteristics = w.characteristics
    BY <1>1, <1>2 DEF RemoteRegistered
  <2> HIDE DEF v
  <2>3. IsQueue(v.services) /\ Len(v.services) = Len(w.services) + 1
    BY <1>1, <2>2, AppendFacts
  <2>4. ServicesBefore(list, i + 1) = ServicesBefore(list, i) + 1
        /\ CharacteristicsBefore(list, i + 1) = CharacteristicsBefore(list, i)
    BY <1>2, <2>1, ServicesCounted, CharacteristicsCounted
  <2>5. QED
    BY <1>1, <2>2, <2>3, <2>4 DEF EachRegistered, v
<1>3. CASE ~IsService(list[i + 1])
  <2>1. IsCharacteristic(list[i + 1])
    BY <1>3
  <2>2. DOMAIN v = DOMAIN w /\ v.services = w.services /\ v.characteristics = Append(w.characteristics, x)
    BY <1>1, <1>3 DEF RemoteRegistered
  <2> HIDE DEF v, x
  <2>3. IsQueue(v.characteristics) /\ Len(v.characteristics) = Len(w.characteristics) + 1
    BY <1>1, <2>2, AppendFacts
  <2>4. ServicesBefore(list, i + 1) = ServicesBefore(list, i)
        /\ CharacteristicsBefore(list, i + 1) = CharacteristicsBefore(list, i) + 1
    BY <1>3, <2>1, ServicesCounted, CharacteristicsCounted
  <2>5. QED
    BY <1>1, <2>2, <2>3, <2>4 DEF EachRegistered, v
<1>4. QED
  BY <1>2, <1>3

LEMMA RemoteRecordsFit ==
  ASSUME NEW list \in Seq(RemoteAttributes), list = << >> \/ Len(list) >= 2
  PROVE  /\ Len(RemotesRegistered(list).services) = RemoteRoom(list).services
         /\ Len(RemotesRegistered(list).characteristics) = RemoteRoom(list).characteristics
         /\ RemoteRoom(list).services \in Nat /\ RemoteRoom(list).characteristics \in Nat
<1> DEFINE own == Own(list)
           n == Len(own)
           f == RemoteRegistering!Iterated(NoRemoteRegistered, list, n)
           T == {i \in Nat : i <= n => EachRegistered(f[i], own, i)}
<1>1. /\ own \in Seq(RemoteAttributes) /\ n \in Nat
      /\ \A i \in 1 .. n : own[i] = list[i]
  <2>1. CASE list = << >>
    BY <2>1 DEF Own
  <2>2. CASE list # << >>
    <3>1. own = SubSeq(list, 1, Len(list) - 2) /\ Len(list) >= 2
      BY <2>2 DEF Own
    <3> HIDE DEF own
    <3>2. Len(list) - 2 \in Nat /\ Len(list) - 2 <= Len(list)
      BY <3>1
    <3>3. own \in Seq(RemoteAttributes)
      BY <3>1, <3>2
    <3>4. \A i \in 1 .. n : own[i] = list[i]
      BY <3>1, <3>2
    <3>5. QED
      BY <3>3, <3>4
  <2>3. QED
    BY <2>1, <2>2
<1>2. RemotesRegistered(list) = f[n]
  BY DEF RemotesRegistered, RemoteRegistering!Iterated
<1> HIDE DEF own
<1>3. \A i \in 1 .. n : IsService(own[i]) \/ IsCharacteristic(own[i])
  <2>1. \A a \in RemoteAttributes : IsService(a) \/ IsCharacteristic(a)
    BY DEF RemoteAttributes, Attributes, IsService, IsCharacteristic
  <2>2. \A i \in 1 .. n : own[i] \in RemoteAttributes
    BY <1>1, ElementFacts
  <2>3. QED
    BY <2>1, <2>2
<1> HIDE DEF n
<1>4. f[0] = NoRemoteRegistered /\ \A i \in 1 .. n : f[i] = RemoteRegistered(f[i - 1], list, i)
  BY <1>1, RemoteRegistering!Iterates
<1> HIDE DEF f
<1>5. 0 \in T
  <2>1. ServicesBefore(own, 0) = 0 /\ CharacteristicsBefore(own, 0) = 0
    BY ServicesCounted, CharacteristicsCounted
  <2>2. EachRegistered(NoRemoteRegistered, own, 0)
    BY <2>1, EmptyFacts DEF EachRegistered, NoRemoteRegistered
  <2>3. QED
    BY <1>4, <2>2
<1>6. ASSUME NEW i \in Nat, i \in T PROVE i + 1 \in T
  <2> SUFFICES ASSUME i + 1 <= n PROVE EachRegistered(f[i + 1], own, i + 1)
    OBVIOUS
  <2>1. f[i + 1] = RemoteRegistered(f[i], list, i + 1) /\ i + 1 \in 1 .. n
    BY <1>1, <1>4
  <2>2. EachRegistered(f[i], own, i)
    BY <1>1, <1>6
  <2> HIDE DEF T
  <2>3. RemoteRegistered(f[i], list, i + 1) = RemoteRegistered(f[i], own, i + 1)
    BY <1>1, <2>1 DEF RemoteRegistered
  <2>4. EachRegistered(RemoteRegistered(f[i], own, i + 1), own, i + 1)
    BY <1>3, <2>1, <2>2, RemoteRegisteredFacts
  <2>5. QED
    BY <2>1, <2>3, <2>4
<1> HIDE DEF T
<1>7. \A i \in Nat : i \in T
  BY <1>5, <1>6, RemoteRegistering!SetInduction
<1>8. EachRegistered(f[n], own, n)
  BY <1>1, <1>7 DEF T
<1>9. /\ RemoteRoom(list).services = ServicesBefore(own, n)
      /\ RemoteRoom(list).characteristics = CharacteristicsBefore(own, n)
  <2>1. /\ CountOf(own, IsService) = ServicesBefore(own, n)
        /\ CountOf(own, IsCharacteristic) = CharacteristicsBefore(own, n)
    BY <1>1, ListCounted DEF n
  <2>2. RemoteRoom(list) = [services |-> CountOf(own, IsService),
                            characteristics |-> CountOf(own, IsCharacteristic)]
    BY DEF RemoteRoom, own
  <2>3. QED
    BY <2>1, <2>2
<1>10. ServicesBefore(own, n) \in Nat /\ CharacteristicsBefore(own, n) \in Nat
  BY <1>1, ServicesCounted, CharacteristicsCounted
<1>11. QED
  BY <1>2, <1>8, <1>9, <1>10 DEF EachRegistered

------------------------------------------------------------------------------
(* What is written is never more than there is room for.                   *)
LEMMA ListsFit ==
  ASSUME SetupInv
  PROVE  /\ lists.localRoom # NULL => Len(lists.local) <= lists.localRoom
         /\ lists.remoteRoom # NULL => Len(lists.remote) <= lists.remoteRoom
<1>1. Len(sketch.local) \in Nat /\ Len(sketch.remote) \in Nat
  BY SketchFacts DEF SetupInv, SetupTypeOK
<1>2. CASE Unbegun(lists, sketch)
  <2>1. lists.localRoom # NULL => Len(lists.local) <= lists.localRoom
    BY <1>1, <1>2 DEF Unbegun, LocalsAre
  <2>2. Len(lists.remote) <= Len(sketch.remote)
    BY <1>1, <1>2 DEF Unbegun, RemotesAre
  <2>3. lists \in Lists
    BY DEF SetupInv, SetupTypeOK
  <2>4. Len(lists.remote) \in Nat
    BY <2>3 DEF Lists
  <2>5. QED
    BY <1>1, <1>2, <2>1, <2>2, <2>4 DEF Unbegun
<1>3. CASE Begun(lists, sketch)
  <2>1. lists.localRoom = Len(lists.local)
    BY <1>1, <1>3 DEF Begun, LocalsAre
  <2>2. lists.remoteRoom # NULL => Len(lists.remote) = lists.remoteRoom
    BY <1>1, <1>3 DEF Begun, RemotesBegun
  <2>3. lists \in Lists
    BY DEF SetupInv, SetupTypeOK
  <2>4. lists.localRoom \in Nat /\ lists.remoteRoom \in Nat
    BY <2>3 DEF Lists
  <2>5. QED
    BY <2>1, <2>2, <2>4
<1>4. QED
  BY <1>2, <1>3 DEF SetupInv, ListsInv

LEMMA BegunPiped ==
  ASSUME NEW s \in Sketches, NEW l \in Lists, Begun(l, s), AllPiped(s.local), AllPiped(s.remote)
  PROVE  AllPiped(l.local) /\ AllPiped(l.remote)
<1>1. /\ Len(s.local) \in Nat /\ DOMAIN s.local = 1 .. Len(s.local)
      /\ Len(s.remote) \in Nat /\ DOMAIN s.remote = 1 .. Len(s.remote)
  BY SketchFacts
<1>2. DOMAIN l.local = 1 .. Len(l.local) /\ DOMAIN l.remote = 1 .. Len(l.remote)
  BY DEF Lists
<1>3. \A k \in 1 .. 5 : IsCharacteristic(GenericAttributes[k]) => GenericAttributes[k].properties # {}
  BY DEF GenericAttributes, IsCharacteristic, Service, Characteristic, Attribute
<1>4. \A k \in 1 .. 2 : IsCharacteristic(RemoteGenericAttributes[k]) => RemoteGenericAttributes[k].properties # {}
  BY DEF RemoteGenericAttributes, IsCharacteristic, Service, Characteristic, Attribute
<1>5. AllPiped(l.local)
  <2> SUFFICES ASSUME NEW i \in 1 .. Len(l.local), IsCharacteristic(l.local[i])
               PROVE  l.local[i].properties # {}
    BY <1>2 DEF AllPiped
  <2>1. Len(l.local) = 5 + Len(s.local)
    BY DEF Begun, LocalsAre
  <2>2. CASE i \in 1 .. 5
    BY <1>3, <2>2 DEF Begun, LocalsAre
  <2>3. CASE i \notin 1 .. 5
    <3>1. i - 5 \in 1 .. Len(s.local) /\ 5 + (i - 5) = i
      BY <1>1, <2>1, <2>3
    <3>2. l.local[5 + (i - 5)] = s.local[i - 5]
      BY <3>1 DEF Begun, LocalsAre
    <3>3. l.local[i] = s.local[i - 5]
      BY <3>1, <3>2
    <3>4. QED
      BY <1>1, <3>1, <3>3 DEF AllPiped
  <2>4. QED
    BY <2>2, <2>3
<1>6. AllPiped(l.remote)
  <2> SUFFICES ASSUME NEW i \in 1 .. Len(l.remote), IsCharacteristic(l.remote[i])
               PROVE  l.remote[i].properties # {}
    BY <1>2 DEF AllPiped
  <2>1. s.remote # << >>
    <3> SUFFICES ASSUME s.remote = << >> PROVE FALSE
      OBVIOUS
    <3>1. l.remote = << >>
      BY DEF Begun, RemotesBegun
    <3>2. QED
      BY <3>1, EmptyFacts
  <2>2. /\ Len(l.remote) = Len(s.remote) + 2
        /\ \A k \in 1 .. Len(s.remote) : l.remote[k] = s.remote[k]
        /\ l.remote[Len(s.remote) + 1] = RemoteGenericAttributes[1]
        /\ l.remote[Len(s.remote) + 2] = RemoteGenericAttributes[2]
    BY <2>1 DEF Begun, RemotesBegun
  <2>3. i \in 1 .. Len(s.remote) \/ i = Len(s.remote) + 1 \/ i = Len(s.remote) + 2
    BY <1>1, <2>2
  <2>4. CASE i \in 1 .. Len(s.remote)
    BY <1>1, <2>2, <2>4 DEF AllPiped
  <2>5. CASE i = Len(s.remote) + 1
    BY <1>4, <2>2, <2>5
  <2>6. CASE i = Len(s.remote) + 2
    BY <1>4, <2>2, <2>6
  <2>7. QED
    BY <2>3, <2>4, <2>5, <2>6
<1>7. QED
  BY <1>5, <1>6

LEMMA AdvertisedFit ==
  ASSUME SetupInv
  PROVE  /\ device = "nRF8001" => Assembled(Advertised, 20, 22) /\ Assembled(Scanned, 20, 22)
         /\ device = "nRF51822" => Assembled(Advertised, 26, 28) /\ Assembled(Scanned, 29, 31)
<1>1. sketch.settings \in Settings
  BY SketchFacts DEF SetupInv, SetupTypeOK
<1>2. CASE device = "nRF8001"
  <2>1. Limits(device).advertisement = 20 /\ Limits(device).scan = 20
    BY <1>2 DEF Limits
  <2>2. QED
    BY <1>1, <1>2, <2>1, AdvertisementFacts, ScanFacts DEF Advertised, Scanned
<1>3. CASE device = "nRF51822"
  <2>1. Limits(device).advertisement = 26 /\ Limits(device).scan = 29
    BY <1>3 DEF Limits
  <2>2. QED
    BY <1>1, <1>3, <2>1, AdvertisementFacts, ScanFacts DEF Advertised, Scanned
<1>4. QED
  BY <1>2, <1>3

LEMMA Nrf8001Fits ==
  ASSUME SetupInv, AllPiped(sketch.local), AllPiped(sketch.remote),
         phase # "declaring", device = "nRF8001"
  PROVE  /\ driver.localSlots <= CountLocal(lists.local).piped
         /\ Len(driver.remotes) <= CountRemote(lists.remote).piped
         /\ \A f \in Range(Advertised \o Scanned) : f.length + 2 <= 22
<1>1. sketch \in Sketches /\ lists \in Lists /\ Begun(lists, sketch)
  BY DEF SetupInv, SetupTypeOK, ListsInv
<1>2. AllPiped(lists.local) /\ AllPiped(lists.remote)
  BY <1>1, BegunPiped
<1>3. lists.local \in Seq(LocalAttributes) /\ lists.remote \in Seq(RemoteAttributes)
  BY <1>1 DEF Lists
<1>4. driver = Walk(lists, Advertised, Scanned)
  BY DEF SetupInv, DriverInv
<1>5. /\ driver.localSlots = CountOf(lists.local, Piped)
      /\ Len(driver.remotes) <= CountOf(lists.remote, Piped)
  BY <1>2, <1>3, <1>4, WalkFacts
<1>6. /\ CountLocal(lists.local).piped = CountOf(lists.local, Piped)
      /\ CountRemote(lists.remote).piped = CountOf(lists.remote, Piped)
  BY Zenon DEF CountLocal, CountRemote
<1>7. CountOf(lists.local, Piped) \in Nat
  <2>1. Len(lists.local) \in Nat
    BY <1>3
  <2>2. QED
    BY <1>3, <2>1, CountedPiped, PipedCounted
<1>8. ASSUME NEW f \in Range(Advertised \o Scanned) PROVE f.length + 2 <= 22
  <2> DEFINE a == Advertised
             s == Scanned
             n == Len(a)
             m == Len(s)
  <2>0. \A y \in AdFields : y.length \in Nat
    BY DEF AdFields
  <2>1. /\ a \in Seq(AdFields) /\ s \in Seq(AdFields)
        /\ \A k \in 1 .. n : a[k].length <= 20
        /\ \A k \in 1 .. m : s[k].length <= 20
    BY AdvertisedFit DEF Assembled
  <2>2. PICK k \in DOMAIN (a \o s) : f = (a \o s)[k]
    BY DEF Range
  <2> HIDE DEF a, s
  <2>3. n \in Nat /\ m \in Nat /\ k \in 1 .. n + m
    BY <2>1, <2>2
  <2>4. CASE k \in 1 .. n
    <3>1. f = a[k] /\ a[k] \in AdFields /\ a[k].length <= 20
      BY <2>1, <2>2, <2>4
    <3>2. f.length \in Nat /\ f.length <= 20
      BY <2>0, <3>1
    <3>3. QED
      BY <3>2
  <2>5. CASE k \notin 1 .. n
    <3>1. f = s[k - n] /\ k - n \in 1 .. m
      BY <2>1, <2>2, <2>3, <2>5
    <3>2. s[k - n] \in AdFields /\ s[k - n].length <= 20
      BY <2>1, <3>1
    <3>3. f.length \in Nat /\ f.length <= 20
      BY <2>0, <3>1, <3>2
    <3>4. QED
      BY <3>3
  <2>6. QED
    BY <2>4, <2>5
<1>9. QED
  BY <1>5, <1>6, <1>7, <1>8

LEMMA Nrf51822Fits ==
  ASSUME SetupInv, phase # "declaring", device = "nRF51822"
  PROVE  /\ Len(driver.local.records) <= LocalRoom(lists.local)
         /\ Len(driver.remote.services) <= RemoteRoom(lists.remote).services
         /\ Len(driver.remote.characteristics) <= RemoteRoom(lists.remote).characteristics
         /\ AdvertisementLength(Advertised) <= 31
         /\ SizeOf(Scanned) <= 31
<1>1. sketch \in Sketches /\ lists \in Lists /\ Begun(lists, sketch)
  BY DEF SetupInv, SetupTypeOK, ListsInv
<1>2. Len(sketch.local) \in Nat /\ Len(sketch.remote) \in Nat
  BY <1>1, SketchFacts
<1>3. lists.local \in Seq(LocalAttributes) /\ lists.remote \in Seq(RemoteAttributes)
  BY <1>1 DEF Lists
<1>4. driver = [local |-> LocalsRegistered(lists.local), remote |-> RemotesRegistered(lists.remote)]
  BY DEF SetupInv, DriverInv
<1>5. Len(driver.local.records) <= LocalRoom(lists.local)
  <2>1. OwnFirst(lists.local)
    BY <1>1, GenericOwn DEF Begun, LocalsAre
  <2>2. Len(lists.local) >= 5
    BY <1>1, <1>2 DEF Begun, LocalsAre
  <2>3. Len(LocalsRegistered(lists.local).records) <= LocalRoom(lists.local)
    BY <1>3, <2>1, <2>2, LocalRecordsFit
  <2>4. QED
    BY <1>4, <2>3
<1>6. /\ Len(driver.remote.services) <= RemoteRoom(lists.remote).services
      /\ Len(driver.remote.characteristics) <= RemoteRoom(lists.remote).characteristics
  <2> DEFINE r == RemotesRegistered(lists.remote)
  <2>1. lists.remote = << >> \/ Len(lists.remote) >= 2
    BY <1>1, <1>2 DEF Begun, RemotesBegun
  <2>2. /\ Len(r.services) = RemoteRoom(lists.remote).services
        /\ Len(r.characteristics) = RemoteRoom(lists.remote).characteristics
        /\ RemoteRoom(lists.remote).services \in Nat /\ RemoteRoom(lists.remote).characteristics \in Nat
    BY <1>3, <2>1, RemoteRecordsFit
  <2>3. driver.remote = r
    BY <1>4
  <2> HIDE DEF r
  <2>4. QED
    BY <2>2, <2>3
<1>7. Assembled(Advertised, 26, 28) /\ Assembled(Scanned, 29, 31)
  BY AdvertisedFit
<1>8. QED
  BY <1>5, <1>6, <1>7 DEF Assembled, AdvertisementLength, Flags

(* When every characteristic has properties, the arrays that begin() and   *)
(* the drivers fill were allocated large enough, and the advertisement is  *)
(* never longer than the buffers it is assembled in (addLocalAttribute,    *)
(* addRemoteAttribute, and begin() of BLEPeripheral and of both drivers).  *)
THEOREM WritesAlwaysFit ==
  ASSUME \A s \in Sketches : AllPiped(s.local) /\ AllPiped(s.remote)
  PROVE  ProgramSpec => []WritesFit
<1>1. SetupInv => WritesFit
  <2> SUFFICES ASSUME SetupInv PROVE WritesFit
    OBVIOUS
  <2>1. AllPiped(sketch.local) /\ AllPiped(sketch.remote)
    BY DEF SetupInv, SetupTypeOK
  <2>2. QED
    BY <2>1, ListsFit, Nrf8001Fits, Nrf51822Fits DEF WritesFit
<1>2. QED
  BY <1>1, SetupInvAlways, PTL

------------------------------------------------------------------------------
(* Packets.  A structure is laid field by field, and so are the bytes that *)
(* acilib puts together.                                                   *)
Structs == INSTANCE Iteration WITH Step <- FieldLaid

FieldBytes(field, n) == [k \in 1 .. n |-> <<field, k>>]

(* Where a field of n bytes is, and what it is that lies at 0 .. n - 1.    *)
Part(bytes, field, offset, n) ==
  /\ bytes = [i \in offset .. offset + n - 1 |-> bytes[i]]
  /\ \A j \in 1 .. n : bytes[offset + (j - 1)] = <<field, j>>

Lays(bytes, struct, n) ==
  /\ n \in Nat
  /\ DOMAIN bytes = 0 .. n - 1
  /\ Laid(struct) = [k \in 1 .. n |-> bytes[k - 1]]

(* One more field is laid behind the others.                               *)
Extended(t, s, field, w) ==
  /\ Len(s) \in Nat /\ Len(t) = Len(s) + 1
  /\ \A i \in 1 .. Len(s) : t[i] = s[i]
  /\ t[Len(s) + 1] = <<field, w>>

LEMMA LaidMore ==
  ASSUME NEW s, NEW t, NEW field, NEW w \in Nat, Extended(t, s, field, w)
  PROVE  Laid(t) = Laid(s) \o FieldBytes(field, w)
<1> DEFINE n == Len(s)
           f == Structs!Iterated(<< >>, s, n)
           g == Structs!Iterated(<< >>, t, n + 1)
           T == {k \in Nat : k <= n => g[k] = f[k]}
<1>1. n \in Nat /\ Len(t) = n + 1
  BY DEF Extended
<1>2. Laid(s) = f[n] /\ Laid(t) = g[n + 1]
  BY <1>1 DEF Laid, Structs!Iterated
<1>3. t[n + 1] = <<field, w>> /\ \A i \in 1 .. n : t[i] = s[i]
  BY DEF Extended
<1> HIDE DEF n
<1>4. f[0] = << >> /\ \A k \in 1 .. n : f[k] = FieldLaid(f[k - 1], s, k)
  BY <1>1, Structs!Iterates
<1>5. g[0] = << >> /\ \A k \in 1 .. n + 1 : g[k] = FieldLaid(g[k - 1], t, k)
  BY <1>1, Structs!Iterates
<1> HIDE DEF f, g
<1>6. 0 \in T
  BY <1>4, <1>5
<1>7. ASSUME NEW k \in Nat, k \in T PROVE k + 1 \in T
  <2> SUFFICES ASSUME k + 1 <= n PROVE g[k + 1] = f[k + 1]
    OBVIOUS
  <2>1. k + 1 \in 1 .. n /\ k + 1 \in 1 .. n + 1 /\ (k + 1) - 1 = k
    BY <1>1
  <2>2. g[k] = f[k] /\ t[k + 1] = s[k + 1]
    BY <1>1, <1>3, <1>7, <2>1
  <2>3. g[k + 1] = FieldLaid(g[k], t, k + 1) /\ f[k + 1] = FieldLaid(f[k], s, k + 1)
    BY <1>4, <1>5, <2>1
  <2>4. [j \in 1 .. t[k + 1][2] |-> <<t[k + 1][1], j>>] = [j \in 1 .. s[k + 1][2] |-> <<s[k + 1][1], j>>]
    BY <2>2
  <2>5. QED
    BY <2>2, <2>3, <2>4 DEF FieldLaid
<1> HIDE DEF T
<1>8. n \in T
  BY <1>1, <1>6, <1>7, Structs!SetInduction
<1>9. g[n] = f[n]
  BY <1>1, <1>8 DEF T
<1>10. g[n + 1] = FieldLaid(g[n], t, n + 1)
  <2>1. n + 1 \in 1 .. n + 1 /\ (n + 1) - 1 = n
    BY <1>1
  <2>2. QED
    BY <1>5, <2>1
<1>11. QED
  BY <1>2, <1>3, <1>9, <1>10 DEF FieldLaid, FieldBytes

LEMMA LaysNothing == Lays(Nothing, << >>, 0)
<1> DEFINE f == Structs!Iterated(<< >>, << >>, 0)
<1>1. Laid(<< >>) = f[0]
  BY DEF Laid, Structs!Iterated
<1>2. f[0] = << >>
  BY Structs!Iterates
<1> HIDE DEF f
<1>3. << >> = [k \in 1 .. 0 |-> Nothing[k - 1]]
  OBVIOUS
<1>4. QED
  BY <1>1, <1>2, <1>3 DEF Lays, Nothing

LEMMA LaysMore ==
  ASSUME NEW b, NEW p, NEW s, NEW t, NEW field, NEW m, NEW w \in Nat, NEW n,
         Lays(b, s, m), Part(p, field, m, w), n = m + w,
         Extended(t, s, field, w)
  PROVE  Lays(b ++ p, t, n)
<1>0. Laid(t) = Laid(s) \o FieldBytes(field, w)
  BY LaidMore
<1> DEFINE c == b ++ p
           x == [k \in 1 .. m |-> b[k - 1]]
           y == [k \in 1 .. w |-> <<field, k>>]
           z == [k \in 1 .. n |-> c[k - 1]]
           U == {b[i] : i \in Nat} \cup {<<field, k>> : k \in 1 .. w}
<1>1. m \in Nat /\ n \in Nat
  BY DEF Lays
<1>2. /\ DOMAIN c = (DOMAIN b) \cup (DOMAIN p)
      /\ \A i \in DOMAIN b : c[i] = b[i]
      /\ \A i \in (DOMAIN p) \ (DOMAIN b) : c[i] = p[i]
  BY DEF ++
<1>3. DOMAIN b = 0 .. m - 1 /\ DOMAIN p = m .. m + w - 1
  BY DEF Lays, Part
<1>4. DOMAIN c = 0 .. n - 1
  BY <1>1, <1>2, <1>3
<1>5. Laid(t) = x \o y
  <2>1. Laid(t) = Laid(s) \o y
    BY <1>0 DEF FieldBytes
  <2>2. Laid(s) = x
    BY DEF Lays
  <2>3. QED
    BY <2>1, <2>2
<1>6. \A k \in 1 .. m : c[k - 1] = b[k - 1]
  BY <1>1, <1>2, <1>3
<1>7. \A k \in 1 .. w : c[m + (k - 1)] = <<field, k>>
  <2> TAKE k \in 1 .. w
  <2>1. m + (k - 1) \in (DOMAIN p) \ (DOMAIN b)
    BY <1>1, <1>3
  <2>2. p[m + (k - 1)] = <<field, k>>
    BY DEF Part
  <2>3. QED
    BY <1>2, <2>1, <2>2
<1> HIDE DEF c
<1>8. x \in Seq(U) /\ y \in Seq(U) /\ Len(x) = m /\ Len(y) = w
  BY <1>1
<1>9. x \o y = z
  <2> DEFINE v == x \o y
  <2>1. /\ DOMAIN v = 1 .. n
        /\ v = [k \in DOMAIN v |-> v[k]]
    BY <1>1, <1>8
  <2>2. \A k \in 1 .. m : v[k] = b[k - 1]
    BY <1>1, <1>8
  <2>3. \A k \in m + 1 .. n : v[k] = <<field, k - m>>
    BY <1>1, <1>8
  <2> HIDE DEF v
  <2>4. ASSUME NEW k \in 1 .. n PROVE v[k] = c[k - 1]
    <3>1. CASE k \in 1 .. m
      BY <1>6, <2>2, <3>1
    <3>2. CASE k \in m + 1 .. n
      <4>1. k - m \in 1 .. w /\ m + ((k - m) - 1) = k - 1
        BY <1>1, <3>2
      <4>2. QED
        BY <1>7, <2>3, <3>2, <4>1
    <3>3. QED
      BY <1>1, <3>1, <3>2
  <2>5. v = z
    BY <2>1, <2>4
  <2>6. QED
    BY <2>5 DEF v
<1>10. QED
  BY <1>1, <1>4, <1>5, <1>9 DEF Lays, c

(* The three ways to give the bytes of a field.                            *)
LEMMA BytePart == \A field : \A offset \in Nat : Part(Byte(field, offset), field, offset, 1)
  BY DEF Part, Byte

LEMMA WordPart ==
  \A field, msb : \A lsb \in Nat : msb = lsb + 1 => Part(Word(field, lsb, msb), field, lsb, 2)
  BY DEF Part, Word

LEMMA BytesPart ==
  ASSUME NEW field, NEW offset \in Nat, NEW n \in Nat
  PROVE  Part(Bytes(field, offset, n), field, offset, n)
<1> DEFINE b == Bytes(field, offset, n)
<1>1. /\ b = [i \in offset .. offset + n - 1 |-> b[i]]
      /\ \A i \in offset .. offset + n - 1 : b[i] = <<field, i - offset + 1>>
  BY DEF Bytes
<1> HIDE DEF b
<1>2. ASSUME NEW j \in 1 .. n PROVE b[offset + (j - 1)] = <<field, j>>
  <2>1. offset + (j - 1) \in offset .. offset + n - 1 /\ ((offset + (j - 1)) - offset) + 1 = j
    OBVIOUS
  <2>2. QED
    BY <1>1, <2>1
<1>3. QED
  BY <1>1, <1>2 DEF Part, b

LEMMA WordParts ==
  ASSUME NEW field
  PROVE  /\ Part(Word(field, 0, 1), field, 0, 2)
         /\ Part(Word(field, 1, 2), field, 1, 2)
         /\ Part(Word(field, 2, 3), field, 2, 2)
         /\ Part(Word(field, 4, 5), field, 4, 2)
         /\ Part(Word(field, 6, 7), field, 6, 2)
         /\ Part(Word(field, 7, 8), field, 7, 2)
         /\ Part(Word(field, 9, 10), field, 9, 2)
         /\ Part(Word(field, 11, 12), field, 11, 2)
<1>1. Part(Word(field, 0, 1), field, 0, 2)
  BY WordPart
<1>2. Part(Word(field, 1, 2), field, 1, 2)
  BY WordPart
<1>3. Part(Word(field, 2, 3), field, 2, 2)
  BY WordPart
<1>4. Part(Word(field, 4, 5), field, 4, 2)
  BY WordPart
<1>5. Part(Word(field, 6, 7), field, 6, 2)
  BY WordPart
<1>6. Part(Word(field, 7, 8), field, 7, 2)
  BY WordPart
<1>7. Part(Word(field, 9, 10), field, 9, 2)
  BY WordPart
<1>8. Part(Word(field, 11, 12), field, 11, 2)
  BY WordPart
<1>9. QED
  BY <1>1, <1>2, <1>3, <1>4, <1>5, <1>6, <1>7, <1>8

(* Structures of up to six fields, and the parts that bytes of them have.  *)
LEMMA ExtendedFacts ==
  ASSUME NEW a, NEW b, NEW c, NEW d, NEW e, NEW f, NEW w
  PROVE  /\ Extended(<<a, <<f, w>> >>, <<a>>, f, w)
         /\ Extended(<<a, b, <<f, w>> >>, <<a, b>>, f, w)
         /\ Extended(<<a, b, c, <<f, w>> >>, <<a, b, c>>, f, w)
         /\ Extended(<<a, b, c, d, <<f, w>> >>, <<a, b, c, d>>, f, w)
         /\ Extended(<<a, b, c, d, e, <<f, w>> >>, <<a, b, c, d, e>>, f, w)
         /\ \A g : Extended(<<a, b, c, d, e, g, <<f, w>> >>, <<a, b, c, d, e, g>>, f, w)
  BY DEF Extended

LEMMA LaysOne ==
  ASSUME NEW a, NEW p, NEW i \in Nat, Part(p, a, 0, i)
  PROVE  Lays(p, << <<a, i>> >>, i)
<1>1. Extended(<< <<a, i>> >>, << >>, a, i) /\ i = 0 + i
  BY DEF Extended
<1>2. Lays(Nothing ++ p, << <<a, i>> >>, i)
  BY <1>1, LaysNothing, LaysMore
<1>3. Nothing ++ p = p
  <2>1. p = [x \in DOMAIN p |-> p[x]]
    BY DEF Part
  <2>2. Nothing ++ p = [x \in DOMAIN p |-> p[x]]
    BY DEF Nothing, ++
  <2>3. QED
    BY <2>1, <2>2
<1>4. QED
  BY <1>2, <1>3

LEMMA LaysTwo ==
  ASSUME NEW a, NEW b, NEW p, NEW q, NEW i \in Nat, NEW j \in Nat,
         Part(p, a, 0, i), Part(q, b, i, j)
  PROVE  Lays(p ++ q, << <<a, i>>, <<b, j>> >>, i + j)
  BY LaysOne, LaysMore, ExtendedFacts

LEMMA LaysThree ==
  ASSUME NEW a, NEW b, NEW c, NEW p, NEW q, NEW r, NEW i \in Nat, NEW j \in Nat, NEW k \in Nat,
         Part(p, a, 0, i), Part(q, b, i, j), Part(r, c, i + j, k)
  PROVE  Lays(p ++ q ++ r, << <<a, i>>, <<b, j>>, <<c, k>> >>, (i + j) + k)
<1>1. Lays(p ++ q, << <<a, i>>, <<b, j>> >>, i + j)
  BY LaysTwo
<1>2. Extended(<< <<a, i>>, <<b, j>>, <<c, k>> >>, << <<a, i>>, <<b, j>> >>, c, k)
  BY ExtendedFacts
<1>3. QED
  BY <1>1, <1>2, LaysMore

LEMMA LaysFour ==
  ASSUME NEW a, NEW b, NEW c, NEW d, NEW p, NEW q, NEW r, NEW s,
         NEW i \in Nat, NEW j \in Nat, NEW k \in Nat, NEW l \in Nat,
         Part(p, a, 0, i), Part(q, b, i, j), Part(r, c, i + j, k), Part(s, d, (i + j) + k, l)
  PROVE  Lays(p ++ q ++ r ++ s, << <<a, i>>, <<b, j>>, <<c, k>>, <<d, l>> >>, ((i + j) + k) + l)
<1>1. Lays(p ++ q ++ r, << <<a, i>>, <<b, j>>, <<c, k>> >>, (i + j) + k)
  BY LaysThree
<1>2. Extended(<< <<a, i>>, <<b, j>>, <<c, k>>, <<d, l>> >>, << <<a, i>>, <<b, j>>, <<c, k>> >>, d, l)
  BY ExtendedFacts
<1>3. QED
  BY <1>1, <1>2, LaysMore

(* Behind four fields there may be up to three more.                       *)
LEMMA LaysLonger ==
  ASSUME NEW x, NEW t1, NEW t2, NEW t3, NEW t4, NEW m, Lays(x, <<t1, t2, t3, t4>>, m),
         NEW a, NEW b, NEW c, NEW p, NEW q, NEW r, NEW i \in Nat, NEW j \in Nat, NEW k \in Nat,
         Part(p, a, m, i), Part(q, b, m + i, j)
  PROVE  /\ Lays(x ++ p ++ q, <<t1, t2, t3, t4, <<a, i>>, <<b, j>> >>, (m + i) + j)
         /\ Part(r, c, (m + i) + j, k) =>
              Lays(x ++ p ++ q ++ r, <<t1, t2, t3, t4, <<a, i>>, <<b, j>>, <<c, k>> >>,
                   ((m + i) + j) + k)
<1>1. Extended(<<t1, t2, t3, t4, <<a, i>> >>, <<t1, t2, t3, t4>>, a, i)
  BY ExtendedFacts
<1>2. Extended(<<t1, t2, t3, t4, <<a, i>>, <<b, j>> >>, <<t1, t2, t3, t4, <<a, i>> >>, b, j)
  BY ExtendedFacts
<1>3. Extended(<<t1, t2, t3, t4, <<a, i>>, <<b, j>>, <<c, k>> >>,
               <<t1, t2, t3, t4, <<a, i>>, <<b, j>> >>, c, k)
  BY ExtendedFacts
<1>4. Lays(x ++ p, <<t1, t2, t3, t4, <<a, i>> >>, m + i)
  BY <1>1, LaysMore
<1>5. Lays(x ++ p ++ q, <<t1, t2, t3, t4, <<a, i>>, <<b, j>> >>, (m + i) + j)
  BY <1>2, <1>4, LaysMore
<1>6. QED
  BY <1>3, <1>5, LaysMore

------------------------------------------------------------------------------
(* acilib's encoder writes a command of m bytes of parameters, as the      *)
(* structure has them, ...                                                 *)
EncodedAs(opcode, n, bytes, struct, m) ==
  /\ Encoder(opcode, n) = Encoded(1 + m, bytes)
  /\ aci_cmd_t(opcode, n) = struct
  /\ Lays(bytes, struct, m)

EncoderFits(opcode, n) == \E bytes, struct, m : EncodedAs(opcode, n, bytes, struct, m)

LEMMA ShortCommandsFit ==
  ASSUME NEW n \in Nat,
         NEW opcode \in aci_cmd_opcode_t \ {"ECHO", "SETUP", "WRITE_DYNAMIC_DATA", "SEND_DATA", "SET_LOCAL_DATA",
                                            "CHANGE_TIMING", "SET_KEY", "CONNECT", "BOND", "BROADCAST"}
  PROVE  EncoderFits(opcode, n)
<1>1. ASSUME opcode \in {"SLEEP", "RADIO_RESET", "CONNECT_DIRECT", "GET_DEVICE_VERSION", "WAKEUP",
                        "GET_DEVICE_ADDRESS", "GET_TEMPERATURE", "GET_BATTERY_LEVEL",
                        "BOND_SECURITY_REQUEST", "READ_DYNAMIC_DATA"}
      PROVE  EncodedAs(opcode, n, Nothing, << >>, 0)
  <2>1. Encoder(opcode, n) = Encoded(1, Nothing)
    BY <1>1 DEF Encoder, LaterEncoder
  <2>2. aci_cmd_t(opcode, n) = << >>
    BY <1>1 DEF aci_cmd_t, aci_first_cmd_params
  <2>3. QED
    BY <2>1, <2>2, LaysNothing DEF EncodedAs
<1>2. ASSUME opcode \in {"OPEN_REMOTE_PIPE", "CLOSE_REMOTE_PIPE", "REQUEST_DATA", "SEND_DATA_ACK"}
      PROVE  EncodedAs(opcode, n, Byte("pipe_number", 0), <<One("pipe_number")>>, 1)
  <2>1. Encoder(opcode, n) = Encoded(2, Byte("pipe_number", 0))
    BY <1>2 DEF Encoder, LaterEncoder
  <2>2. aci_cmd_t(opcode, n) = <<One("pipe_number")>>
    BY <1>2 DEF aci_cmd_t
  <2>3. QED
    BY <2>1, <2>2, BytePart, LaysOne DEF EncodedAs, One
<1>3. EncodedAs("TEST", n, Byte("test_mode_change", 0), <<One("test_mode_change")>>, 1)
  <2>1. Encoder("TEST", n) = Encoded(2, Byte("test_mode_change", 0))
    BY DEF Encoder
  <2>2. aci_cmd_t("TEST", n) = <<One("test_mode_change")>>
    BY DEF aci_cmd_t, aci_first_cmd_params
  <2>3. QED
    BY <2>1, <2>2, BytePart, LaysOne DEF EncodedAs, One
<1>4. EncodedAs("SET_TX_POWER", n, Byte("device_power", 0), <<One("device_power")>>, 1)
  <2>1. Encoder("SET_TX_POWER", n) = Encoded(2, Byte("device_power", 0))
    BY DEF Encoder
  <2>2. aci_cmd_t("SET_TX_POWER", n) = <<One("device_power")>>
    BY DEF aci_cmd_t
  <2>3. QED
    BY <2>1, <2>2, BytePart, LaysOne DEF EncodedAs, One
<1>5. EncodedAs("DISCONNECT", n, Byte("reason", 0), <<One("reason")>>, 1)
  <2>1. Encoder("DISCONNECT", n) = Encoded(2, Byte("reason", 0))
    BY DEF Encoder
  <2>2. aci_cmd_t("DISCONNECT", n) = <<One("reason")>>
    BY DEF aci_cmd_t
  <2>3. QED
    BY <2>1, <2>2, BytePart, LaysOne DEF EncodedAs, One
<1>6. EncodedAs("SEND_DATA_NACK", n, Byte("pipe_number", 0) ++ Byte("error_code", 1),
                <<One("pipe_number"), One("error_code")>>, 2)
  <2>1. Encoder("SEND_DATA_NACK", n) = Encoded(3, Byte("pipe_number", 0) ++ Byte("error_code", 1))
    BY DEF Encoder, LaterEncoder
  <2>2. aci_cmd_t("SEND_DATA_NACK", n) = <<One("pipe_number"), One("error_code")>>
    BY DEF aci_cmd_t
  <2>3. Part(Byte("pipe_number", 0), "pipe_number", 0, 1) /\ Part(Byte("error_code", 1), "error_code", 1, 1)
    BY BytePart
  <2>4. QED
    BY <2>1, <2>2, <2>3, LaysTwo DEF EncodedAs, One
<1>7. EncodedAs("DTM_CMD", n, Byte("cmd_msb", 0) ++ Byte("cmd_lsb", 1), <<One("cmd_msb"), One("cmd_lsb")>>, 2)
  <2>1. Encoder("DTM_CMD", n) = Encoded(3, Byte("cmd_msb", 0) ++ Byte("cmd_lsb", 1))
    BY DEF Encoder, LaterEncoder
  <2>2. aci_cmd_t("DTM_CMD", n) = <<One("cmd_msb"), One("cmd_lsb")>>
    BY DEF aci_cmd_t, aci_first_cmd_params
  <2>3. Part(Byte("cmd_msb", 0), "cmd_msb", 0, 1) /\ Part(Byte("cmd_lsb", 1), "cmd_lsb", 1, 1)
    BY BytePart
  <2>4. QED
    BY <2>1, <2>2, <2>3, LaysTwo DEF EncodedAs, One
<1>8. EncodedAs("SET_APP_LATENCY", n, Byte("mode", 0) ++ Word("latency", 1, 2), <<One("mode"), Two("latency")>>, 3)
  <2>1. Encoder("SET_APP_LATENCY", n) = Encoded(4, Byte("mode", 0) ++ Word("latency", 1, 2))
    BY DEF Encoder, LaterEncoder
  <2>2. aci_cmd_t("SET_APP_LATENCY", n) = <<One("mode"), Two("latency")>>
    BY DEF aci_cmd_t
  <2>3. Part(Byte("mode", 0), "mode", 0, 1) /\ Part(Word("latency", 1, 2), "latency", 1, 2)
    BY BytePart, WordParts
  <2>4. QED
    BY <2>1, <2>2, <2>3, LaysTwo DEF EncodedAs, One, Two
<1>9. EncodedAs("OPEN_ADV_PIPE", n, Bytes("pipes", 0, 8), << <<"pipes", 8>> >>, 8)
  <2>1. Encoder("OPEN_ADV_PIPE", n) = Encoded(9, Bytes("pipes", 0, 8))
    BY DEF Encoder, LaterEncoder
  <2>2. aci_cmd_t("OPEN_ADV_PIPE", n) = << <<"pipes", 8>> >>
    BY DEF aci_cmd_t
  <2>3. Part(Bytes("pipes", 0, 8), "pipes", 0, 8)
    BY BytesPart
  <2>4. QED
    BY <2>1, <2>2, <2>3, LaysOne DEF EncodedAs
<1>10. QED
  BY <1>1, <1>2, <1>3, <1>4, <1>5, <1>6, <1>7, <1>8, <1>9 DEF EncoderFits, aci_cmd_opcode_t

LEMMA LongCommandsFit ==
  ASSUME NEW n \in Nat,
         NEW opcode \in {"ECHO", "SETUP", "WRITE_DYNAMIC_DATA", "SEND_DATA", "SET_LOCAL_DATA",
                        "CHANGE_TIMING", "SET_KEY", "CONNECT", "BOND", "BROADCAST"}
  PROVE  EncoderFits(opcode, n)
<1>1. ASSUME opcode \in {"ECHO", "SETUP"}
      PROVE  EncodedAs(opcode, n, Bytes("data", 0, n), <<Data(n)>>, n)
  <2>1. Encoder(opcode, n) = Encoded(1 + n, Bytes("data", 0, n))
    BY <1>1 DEF Encoder, LaterEncoder
  <2>2. aci_cmd_t(opcode, n) = <<Data(n)>>
    BY <1>1 DEF aci_cmd_t, aci_first_cmd_params
  <2>3. QED
    BY <2>1, <2>2, BytesPart, LaysOne DEF EncodedAs, Data
<1>2. ASSUME NEW first,
             Encoder(opcode, n) = Encoded(2 + n, Byte(first, 0) ++ Bytes("data", 1, n)),
             aci_cmd_t(opcode, n) = <<One(first), Data(n)>>
      PROVE  EncodedAs(opcode, n, Byte(first, 0) ++ Bytes("data", 1, n), <<One(first), Data(n)>>, 1 + n)
  <2>1. 2 + n = 1 + (1 + n)
    OBVIOUS
  <2>2. Lays(Byte(first, 0) ++ Bytes("data", 1, n), <<One(first), Data(n)>>, 1 + n)
    BY BytePart, BytesPart, LaysTwo DEF One, Data
  <2>3. QED
    BY <1>2, <2>1, <2>2 DEF EncodedAs
<1>3. CASE opcode \in {"SEND_DATA", "SET_LOCAL_DATA"}
  <2>1. Encoder(opcode, n) = Encoded(2 + n, Byte("pipe_number", 0) ++ Bytes("data", 1, n))
    BY <1>3 DEF Encoder
  <2>2. aci_cmd_t(opcode, n) = <<One("pipe_number"), Data(n)>>
    BY <1>3 DEF aci_cmd_t, aci_first_cmd_params, aci_tx_data_t
  <2>3. QED
    BY <1>2, <2>1, <2>2 DEF EncoderFits
<1>4. CASE opcode = "WRITE_DYNAMIC_DATA"
  <2>1. Encoder(opcode, n) = Encoded(2 + n, Byte("seq_no", 0) ++ Bytes("data", 1, n))
    BY <1>4 DEF Encoder, LaterEncoder
  <2>2. aci_cmd_t(opcode, n) = <<One("seq_no"), Data(n)>>
    BY <1>4 DEF aci_cmd_t, aci_first_cmd_params
  <2>3. QED
    BY <1>2, <2>1, <2>2 DEF EncoderFits
<1>5. CASE opcode = "SET_KEY"
  <2>1. Encoder(opcode, n) = Encoded(2 + n, Byte("key_type", 0) ++ Bytes("data", 1, n))
    BY <1>5 DEF Encoder, LaterEncoder
  <2>2. aci_cmd_t(opcode, n) = <<One("key_type"), Data(n)>>
    BY <1>5 DEF aci_cmd_t
  <2>3. QED
    BY <1>2, <2>1, <2>2 DEF EncoderFits
<1>6. ASSUME opcode \in {"CONNECT", "BOND", "BROADCAST"}
      PROVE  EncodedAs(opcode, n, Advertising, aci_advertising_t, 4)
  <2>1. Encoder(opcode, n) = Encoded(5, Advertising)
    BY <1>6 DEF Encoder, LaterEncoder
  <2>2. aci_cmd_t(opcode, n) = aci_advertising_t
    BY <1>6 DEF aci_cmd_t
  <2>3. /\ Part(Word("timeout", 0, 1), "timeout", 0, 2)
        /\ Part(Word("adv_interval", 2, 3), "adv_interval", 2, 2)
    BY WordParts
  <2>4. Lays(Advertising, aci_advertising_t, 4)
    BY <2>3, LaysTwo DEF Advertising, aci_advertising_t, Two
  <2>5. QED
    BY <2>1, <2>2, <2>4 DEF EncodedAs
<1>7. ASSUME opcode = "CHANGE_TIMING", n > 0
      PROVE  EncodedAs(opcode, n, ConnectionParameters, aci_ll_conn_params_t, 8)
  <2>1. Encoder(opcode, n) = Encoded(9, ConnectionParameters)
    BY <1>7 DEF Encoder, LaterEncoder
  <2>2. aci_cmd_t(opcode, n) = aci_ll_conn_params_t
    BY <1>7 DEF aci_cmd_t
  <2>3. /\ Part(Word("min_conn_interval", 0, 1), "min_conn_interval", 0, 2)
        /\ Part(Word("max_conn_interval", 2, 3), "max_conn_interval", 2, 2)
        /\ Part(Word("slave_latency", 4, 5), "slave_latency", 4, 2)
        /\ Part(Word("timeout_mult", 6, 7), "timeout_mult", 6, 2)
    BY WordParts
  <2>4. Lays(ConnectionParameters, aci_ll_conn_params_t, 8)
    BY <2>3, LaysFour DEF ConnectionParameters, aci_ll_conn_params_t, Two
  <2>5. QED
    BY <2>1, <2>2, <2>4 DEF EncodedAs
<1>8. ASSUME opcode = "CHANGE_TIMING", n = 0
      PROVE  EncodedAs(opcode, n, Nothing, << >>, 0)
  <2>1. Encoder(opcode, n) = Encoded(1, Nothing)
    BY <1>8 DEF Encoder, LaterEncoder
  <2>2. aci_cmd_t(opcode, n) = << >>
    BY <1>8 DEF aci_cmd_t, aci_first_cmd_params
  <2>3. QED
    BY <2>1, <2>2, LaysNothing DEF EncodedAs
<1>9. QED
  BY <1>1, <1>3, <1>4, <1>5, <1>6, <1>7, <1>8 DEF EncoderFits

(* ... and acil_encode_cmd makes the same of the command it is read back   *)
(* from.                                                                   *)
LEMMA EncodesAgain ==
  ASSUME NEW n \in Nat, NEW opcode \in Picked, ~(opcode = "CHANGE_TIMING" /\ n = 0)
  PROVE  acil_encode_cmd(opcode, Encoder(opcode, n).length) = Encoder(opcode, n)
<1>1. CASE opcode \in {"ECHO", "SETUP"}
  <2>1. \A x : Encoder(opcode, x) = Encoded(1 + x, Bytes("data", 0, x))
    BY <1>1 DEF Encoder, LaterEncoder
  <2>2. Encoder(opcode, n).length = 1 + n
    BY <2>1 DEF Encoded
  <2>3. BaseLength(opcode) = 1 /\ (1 + n) - 1 = n
    BY <1>1 DEF BaseLength
  <2>4. QED
    BY <2>2, <2>3 DEF acil_encode_cmd
<1>2. CASE opcode \in {"WRITE_DYNAMIC_DATA", "SEND_DATA", "SET_LOCAL_DATA"}
  <2>1. Encoder(opcode, n).length = 2 + n
    BY <1>2 DEF Encoder, LaterEncoder, Encoded
  <2>2. BaseLength(opcode) = 2 /\ (2 + n) - 2 = n
    BY <1>2 DEF BaseLength
  <2>3. QED
    BY <2>1, <2>2 DEF acil_encode_cmd
<1>3. CASE opcode = "CHANGE_TIMING"
  <2>1. \A x : x > 0 => Encoder("CHANGE_TIMING", x) = Encoded(9, ConnectionParameters)
    BY DEF Encoder, LaterEncoder
  <2>2. Encoder("CHANGE_TIMING", n).length = 9
    BY <1>3, <2>1 DEF Encoded
  <2>3. BaseLength("CHANGE_TIMING") = 1 /\ 9 - 1 = 8 /\ 8 > 0
    BY DEF BaseLength
  <2>4. QED
    BY <1>3, <2>1, <2>2, <2>3 DEF acil_encode_cmd
<1>4. CASE opcode \in {"SLEEP", "RADIO_RESET", "GET_DEVICE_VERSION", "WAKEUP", "GET_DEVICE_ADDRESS",
                      "GET_TEMPERATURE", "GET_BATTERY_LEVEL", "BOND_SECURITY_REQUEST", "READ_DYNAMIC_DATA",
                      "DTM_CMD", "SEND_DATA_ACK"}
  <2>1. \A x, y : Encoder(opcode, x) = Encoder(opcode, y)
    BY <1>4 DEF Encoder, LaterEncoder
  <2>2. QED
    BY <2>1 DEF acil_encode_cmd
<1>5. CASE opcode \in {"OPEN_REMOTE_PIPE", "REQUEST_DATA", "TEST", "SET_TX_POWER", "DISCONNECT", "CONNECT", "BOND"}
  <2>1. \A x, y : Encoder(opcode, x) = Encoder(opcode, y)
    BY <1>5 DEF Encoder
  <2>2. QED
    BY <2>1 DEF acil_encode_cmd
<1>6. QED
  BY <1>1, <1>2, <1>3, <1>4, <1>5 DEF Picked, aci_cmd_opcode_t

------------------------------------------------------------------------------
(* acilib's decoder reads an event of m bytes as the structure has them;   *)
(* with up to 28 bytes of data they fit into the buffer.                   *)
Decodes(opcode, answers, n) ==
  LET struct == aci_evt_t(opcode, answers, n)
  IN  \E m : /\ Lays(acil_decode_evt(opcode, answers, 1 + m), struct, m)
             /\ n <= 28 => m <= 30

LEMMA ShortEventsDecode ==
  ASSUME NEW n \in Nat, NEW answers,
         NEW opcode \in {"PIPE_STATUS", "DISCONNECTED", "DATA_ACK", "DATA_CREDIT", "KEY_REQUEST", "DISPLAY_PASSKEY"}
  PROVE  Decodes(opcode, answers, n)
<1>1. CASE opcode = "PIPE_STATUS"
  <2>1. Part(Bytes("pipes_open_bitmap", 0, 8), "pipes_open_bitmap", 0, 8)
    BY BytesPart
  <2>2. Part(Bytes("pipes_closed_bitmap", 8, 8), "pipes_closed_bitmap", 8, 8)
    BY BytesPart
  <2>3. Lays(Bytes("pipes_open_bitmap", 0, 8) ++ Bytes("pipes_closed_bitmap", 8, 8),
             << <<"pipes_open_bitmap", 8>>, <<"pipes_closed_bitmap", 8>> >>, 8 + 8)
    BY <2>1, <2>2, LaysTwo
  <2>4. QED
    BY <1>1, <2>3 DEF Decodes, acil_decode_evt, aci_evt_t
<1>2. CASE opcode = "DISCONNECTED"
  <2>1. Part(Byte("aci_status", 0), "aci_status", 0, 1) /\ Part(Byte("btle_status", 1), "btle_status", 1, 1)
    BY BytePart
  <2>2. Lays(Byte("aci_status", 0) ++ Byte("btle_status", 1), <<One("aci_status"), One("btle_status")>>, 1 + 1)
    BY <2>1, LaysTwo DEF One
  <2>3. QED
    BY <1>2, <2>2 DEF Decodes, acil_decode_evt, aci_evt_t
<1>3. ASSUME NEW field, \A x : acil_decode_evt(opcode, answers, x) = Byte(field, 0),
             aci_evt_t(opcode, answers, n) = <<One(field)>>
      PROVE  Decodes(opcode, answers, n)
  <2>1. Lays(Byte(field, 0), <<One(field)>>, 1)
    BY BytePart, LaysOne DEF One
  <2>2. QED
    BY <1>3, <2>1 DEF Decodes
<1>4. CASE opcode = "DATA_ACK"
  BY <1>3, <1>4 DEF acil_decode_evt, aci_evt_t
<1>5. CASE opcode = "DATA_CREDIT"
  BY <1>3, <1>5 DEF acil_decode_evt, aci_evt_t
<1>6. CASE opcode = "KEY_REQUEST"
  BY <1>3, <1>6 DEF acil_decode_evt, aci_evt_t
<1>7. CASE opcode = "DISPLAY_PASSKEY"
  <2>1. Part(Bytes("passkey", 0, 6), "passkey", 0, 6)
    BY BytesPart
  <2>2. Lays(Bytes("passkey", 0, 6), << <<"passkey", 6>> >>, 6)
    BY <2>1, LaysOne
  <2>3. QED
    BY <1>7, <2>2 DEF Decodes, acil_decode_evt, aci_evt_t
<1>8. QED
  BY <1>1, <1>2, <1>4, <1>5, <1>6, <1>7

LEMMA LongEventsDecode ==
  ASSUME NEW n \in Nat, NEW answers,
         NEW opcode \in {"DEVICE_STARTED", "HW_ERROR", "CONNECTED", "BOND_STATUS", "TIMING", "DATA_RECEIVED",
                         "PIPE_ERROR", "ECHO"}
  PROVE  Decodes(opcode, answers, n)
<1>1. CASE opcode = "DEVICE_STARTED"
  <2> DEFINE b == Byte("device_mode", 0) ++ Byte("hw_error", 1) ++ Byte("credit_available", 2)
             s == <<One("device_mode"), One("hw_error"), One("credit_available")>>
  <2>1. /\ Part(Byte("device_mode", 0), "device_mode", 0, 1) /\ Part(Byte("hw_error", 1), "hw_error", 1, 1)
        /\ Part(Byte("credit_available", 2), "credit_available", 1 + 1, 1)
    BY BytePart
  <2>2. Lays(b, s, (1 + 1) + 1)
    BY <2>1, LaysThree DEF One
  <2>3. (\A x : acil_decode_evt("DEVICE_STARTED", answers, x) = b) /\ aci_evt_t("DEVICE_STARTED", answers, n) = s
    BY DEF acil_decode_evt, aci_evt_t
  <2> HIDE DEF b, s
  <2>4. QED
    BY <1>1, <2>2, <2>3 DEF Decodes
<1>2. CASE opcode = "PIPE_ERROR"
  <2> DEFINE b == Byte("pipe_number", 0) ++ Byte("error_code", 1) ++ Byte("error_data", 2)
             s == <<One("pipe_number"), One("error_code"), <<"error_data", 1>> >>
  <2>1. /\ Part(Byte("pipe_number", 0), "pipe_number", 0, 1) /\ Part(Byte("error_code", 1), "error_code", 1, 1)
        /\ Part(Byte("error_data", 2), "error_data", 1 + 1, 1)
    BY BytePart
  <2>2. Lays(b, s, (1 + 1) + 1)
    BY <2>1, LaysThree DEF One
  <2>3. (\A x : acil_decode_evt("PIPE_ERROR", answers, x) = b) /\ aci_evt_t("PIPE_ERROR", answers, n) = s
    BY DEF acil_decode_evt, aci_evt_t
  <2> HIDE DEF b, s
  <2>4. QED
    BY <1>2, <2>2, <2>3 DEF Decodes
<1>3. CASE opcode = "TIMING"
  <2> DEFINE b == Word("conn_rf_interval", 0, 1) ++ Word("conn_slave_rf_latency", 2, 3) ++ Word("conn_rf_timeout", 4, 5)
             s == <<Two("conn_rf_interval"), Two("conn_slave_rf_latency"), Two("conn_rf_timeout")>>
  <2>1. /\ Part(Word("conn_rf_interval", 0, 1), "conn_rf_interval", 0, 2)
        /\ Part(Word("conn_slave_rf_latency", 2, 3), "conn_slave_rf_latency", 2, 2)
    BY WordParts
  <2>2. Part(Word("conn_rf_timeout", 4, 5), "conn_rf_timeout", 2 + 2, 2)
    BY WordParts
  <2>3. Lays(b, s, (2 + 2) + 2)
    BY <2>1, <2>2, LaysThree DEF Two
  <2>4. (\A x : acil_decode_evt("TIMING", answers, x) = b) /\ aci_evt_t("TIMING", answers, n) = s
    BY DEF acil_decode_evt, aci_evt_t
  <2> HIDE DEF b, s
  <2>5. QED
    BY <1>3, <2>3, <2>4 DEF Decodes
<1>4. CASE opcode = "BOND_STATUS"
  <2> DEFINE first == Byte("status_code", 0) ++ Byte("status_source", 1)
                        ++ Byte("secmode1_bitmap", 2) ++ Byte("secmode2_bitmap", 3)
             b == first ++ Byte("keys_exchanged_slave", 4) ++ Byte("keys_exchanged_master", 5)
             s == <<One("status_code"), One("status_source"), One("secmode1_bitmap"), One("secmode2_bitmap"),
                    One("keys_exchanged_slave"), One("keys_exchanged_master")>>
  <2>1. /\ Part(Byte("status_code", 0), "status_code", 0, 1) /\ Part(Byte("status_source", 1), "status_source", 1, 1)
        /\ Part(Byte("secmode1_bitmap", 2), "secmode1_bitmap", 1 + 1, 1)
        /\ Part(Byte("secmode2_bitmap", 3), "secmode2_bitmap", (1 + 1) + 1, 1)
    BY BytePart
  <2>2. Lays(first, <<One("status_code"), One("status_source"), One("secmode1_bitmap"), One("secmode2_bitmap")>>,
             ((1 + 1) + 1) + 1)
    BY <2>1, LaysFour DEF One
  <2>3. Lays(first, <<One("status_code"), One("status_source"), One("secmode1_bitmap"), One("secmode2_bitmap")>>, 4)
    BY <2>2
  <2>4. (\A x : acil_decode_evt("BOND_STATUS", answers, x) = b) /\ aci_evt_t("BOND_STATUS", answers, n) = s
    BY DEF acil_decode_evt, aci_evt_t
  <2> HIDE DEF first
  <2>5. /\ Part(Byte("keys_exchanged_slave", 4), "keys_exchanged_slave", 4, 1)
        /\ Part(Byte("keys_exchanged_master", 5), "keys_exchanged_master", 4 + 1, 1)
    BY BytePart
  <2>6. Lays(b, s, (4 + 1) + 1)
    BY <2>3, <2>5, LaysLonger DEF One
  <2> HIDE DEF b, s
  <2>7. QED
    BY <1>4, <2>4, <2>6 DEF Decodes
<1>5. CASE opcode = "CONNECTED"
  <2> DEFINE first == Byte("dev_addr_type", 0) ++ Bytes("dev_addr", 1, 6)
                        ++ Word("conn_rf_interval", 7, 8) ++ Word("conn_slave_rf_latency", 9, 10)
             b == first ++ Word("conn_rf_timeout", 11, 12) ++ Byte("master_clock_accuracy", 13)
             s == <<One("dev_addr_type"), <<"dev_addr", 6>>, Two("conn_rf_interval"),
                    Two("conn_slave_rf_latency"), Two("conn_rf_timeout"), One("master_clock_accuracy")>>
  <2>1. Part(Byte("dev_addr_type", 0), "dev_addr_type", 0, 1) /\ Part(Bytes("dev_addr", 1, 6), "dev_addr", 1, 6)
    BY BytePart, BytesPart
  <2>2. Part(Word("conn_rf_interval", 7, 8), "conn_rf_interval", 1 + 6, 2)
    BY WordParts
  <2>3. Part(Word("conn_slave_rf_latency", 9, 10), "conn_slave_rf_latency", (1 + 6) + 2, 2)
    BY WordParts
  <2>4. Lays(first, <<One("dev_addr_type"), <<"dev_addr", 6>>, Two("conn_rf_interval"),
                      Two("conn_slave_rf_latency")>>, ((1 + 6) + 2) + 2)
    BY <2>1, <2>2, <2>3, LaysFour DEF One, Two
  <2>5. Lays(first, <<One("dev_addr_type"), <<"dev_addr", 6>>, Two("conn_rf_interval"),
                      Two("conn_slave_rf_latency")>>, 11)
    BY <2>4
  <2>6. (\A x : acil_decode_evt("CONNECTED", answers, x) = b) /\ aci_evt_t("CONNECTED", answers, n) = s
    BY DEF acil_decode_evt, aci_evt_t
  <2> HIDE DEF first
  <2>7. Part(Word("conn_rf_timeout", 11, 12), "conn_rf_timeout", 11, 2)
    BY WordParts
  <2>8. Part(Byte("master_clock_accuracy", 13), "master_clock_accuracy", 11 + 2, 1)
    BY BytePart
  <2>9. Lays(b, s, (11 + 2) + 1)
    BY <2>5, <2>7, <2>8, LaysLonger DEF One, Two
  <2> HIDE DEF b, s
  <2>10. QED
    BY <1>5, <2>6, <2>9 DEF Decodes
<1>6. CASE opcode = "DATA_RECEIVED"
  <2> DEFINE b == Byte("pipe_number", 0) ++ Bytes("data", 1, n)
             s == <<One("pipe_number"), Data(n)>>
  <2>1. Lays(b, s, 1 + n)
    BY BytePart, BytesPart, LaysTwo DEF One, Data
  <2>2. ReceivedSize(1 + (1 + n)) = n
    BY DEF ReceivedSize
  <2>3. /\ acil_decode_evt("DATA_RECEIVED", answers, 1 + (1 + n)) = b
        /\ aci_evt_t("DATA_RECEIVED", answers, n) = s
    BY <2>2 DEF acil_decode_evt, aci_evt_t
  <2> HIDE DEF b, s
  <2>4. QED
    BY <1>6, <2>1, <2>3 DEF Decodes
<1>7. CASE opcode = "HW_ERROR"
  <2> DEFINE b == Word("line_num", 0, 1) ++ Bytes("data", 2, n)
             s == <<Two("line_num"), Data(n)>>
  <2>1. Lays(b, s, 2 + n)
    BY WordParts, BytesPart, LaysTwo DEF Two, Data
  <2>2. (1 + (2 + n)) - 3 = n
    OBVIOUS
  <2>3. /\ acil_decode_evt("HW_ERROR", answers, 1 + (2 + n)) = b
        /\ aci_evt_t("HW_ERROR", answers, n) = s
    BY <2>2 DEF acil_decode_evt, aci_evt_t
  <2> HIDE DEF b, s
  <2>4. QED
    BY <1>7, <2>1, <2>3 DEF Decodes
<1>8. CASE opcode = "ECHO"
  <2> DEFINE b == Bytes("data", 0, n)
             s == <<Data(n)>>
  <2>1. Lays(b, s, n)
    BY BytesPart, LaysOne DEF Data
  <2>2. (1 + n) - 1 = n
    OBVIOUS
  <2>3. /\ acil_decode_evt("ECHO", answers, 1 + n) = b
        /\ aci_evt_t("ECHO", answers, n) = s
    BY <2>2 DEF acil_decode_evt, aci_evt_t
  <2> HIDE DEF b, s
  <2>4. QED
    BY <1>8, <2>1, <2>3 DEF Decodes
<1>9. QED
  BY <1>1, <1>2, <1>3, <1>4, <1>5, <1>6, <1>7, <1>8

LEMMA PlusAssociates ==
  ASSUME NEW f, NEW g, NEW h
  PROVE  f ++ (g ++ h) = (f ++ g) ++ h
<1> DEFINE l == f ++ (g ++ h)
           r == (f ++ g) ++ h
           D == (DOMAIN f) \cup (DOMAIN g) \cup (DOMAIN h)
<1>1. l = [i \in D |-> l[i]] /\ r = [i \in D |-> r[i]]
  BY DEF ++
<1>2. ASSUME NEW i \in D PROVE l[i] = r[i]
  BY DEF ++
<1> HIDE DEF l, r
<1>3. l = r
  BY <1>1, <1>2
<1>4. QED
  BY <1>3 DEF l, r

(* Two fields and up to five more.                                         *)
Joins(j, x, y, t, n) ==
  /\ j = [i \in 1 .. n + 2 |-> j[i]]
  /\ \A i \in 1 .. n + 2 : j[i] = IF i = 1 THEN x ELSE IF i = 2 THEN y ELSE t[i - 2]

LEMMA TwoAndMore ==
  ASSUME NEW S, NEW x \in S, NEW y \in S, NEW t \in Seq(S)
  PROVE  Joins(<<x, y>> \o t, x, y, t, Len(t))
<1> DEFINE j == <<x, y>> \o t
<1>1. <<x, y>> \in Seq(S) /\ Len(<<x, y>>) = 2 /\ Len(t) \in Nat
  OBVIOUS
<1>2. j \in Seq(S) /\ Len(j) = Len(t) + 2
  BY <1>1
<1>3. \A i \in 1 .. Len(t) + 2 : j[i] = IF i = 1 THEN x ELSE IF i = 2 THEN y ELSE t[i - 2]
  BY <1>1
<1>4. j = [i \in 1 .. Len(t) + 2 |-> j[i]]
  BY <1>1, <1>2
<1>5. QED
  BY <1>3, <1>4 DEF Joins

LEMMA JoinedOne ==
  ASSUME NEW x, NEW y, NEW a
  PROVE  <<x, y>> \o <<a>> = <<x, y, a>>
<1> DEFINE S == {x, y, a}
           t == <<a>>
           r == <<x, y, a>>
           j == <<x, y>> \o t
<1>1. x \in S /\ y \in S /\ t \in Seq(S) /\ Len(t) = 1
  OBVIOUS
<1>2. \A i \in 1 .. 3 : r[i] = IF i = 1 THEN x ELSE IF i = 2 THEN y ELSE t[i - 2]
  OBVIOUS
<1>3. r = [i \in 1 .. 3 |-> r[i]]
  OBVIOUS
<1> HIDE DEF S, t, r
<1>4. Joins(j, x, y, t, Len(t))
  BY <1>1, TwoAndMore
<1> HIDE DEF j
<1>5. j = r
  BY <1>1, <1>2, <1>3, <1>4 DEF Joins
<1>6. QED
  BY <1>5 DEF j, t, r

LEMMA JoinedTwo ==
  ASSUME NEW x, NEW y, NEW a, NEW b
  PROVE  <<x, y>> \o <<a, b>> = <<x, y, a, b>>
<1> DEFINE S == {x, y, a, b}
           t == <<a, b>>
           r == <<x, y, a, b>>
           j == <<x, y>> \o t
<1>1. x \in S /\ y \in S /\ t \in Seq(S) /\ Len(t) = 2
  OBVIOUS
<1>2. \A i \in 1 .. 4 : r[i] = IF i = 1 THEN x ELSE IF i = 2 THEN y ELSE t[i - 2]
  OBVIOUS
<1>3. r = [i \in 1 .. 4 |-> r[i]]
  OBVIOUS
<1> HIDE DEF S, t, r
<1>4. Joins(j, x, y, t, Len(t))
  BY <1>1, TwoAndMore
<1> HIDE DEF j
<1>5. j = r
  BY <1>1, <1>2, <1>3, <1>4 DEF Joins
<1>6. QED
  BY <1>5 DEF j, t, r

LEMMA JoinedFive ==
  ASSUME NEW x, NEW y, NEW a, NEW b, NEW c, NEW d, NEW e
  PROVE  <<x, y>> \o <<a, b, c, d, e>> = <<x, y, a, b, c, d, e>>
<1> DEFINE S == {x, y, a, b, c, d, e}
           t == <<a, b, c, d, e>>
           r == <<x, y, a, b, c, d, e>>
           j == <<x, y>> \o t
<1>1. x \in S /\ y \in S /\ t \in Seq(S) /\ Len(t) = 5
  OBVIOUS
<1>2. \A i \in 1 .. 7 : r[i] = IF i = 1 THEN x ELSE IF i = 2 THEN y ELSE t[i - 2]
  OBVIOUS
<1>3. r = [i \in 1 .. 7 |-> r[i]]
  OBVIOUS
<1> HIDE DEF S, t, r
<1>4. Joins(j, x, y, t, Len(t))
  BY <1>1, TwoAndMore
<1> HIDE DEF j
<1>5. j = r
  BY <1>1, <1>2, <1>3, <1>4 DEF Joins
<1>6. QED
  BY <1>5 DEF j, t, r

(* A response, whose parameters follow the opcode and the status.          *)
ResponseStart == Byte("cmd_opcode", 0) ++ Byte("cmd_status", 1)

LEMMA ResponsesDecode ==
  ASSUME NEW n \in Nat, NEW answers \in (ResponsesWithParameters \cup {"SETUP"}) \ {"READ_DYNAMIC_DATA"}
  PROVE  Decodes("CMD_RSP", answers, n)
<1> DEFINE start == <<One("cmd_opcode"), One("cmd_status")>>
<1>1. /\ Part(Byte("cmd_opcode", 0), "cmd_opcode", 0, 1)
      /\ Part(Byte("cmd_status", 1), "cmd_status", 1, 1)
  BY BytePart
<1>2. ASSUME NEW b, NEW s, NEW m, Lays(b, s, m), m <= 30,
             \A x : acil_decode_evt_command_response(answers, x) = b,
             start \o aci_evt_cmd_rsp_params(answers, n) = s
      PROVE  Decodes("CMD_RSP", answers, n)
  <2>1. \A x : acil_decode_evt("CMD_RSP", answers, x) = acil_decode_evt_command_response(answers, x)
    BY DEF acil_decode_evt
  <2>2. aci_evt_t("CMD_RSP", answers, n) = start \o aci_evt_cmd_rsp_params(answers, n)
    BY DEF aci_evt_t
  <2>3. QED
    BY <1>2, <2>1, <2>2 DEF Decodes
<1>3. CASE answers = "SETUP"
  <2>1. Lays(ResponseStart, start, 1 + 1)
    BY <1>1, LaysTwo DEF One, ResponseStart
  <2>2. ResponseStart ++ Nothing = ResponseStart
    BY DEF ResponseStart, Nothing, ++
  <2>3. \A x : acil_decode_evt_command_response(answers, x) = ResponseStart ++ Nothing
    BY <1>3 DEF acil_decode_evt_command_response, ResponseStart
  <2>4. start \o aci_evt_cmd_rsp_params(answers, n) = start
    BY <1>3 DEF aci_evt_cmd_rsp_params
  <2>5. Lays(ResponseStart, start, 2) /\ 2 <= 30
    BY <2>1
  <2> HIDE DEF start
  <2>6. QED
    BY <1>2, <2>2, <2>3, <2>4, <2>5
<1>4. ASSUME NEW field, answers \in {"GET_TEMPERATURE", "GET_BATTERY_LEVEL"},
             \A x : acil_decode_evt_command_response(answers, x) = ResponseStart ++ Word(field, 2, 3),
             aci_evt_cmd_rsp_params(answers, n) = <<Two(field)>>
      PROVE  Decodes("CMD_RSP", answers, n)
  <2>1. Part(Word(field, 2, 3), field, 1 + 1, 2)
    BY WordParts
  <2>2. Lays(ResponseStart ++ Word(field, 2, 3), <<One("cmd_opcode"), One("cmd_status"), Two(field)>>, (1 + 1) + 2)
    BY <1>1, <2>1, LaysThree DEF One, Two, ResponseStart
  <2>3. start \o <<Two(field)>> = <<One("cmd_opcode"), One("cmd_status"), Two(field)>>
    BY JoinedOne
  <2>4. QED
    BY <1>2, <1>4, <2>2, <2>3
<1>5. CASE answers = "GET_TEMPERATURE"
  BY <1>4, <1>5 DEF acil_decode_evt_command_response, aci_evt_cmd_rsp_params, ResponseStart
<1>6. CASE answers = "GET_BATTERY_LEVEL"
  BY <1>4, <1>6 DEF acil_decode_evt_command_response, aci_evt_cmd_rsp_params, ResponseStart
<1>7. CASE answers = "GET_DEVICE_ADDRESS"
  <2> DEFINE own == Bytes("bd_addr_own", 2, 6)
             type == Byte("bd_addr_type", 8)
             s == <<One("cmd_opcode"), One("cmd_status"), <<"bd_addr_own", 6>>, One("bd_addr_type")>>
  <2>1. Part(own, "bd_addr_own", 1 + 1, 6)
    BY BytesPart
  <2>2. Part(type, "bd_addr_type", (1 + 1) + 6, 1)
    BY BytePart
  <2>3. \A x : acil_decode_evt_command_response(answers, x) = ResponseStart ++ (own ++ type)
    BY <1>7 DEF acil_decode_evt_command_response, ResponseStart
  <2>4. start \o aci_evt_cmd_rsp_params(answers, n) = s
    BY <1>7, JoinedTwo DEF aci_evt_cmd_rsp_params
  <2> HIDE DEF own, type
  <2>5. Lays(ResponseStart ++ own ++ type, s, ((1 + 1) + 6) + 1)
    BY <1>1, <2>1, <2>2, LaysFour DEF One, ResponseStart
  <2> HIDE DEF s, start
  <2>6. QED
    BY <1>2, <2>3, <2>4, <2>5, PlusAssociates
<1>8. CASE answers = "DTM_CMD"
  <2> DEFINE msb == Byte("evt_msb", 2)
             lsb == Byte("evt_lsb", 3)
             s == <<One("cmd_opcode"), One("cmd_status"), One("evt_msb"), One("evt_lsb")>>
  <2>1. Part(msb, "evt_msb", 1 + 1, 1)
    BY BytePart
  <2>2. Part(lsb, "evt_lsb", (1 + 1) + 1, 1)
    BY BytePart
  <2>3. \A x : acil_decode_evt_command_response(answers, x) = ResponseStart ++ (msb ++ lsb)
    BY <1>8 DEF acil_decode_evt_command_response, ResponseStart
  <2>4. start \o aci_evt_cmd_rsp_params(answers, n) = s
    BY <1>8, JoinedTwo DEF aci_evt_cmd_rsp_params
  <2> HIDE DEF msb, lsb
  <2>5. Lays(ResponseStart ++ msb ++ lsb, s, ((1 + 1) + 1) + 1)
    BY <1>1, <2>1, <2>2, LaysFour DEF One, ResponseStart
  <2> HIDE DEF s, start
  <2>6. QED
    BY <1>2, <2>3, <2>4, <2>5, PlusAssociates
<1>9. CASE answers = "GET_DEVICE_VERSION"
  <2> DEFINE a == Word("configuration_id", 2, 3)
             b == Byte("aci_version", 4)
             c == Byte("setup_format", 5)
             d == Bytes("setup_id", 6, 4)
             e == Byte("setup_status", 10)
             four == <<One("cmd_opcode"), One("cmd_status"), Two("configuration_id"), One("aci_version")>>
             s == <<One("cmd_opcode"), One("cmd_status"), Two("configuration_id"), One("aci_version"),
                    One("setup_format"), <<"setup_id", 4>>, One("setup_status")>>
  <2>1. Part(a, "configuration_id", 1 + 1, 2)
    BY WordParts
  <2>2. Part(b, "aci_version", (1 + 1) + 2, 1)
    BY BytePart
  <2>3. Part(c, "setup_format", 5, 1)
    BY BytePart
  <2>4. Part(d, "setup_id", 5 + 1, 4)
    BY BytesPart
  <2>5. Part(e, "setup_status", (5 + 1) + 4, 1)
    BY BytePart
  <2>6. \A x : acil_decode_evt_command_response(answers, x) = ResponseStart ++ (a ++ b ++ c ++ d ++ e)
    BY <1>9 DEF acil_decode_evt_command_response, ResponseStart
  <2>7. start \o aci_evt_cmd_rsp_params(answers, n) = s
    <3>1. aci_evt_cmd_rsp_params(answers, n)
            = <<Two("configuration_id"), One("aci_version"), One("setup_format"), <<"setup_id", 4>>, One("setup_status")>>
      BY <1>9 DEF aci_evt_cmd_rsp_params
    <3>2. start \o <<Two("configuration_id"), One("aci_version"), One("setup_format"), <<"setup_id", 4>>,
                     One("setup_status")>> = s
      BY JoinedFive
    <3>3. QED
      BY <3>1, <3>2
  <2> HIDE DEF a, b, c, d, e
  <2>8. Lays(ResponseStart ++ a ++ b, four, ((1 + 1) + 2) + 1)
    BY <1>1, <2>1, <2>2, LaysFour DEF One, Two, ResponseStart
  <2>9. Lays(ResponseStart ++ a ++ b, four, 5)
    BY <2>8
  <2> DEFINE h == ResponseStart ++ a ++ b
  <2>10. h = ResponseStart ++ a ++ b
    OBVIOUS
  <2> HIDE DEF h
  <2>11. Lays(h ++ c ++ d ++ e, s, ((5 + 1) + 4) + 1)
    BY <2>3, <2>4, <2>5, <2>9, <2>10, LaysLonger DEF One, Two
  <2>12. ResponseStart ++ (a ++ b ++ c ++ d ++ e) = h ++ c ++ d ++ e
    BY <2>10, PlusAssociates
  <2> HIDE DEF s, start
  <2>13. QED
    BY <1>2, <2>6, <2>7, <2>11, <2>12
<1>10. QED
  BY <1>3, <1>5, <1>6, <1>7, <1>8, <1>9 DEF ResponsesWithParameters

------------------------------------------------------------------------------
(* Intervals in milliseconds whose sixteenfold an int holds, and which the *)
(* parameter holds in its units.                                           *)
IntervalHeld(ms) == ms \in Nat /\ ms * 16 < 2 ^ IntBits /\ ms * 16 < 655360
IntervalsHeld == \A ms \in AdvertisingIntervals : IntervalHeld(ms)

(* What is on its way reads back, and both buffers keep their size.        *)
LibInv ==
  /\ DOMAIN msg_to_send.params = 0 .. 29
  /\ DOMAIN event.params = 0 .. 29
  /\ IntervalsHeld => PacketsReadBack
  /\ EventsReadBack

LEMMA InitLibInv == LibInit => LibInv
  BY DEF LibInit, LibInv, PacketsReadBack, EventsReadBack, NoPacket, NoEvent, ACI_PACKET_MAX_LEN

IsCall(call) ==
  /\ DOMAIN call = {"call", "opcode", "size", "interval", "pipe"}
  /\ call.opcode \in aci_cmd_opcode_t /\ call.size \in Nat

LEMMA PassingReadsBack ==
  ASSUME LibInv, NEW call, NEW interval, NEW pipes, IsCall(call),
         IntervalsHeld => call.interval * 16 - interval * 10 \in 0 .. 9,
         call.pipe # 0 => call.pipe \in pipes,
         Passes(call, interval, pipes)
  PROVE  LibInv'
<1> DEFINE opcode == call.opcode
           n == call.size
<1>1. opcode \in aci_cmd_opcode_t /\ n \in Nat
  BY DEF IsCall
<1>2. EncoderFits(opcode, n)
  <2> HIDE DEF opcode, n
  <2>1. QED
    BY <1>1, ShortCommandsFit, LongCommandsFit
<1>3. PICK bytes, struct, m : EncodedAs(opcode, n, bytes, struct, m)
  BY <1>2 DEF EncoderFits
<1>4. /\ asked' = [call EXCEPT !.call = calls + 1]
      /\ msg_to_send' = [length |-> 1 + m, opcode |-> opcode, interval |-> interval, pipes |-> pipes,
                         params |-> Written(msg_to_send.params, bytes)]
      /\ hal_aci_tl_send(msg_to_send')
      /\ event' = event
  BY <1>3 DEF Passes, EncodedAs, Encoded
<1>5. /\ asked'.call = calls + 1 /\ asked'.opcode = opcode /\ asked'.size = n
      /\ asked'.interval = call.interval /\ asked'.pipe = call.pipe
  BY <1>4 DEF IsCall
<1>6. /\ m \in Nat /\ DOMAIN bytes = 0 .. m - 1
      /\ Laid(aci_cmd_t(opcode, n)) = [k \in 1 .. m |-> bytes[k - 1]]
  BY <1>3 DEF EncodedAs, Lays
<1>7. DOMAIN msg_to_send'.params = 0 .. 29
  BY <1>4 DEF LibInv, Written
<1>8. ASSUME IntervalsHeld PROVE PacketsReadBack'
  <2> SUFFICES ASSUME packet' # NoPacket PROVE PacketsReadBack'
    BY DEF PacketsReadBack
  <2>0. call.interval * 16 - interval * 10 \in 0 .. 9
    BY <1>8
  <2>1. packet' = msg_to_send' /\ 1 + m <= 31
    BY <1>4 DEF hal_aci_tl_send, HAL_ACI_MAX_LEN
  <2> DEFINE laid == Laid(aci_cmd_t(opcode, n))
  <2>2. Len(laid) = m /\ DOMAIN laid = 1 .. m /\ \A k \in 1 .. m : laid[k] = bytes[k - 1]
    BY <1>6
  <2>3. /\ packet'.opcode = opcode /\ packet'.length = 1 + m
        /\ packet'.interval = interval /\ packet'.pipes = pipes
        /\ packet'.params = Written(msg_to_send.params, bytes)
    BY <1>4, <2>1
  <2>4. ASSUME NEW k \in 1 .. m PROVE packet'.params[k - 1] = <<calls + 1>> \o laid[k]
    <3>1. k - 1 \in 0 .. 29 /\ k - 1 \in DOMAIN bytes
      BY <1>6, <2>1
    <3>2. packet'.params[k - 1] = <<calls + 1>> \o bytes[k - 1]
      BY <2>3, <3>1 DEF LibInv, Written
    <3>3. QED
      BY <2>2, <3>2
  <2>5. ASSUME opcode \in Picked, ~(opcode = "CHANGE_TIMING" /\ n = 0)
        PROVE  acil_encode_cmd(opcode, packet'.length) = Encoder(opcode, n)
    <3>1. Encoder(opcode, n).length = 1 + m
      BY <1>3 DEF EncodedAs, Encoded
    <3> HIDE DEF opcode, n
    <3>2. QED
      BY <1>1, <2>3, <2>5, <3>1, EncodesAgain
  <2> HIDE DEF laid, opcode, n
  <2>6. QED
    BY <1>5, <2>0, <2>2, <2>3, <2>4, <2>5 DEF PacketsReadBack, laid
<1>9. EventsReadBack'
  BY <1>4 DEF LibInv, EventsReadBack
<1>10. QED
  BY <1>4, <1>7, <1>8, <1>9 DEF LibInv

(* A refused call leaves nothing to read.                                  *)
LEMMA RefusingReadsBack ==
  ASSUME LibInv, NEW call, Refuses(call)
  PROVE  LibInv'
  BY DEF Refuses, LibInv, PacketsReadBack, EventsReadBack

LEMMA SimpleCalls ==
  ASSUME NEW opcode \in aci_cmd_opcode_t, NEW size \in Nat
  PROVE  /\ IsCall(Simple(opcode, size))
         /\ Simple(opcode, size).interval = 0 /\ Simple(opcode, size).pipe = 0
  BY DEF Simple, NoCall, IsCall

LEMMA SimpleReadsBack ==
  ASSUME LibInv, NEW opcode \in aci_cmd_opcode_t, NEW size \in Nat, Passes(Simple(opcode, size), 0, {})
  PROVE  LibInv'
<1> DEFINE call == Simple(opcode, size)
<1>1. IsCall(call) /\ call.interval = 0 /\ call.pipe = 0
  BY SimpleCalls
<1> HIDE DEF call
<1>2. call.interval * 16 - 0 * 10 \in 0 .. 9
  BY <1>1
<1>3. Passes(call, 0, {})
  BY DEF call
<1>4. QED
  BY <1>1, <1>2, <1>3, PassingReadsBack

(* Such an interval is advertised to the unit.                             *)
LEMMA HeldByTwoBytes == ASSUME NEW y \in Nat, y < 65536 PROVE y % 65536 = y
  BY SMT

LEMMA HeldByFourBytes == ASSUME NEW y \in Nat, y < 4294967296 PROVE y % 4294967296 = y
  BY SMT

LEMMA DividedByTen ==
  ASSUME NEW x \in Nat, x < 655360
  PROVE  x \div 10 \in Nat /\ x \div 10 < 65536 /\ x - (x \div 10) * 10 \in 0 .. 9
  BY SMT

LEMMA PowersOfTwo == 2 ^ 16 = 65536 /\ 2 ^ 32 = 4294967296
  BY SMT

LEMMA IntervalFacts ==
  ASSUME NEW ms, IntervalHeld(ms)
  PROVE  ms * 16 - Interval(ms) * 10 \in 0 .. 9
<1> DEFINE x == ms * 16
<1>1. x \in Nat /\ x < 655360 /\ x < 2 ^ IntBits
  BY SMT DEF IntervalHeld
<1>2. Interval(ms) = ((x % 2 ^ IntBits) \div 10) % 2 ^ 16
  BY DEF Interval
<1> HIDE DEF x
<1>3. x % 2 ^ IntBits = x
  <2>1. CASE IntBits = 16
    BY <1>1, <2>1, PowersOfTwo, HeldByTwoBytes, SMT
  <2>2. CASE IntBits = 32
    BY <1>1, <2>2, PowersOfTwo, HeldByFourBytes, SMT
  <2>3. QED
    BY <2>1, <2>2, IntBitsAssumption
<1> DEFINE y == x \div 10
<1>4. y \in Nat /\ y < 65536 /\ x - y * 10 \in 0 .. 9
  BY <1>1, DividedByTen
<1>5. Interval(ms) = y % 65536
  BY <1>2, <1>3, PowersOfTwo, SMT
<1> HIDE DEF y
<1>6. Interval(ms) = y
  BY <1>4, <1>5, HeldByTwoBytes, SMT
<1>7. QED
  BY <1>4, <1>6 DEF x

LEMMA AdvertisingReadsBack ==
  ASSUME LibInv, NEW opcode \in {"CONNECT", "BOND", "BROADCAST"}, NEW ms \in AdvertisingIntervals,
         Passes(Advertises(opcode, ms), Interval(ms), {})
  PROVE  LibInv'
<1> DEFINE call == Advertises(opcode, ms)
<1>1. IsCall(call) /\ call.interval = ms /\ call.pipe = 0
  BY DEF Advertises, NoCall, IsCall, aci_cmd_opcode_t
<1> HIDE DEF call
<1>2. IntervalsHeld => call.interval * 16 - Interval(ms) * 10 \in 0 .. 9
  BY <1>1, IntervalFacts DEF IntervalsHeld
<1>3. Passes(call, Interval(ms), {})
  BY DEF call
<1>4. QED
  BY <1>1, <1>2, <1>3, PassingReadsBack

LEMMA OpeningReadsBack ==
  ASSUME LibInv, NEW pipe, NEW pipes, pipe \in pipes, Passes(Opens(pipe), 0, pipes)
  PROVE  LibInv'
<1> DEFINE call == Opens(pipe)
<1>1. IsCall(call) /\ call.interval = 0 /\ call.pipe = pipe
  BY DEF Opens, NoCall, IsCall, aci_cmd_opcode_t
<1> HIDE DEF call
<1>2. call.interval * 16 - 0 * 10 \in 0 .. 9
  BY <1>1
<1>3. Passes(call, 0, pipes)
  BY DEF call
<1>4. QED
  BY <1>1, <1>2, <1>3, PassingReadsBack

(* An event overwrites as many bytes as it has.                            *)
LEMMA EventReadsBack ==
  ASSUME LibInv, EventArrives
  PROVE  LibInv'
<1>1. PICK opcode \in aci_evt_opcode_t, n \in EventSizes :
        \E answers \in IF opcode = "CMD_RSP" THEN ResponsesWithParameters \cup {"SETUP"} ELSE {"none"} :
          LET laid == Laid(aci_evt_t(opcode, answers, n))
          IN  /\ event' = [call |-> calls + 1, opcode |-> opcode, answers |-> answers, size |-> n,
                           params |-> Written(event.params, [i \in 0 .. Len(laid) - 1 |-> laid[i + 1]])]
              /\ UNCHANGED <<msg_to_send, advPipes, asked, packet>>
  BY DEF EventArrives
<1>2. PICK answers \in IF opcode = "CMD_RSP" THEN ResponsesWithParameters \cup {"SETUP"} ELSE {"none"} :
        LET laid == Laid(aci_evt_t(opcode, answers, n))
        IN  /\ event' = [call |-> calls + 1, opcode |-> opcode, answers |-> answers, size |-> n,
                         params |-> Written(event.params, [i \in 0 .. Len(laid) - 1 |-> laid[i + 1]])]
            /\ UNCHANGED <<msg_to_send, advPipes, asked, packet>>
  BY <1>1
<1> DEFINE laid == Laid(aci_evt_t(opcode, answers, n))
           bytes == [i \in 0 .. Len(laid) - 1 |-> laid[i + 1]]
<1>3. /\ event' = [call |-> calls + 1, opcode |-> opcode, answers |-> answers, size |-> n,
                   params |-> Written(event.params, bytes)]
      /\ UNCHANGED <<msg_to_send, advPipes, asked, packet>>
  BY <1>2
<1> HIDE DEF bytes
<1>4. DOMAIN msg_to_send'.params = 0 .. 29 /\ DOMAIN event'.params = 0 .. 29 /\ (IntervalsHeld => PacketsReadBack')
  BY <1>3 DEF LibInv, Written, PacketsReadBack
<1>5. n \in 0 .. 28
  BY SizesOK
<1>6. EventsReadBack'
  <2> SUFFICES ASSUME ~(opcode = "CMD_RSP" /\ answers = "READ_DYNAMIC_DATA") PROVE EventsReadBack'
    BY <1>3 DEF EventsReadBack
  <2>1. Decodes(opcode, answers, n)
    <3>1. CASE opcode = "CMD_RSP"
      BY <1>2, <1>5, <3>1, ResponsesDecode
    <3>2. CASE opcode # "CMD_RSP"
      <4>1. n \in Nat
        BY <1>5
      <4>2. QED
        BY <3>2, <4>1, ShortEventsDecode, LongEventsDecode DEF aci_evt_opcode_t
    <3>3. QED
      BY <3>1, <3>2
  <2>2. PICK m : /\ Lays(acil_decode_evt(opcode, answers, 1 + m), aci_evt_t(opcode, answers, n), m)
                 /\ n <= 28 => m <= 30
    BY <2>1 DEF Decodes
  <2> DEFINE decoded == acil_decode_evt(opcode, answers, 1 + m)
  <2>3. /\ m \in Nat /\ DOMAIN decoded = 0 .. m - 1
        /\ Len(laid) = m /\ DOMAIN laid = 1 .. m
        /\ \A k \in 1 .. m : laid[k] = decoded[k - 1]
    BY <2>2 DEF Lays
  <2> HIDE DEF decoded, laid
  <2>4. m <= 30
    BY <1>5, <2>2
  <2>5. ASSUME NEW i \in 0 .. m - 1 PROVE event'.params[i] = <<calls + 1>> \o decoded[i]
    <3>1. i \in 0 .. 29 /\ i \in 0 .. Len(laid) - 1 /\ i + 1 \in 1 .. m /\ (i + 1) - 1 = i
      BY <2>3, <2>4
    <3>2. i \in DOMAIN bytes /\ bytes[i] = laid[i + 1]
      BY <3>1 DEF bytes
    <3>3. event'.params[i] = <<calls + 1>> \o bytes[i]
      BY <1>3, <3>1, <3>2 DEF LibInv, Written
    <3>4. laid[i + 1] = decoded[i]
      BY <2>3, <3>1
    <3>5. QED
      BY <3>2, <3>3, <3>4
  <2>6. QED
    BY <1>3, <2>3, <2>5 DEF EventsReadBack, laid, decoded
<1>7. QED
  BY <1>4, <1>6 DEF LibInv

LEMMA CallReadsBack ==
  ASSUME LibInv, Command
  PROVE  LibInv'
<1>1. CASE DeviceCall
  <2>1. PICK opcode \in DeviceCommands \cup {"READ_DYNAMIC_DATA", "DTM_CMD"} : Passes(Simple(opcode, 0), 0, {})
    BY <1>1 DEF DeviceCall
  <2>2. opcode \in aci_cmd_opcode_t
    BY DEF DeviceCommands, aci_cmd_opcode_t
  <2>3. QED
    BY <2>1, <2>2, SimpleReadsBack
<1>2. CASE PipeCall
  <2>1. PICK opcode \in PipeCommands : Passes(Simple(opcode, 0), 0, {})
    BY <1>2 DEF PipeCall
  <2>2. opcode \in aci_cmd_opcode_t
    BY DEF PipeCommands, aci_cmd_opcode_t
  <2>3. QED
    BY <2>1, <2>2, SimpleReadsBack
<1>3. CASE lib_aci_change_timing
  <2>1. PICK size \in {0, 8} : Passes(Simple("CHANGE_TIMING", size), 0, {})
    BY <1>3 DEF lib_aci_change_timing
  <2>2. QED
    BY <2>1, SimpleReadsBack DEF aci_cmd_opcode_t
<1>4. CASE lib_aci_set_key
  <2>1. PICK size \in {0, 6} : Passes(Simple("SET_KEY", size), 0, {})
    BY <1>4 DEF lib_aci_set_key
  <2>2. QED
    BY <2>1, SimpleReadsBack DEF aci_cmd_opcode_t
<1>5. CASE lib_aci_set_local_data
  <2>1. PICK size \in DataSizes : Passes(Simple("SET_LOCAL_DATA", size), 0, {})
    BY <1>5 DEF lib_aci_set_local_data
  <2>2. QED
    BY <2>1, SizesOK, SimpleReadsBack DEF aci_cmd_opcode_t
<1>6. CASE lib_aci_write_dynamic_data
  <2>1. PICK size \in DataSizes : Passes(Simple("WRITE_DYNAMIC_DATA", size), 0, {})
    BY <1>6 DEF lib_aci_write_dynamic_data
  <2>2. QED
    BY <2>1, SizesOK, SimpleReadsBack DEF aci_cmd_opcode_t
<1>7. CASE lib_aci_send_data
  <2>1. PICK size \in DataSizes : Refuses(Simple("SEND_DATA", size)) \/ Passes(Simple("SEND_DATA", size), 0, {})
    BY <1>7 DEF lib_aci_send_data
  <2>2. QED
    BY <2>1, SizesOK, SimpleReadsBack, RefusingReadsBack DEF aci_cmd_opcode_t
<1>8. CASE lib_aci_echo_msg
  <2>1. PICK size \in DataSizes : Refuses(Simple("ECHO", size)) \/ Passes(Simple("ECHO", size), 0, {})
    BY <1>8 DEF lib_aci_echo_msg
  <2>2. QED
    BY <2>1, SizesOK, SimpleReadsBack, RefusingReadsBack DEF aci_cmd_opcode_t
<1>9. CASE lib_aci_connect
  <2>1. PICK opcode \in {"CONNECT", "BOND"}, ms \in AdvertisingIntervals :
          Passes(Advertises(opcode, ms), Interval(ms), {})
    BY <1>9 DEF lib_aci_connect
  <2>2. QED
    BY <2>1, AdvertisingReadsBack
<1>10. CASE lib_aci_broadcast
  <2>1. PICK ms \in AdvertisingIntervals :
          \/ Passes(Advertises("BROADCAST", ms), Interval(ms), {})
          \/ Refuses(Advertises("BROADCAST", ms))
    BY <1>10 DEF lib_aci_broadcast
  <2>2. QED
    BY <2>1, AdvertisingReadsBack, RefusingReadsBack
<1>11. CASE lib_aci_open_adv_pipes
  <2>1. PICK pipe \in AdvPipes : Passes(Opens(pipe), 0, {pipe})
    BY <1>11 DEF lib_aci_open_adv_pipes
  <2>2. QED
    BY <2>1, OpeningReadsBack
<1>12. CASE lib_aci_open_adv_pipe
  <2>1. PICK pipe \in AdvPipes : advPipes' = advPipes \cup {pipe} /\ Passes(Opens(pipe), 0, advPipes')
    BY <1>12 DEF lib_aci_open_adv_pipe
  <2>2. pipe \in advPipes'
    BY <2>1
  <2>3. QED
    BY <2>1, <2>2, OpeningReadsBack
<1>13. QED
  BY <1>1, <1>2, <1>3, <1>4, <1>5, <1>6, <1>7, <1>8, <1>9, <1>10, <1>11, <1>12 DEF Command

------------------------------------------------------------------------------
LEMMA LibInvAlways == ProgramSpec => []LibInv
<1>1. ProgramInit => LibInv
  BY InitLibInv DEF ProgramInit
<1>2. LibInv /\ [ProgramNext]_programVars => LibInv'
  <2> SUFFICES ASSUME LibInv, [ProgramNext]_programVars PROVE LibInv'
    OBVIOUS
  <2>1. CASE UNCHANGED libVars
    BY <2>1 DEF libVars, LibInv, PacketsReadBack, EventsReadBack
  <2>2. CASE Calling
    BY <2>2, CallReadsBack, EventReadsBack DEF Calling, LibNext
  <2>3. UNCHANGED libVars \/ Calling
    BY DEF ProgramNext, SettingUp, programVars, libVars
  <2>4. QED
    BY <2>1, <2>2, <2>3
<1>3. QED
  BY <1>1, <1>2, PTL DEF ProgramSpec

(* The chip reads from every packet what the caller of lib_aci asked for   *)
(* (lib_aci.cpp and acilib.cpp), when the sketch's advertising intervals   *)
(* are ones that startAdvertising can compute with.                        *)
THEOREM PacketsAlwaysReadBack ==
  ASSUME IntervalsHeld
  PROVE  ProgramSpec => []PacketsReadBack
<1>1. LibInv => PacketsReadBack
  BY DEF LibInv
<1>2. QED
  BY <1>1, LibInvAlways, PTL

(* acilib reads from every event what the structures have there, and no    *)
(* byte of an earlier one (acil_decode_evt).                               *)
THEOREM EventsAlwaysReadBack == ProgramSpec => []EventsReadBack
<1>1. LibInv => EventsReadBack
  BY DEF LibInv
<1>2. QED
  BY <1>1, LibInvAlways, PTL
==============================================================================
