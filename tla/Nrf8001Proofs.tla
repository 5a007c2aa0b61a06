---------------------------- MODULE Nrf8001Proofs ----------------------------
(***************************************************************************)
(* The nRF8001 driver keeps in step with its chip and answers every write, *)
(* for any tables of pipes, any calls of the sketch and of its handlers,   *)
(* and any number of events waiting, as long as no call of theirs goes     *)
(* over the oldest command of a ring that is not seen to be full.          *)
(***************************************************************************)
EXTENDS Nrf8001, FiniteSetTheorems, SequenceTheorems, WellFoundedInduction, TLAPS

(* A sequence of some elements or other.                                   *)
IsQueue(s) == \E S : s \in Seq(S)

(* The fields of chip and of out, which no step adds or drops.             *)
ChipShape(k) ==
  DOMAIN k = {"mode", "inFlight", "unacked", "open", "timings", "adv", "bonded",
              "toSave", "read", "restored"}

OutShape(o) ==
  /\ DOMAIN o = {"tx", "head", "overrun", "credit", "open", "closed", "broadcast"}
  /\ IsQueue(o.tx) /\ Len(o.tx) <= ACI_QUEUE_SIZE

Linked(k) == k.mode \in {"connected", "closing"}

------------------------------------------------------------------------------
(* The first invariant: an acknowledgement that is owed is on its way.  It *)
(* takes that tx never holds a fifth command, so that an exchange leaves   *)
(* room.  A command that was overrun ends the behaviour of the model and   *)
(* leaves its queue alone, so that the invariants need not mention it.     *)
AckSent ==
  chip.unacked # 0 =>
    \/ \E i \in 1 .. Len(events) :
         events[i].type = "DataReceived" /\ events[i].pipe = chip.unacked
    \/ \E i \in Commands("ack") : out.tx[i][2] = chip.unacked

AckInv ==
  /\ ChipShape(chip) /\ IsQueue(events) /\ OutShape(out)
  /\ chip.unacked \in AckedPipes \cup {0}
  /\ AckSent

(* A pipe with acknowledgement is the pipe of one purpose, and no remote   *)
(* characteristic is readable: one that is takes the packets of the        *)
(* others.                                                                 *)
AckedPipesApart ==
  \A p \in AckedPipes \ {0} :
    /\ \A c \in Characteristics : LocalMatches(c, p) => Local[c].rxAck = p
    /\ \A r \in DOMAIN Remote : RemoteMatches(r, p) => Remote[r].rxAck = p

------------------------------------------------------------------------------
(* Queues, whatever they hold.                                             *)
LEMMA QueueFacts ==
  ASSUME NEW s, IsQueue(s)
  PROVE  Len(s) \in Nat /\ DOMAIN s = 1 .. Len(s)
BY DEF IsQueue

LEMMA AppendFacts ==
  ASSUME NEW s, NEW e, IsQueue(s)
  PROVE  /\ IsQueue(Append(s, e))
         /\ DOMAIN Append(s, e) = 1 .. Len(s) + 1
         /\ Len(Append(s, e)) = Len(s) + 1
         /\ \A i \in 1 .. Len(s) : Append(s, e)[i] = s[i]
         /\ Append(s, e)[Len(s) + 1] = e
<1>1. PICK S : s \in Seq(S)
  BY DEF IsQueue
<1> DEFINE T == S \cup {e}
<1>2. s \in Seq(T) /\ e \in T
  BY <1>1
<1>3. Append(s, e) \in Seq(T)
  BY <1>2
<1>4. QED
  BY <1>2, <1>3 DEF IsQueue

LEMMA SingleFacts ==
  ASSUME NEW e
  PROVE  IsQueue(<< e >>) /\ DOMAIN << e >> = {1} /\ << e >>[1] = e /\ Len(<< e >>) = 1
<1>1. << e >> \in Seq({e})
  OBVIOUS
<1>2. IsQueue(<< e >>)
  BY <1>1 DEF IsQueue
<1>3. DOMAIN << e >> = 1 .. Len(<< e >>) /\ Len(<< e >>) = 1
  BY <1>2, QueueFacts
<1>4. QED
  BY <1>2, <1>3

LEMMA RestFacts ==
  ASSUME NEW s, IsQueue(s)
  PROVE  /\ IsQueue(Rest(s)) /\ Len(Rest(s)) <= Len(s)
         /\ s # << >> => /\ Len(Rest(s)) = Len(s) - 1
                         /\ Head(s) = s[1] /\ 1 \in DOMAIN s
         /\ s = << >> => Rest(s) = << >> /\ Len(s) = 0
         /\ \A i \in 1 .. Len(Rest(s)) : Rest(s)[i] = s[i + 1]
<1>1. PICK S : s \in Seq(S)
  BY DEF IsQueue
<1>2. Rest(s) \in Seq(S)
  BY <1>1 DEF Rest
<1>3. QED
  BY <1>1, <1>2 DEF IsQueue, Rest

LEMMA ConcatFacts ==
  ASSUME NEW s, NEW t, IsQueue(s), IsQueue(t)
  PROVE  /\ IsQueue(s \o t) /\ Len(s \o t) = Len(s) + Len(t)
         /\ \A i \in 1 .. Len(s) : (s \o t)[i] = s[i]
         /\ \A i \in 1 .. Len(t) : (s \o t)[Len(s) + i] = t[i]
<1>1. PICK S, T : s \in Seq(S) /\ t \in Seq(T)
  BY DEF IsQueue
<1> DEFINE U == S \cup T
<1>2. s \in Seq(U) /\ t \in Seq(U)
  BY <1>1
<1>3. s \o t \in Seq(U)
  BY <1>2
<1>4. QED
  BY <1>2, <1>3 DEF IsQueue

------------------------------------------------------------------------------
(* A command leaves the link and the pipes alone but for disconnect, which *)
(* closes a link that ends only with its event; and a reply has nothing to *)
(* do with either.                                                         *)
LEMMA CommandKeeps ==
  ASSUME NEW k, ChipShape(k), NEW cmd
  PROVE  /\ ChipShape(ChipAfter(k, cmd))
         /\ Linked(ChipAfter(k, cmd)) <=> Linked(k)
         /\ ChipAfter(k, cmd).open = k.open
         /\ k.mode = "closing" \/ (cmd[1] = "disconnect" /\ k.mode = "connected")
              => ChipAfter(k, cmd).mode = "closing"
         /\ \/ ChipAfter(k, cmd).unacked = k.unacked
            \/ /\ cmd[1] = "ack" /\ cmd[2] = k.unacked
               /\ ChipAfter(k, cmd).unacked = 0
<1> DEFINE a == ChipAfter(k, cmd)
<1>1. CASE a = k /\ (cmd[1] = "disconnect" => k.mode # "connected")
  BY <1>1
<1>2. CASE cmd[1] = "data" /\ Takes(k, cmd[2])
  BY <1>2 DEF ChipAfter, ChipShape, Linked
<1>3. CASE cmd[1] = "ack" /\ k.unacked = cmd[2]
  BY <1>3 DEF ChipAfter, ChipShape, Linked
<1>4. CASE cmd[1] = "openAdv"
  BY <1>4 DEF ChipAfter, ChipShape, Linked
<1>5. CASE cmd[1] = "timing" /\ k.mode = "connected"
  BY <1>5 DEF ChipAfter, ChipShape, Linked
<1>6. CASE cmd[1] = "disconnect" /\ k.mode = "connected"
  BY <1>6 DEF ChipAfter, ChipShape, Linked
<1>7. CASE cmd[1] \in Advertising /\ k.mode = "standby"
  BY <1>7 DEF ChipAfter, ChipShape, Linked, Advertising, Connectable
<1>8. CASE cmd[1] = "readDynamic" /\ k.mode = "standby"
  BY <1>8 DEF ChipAfter, ChipShape, Linked, Advertising, Connectable
<1>9. CASE cmd[1] = "writeDynamic" /\ k.mode = "standby" /\ k.restored < Chunks
  BY <1>9 DEF ChipAfter, ChipShape, Linked, Advertising, Connectable
<1>10. QED
  BY <1>1, <1>2, <1>3, <1>4, <1>5, <1>6, <1>7, <1>8, <1>9 DEF ChipAfter

LEMMA ReplyFacts ==
  ASSUME NEW k, NEW cmd
  PROVE  /\ IsQueue(Replies(k, cmd))
         /\ \A i \in DOMAIN Replies(k, cmd) :
              Replies(k, cmd)[i].type \in {"PipeError", "DataRead", "DataWritten"}
<1>1. \A e : IsQueue(<< e >>) /\ DOMAIN << e >> = {1} /\ << e >>[1] = e
  BY SingleFacts
<1>2. IsQueue(<< >>) /\ DOMAIN << >> = {}
  <2>1. << >> \in Seq({})
    OBVIOUS
  <2>2. QED
    BY <2>1 DEF IsQueue
<1>3. QED
  BY <1>1, <1>2 DEF Replies

(* The exchange moves every event one place ahead and puts replies behind. *)
LEMMA ExchangeFacts ==
  ASSUME ChipShape(chip), IsQueue(events), Exchange
  PROVE  /\ ChipShape(chip')
         /\ Linked(chip') <=> Linked(chip)
         /\ chip'.open = chip.open
         /\ chip.mode = "closing" => chip'.mode = "closing"
         /\ /\ out.tx # << >> /\ Head(out.tx)[1] = "disconnect" /\ chip.mode = "connected"
            => chip'.mode = "closing"
         /\ IsQueue(events')
         /\ Len(Rest(events)) <= Len(events')
         /\ \A i \in 1 .. Len(Rest(events)) : events'[i] = events[i + 1]
         /\ \A i \in DOMAIN events' : i > Len(Rest(events)) =>
              events'[i].type \in {"PipeError", "DataRead", "DataWritten"}
         /\ chip'.unacked # chip.unacked => chip'.unacked = 0
         /\ out.tx # << >> /\ Head(out.tx)[1] = "ack" /\ Head(out.tx)[2] = chip.unacked
              => chip'.unacked = 0
<1>1. /\ IsQueue(Rest(events)) /\ Len(Rest(events)) \in Nat
      /\ DOMAIN Rest(events) = 1 .. Len(Rest(events))
      /\ \A i \in 1 .. Len(Rest(events)) : Rest(events)[i] = events[i + 1]
  BY RestFacts, QueueFacts
<1>2. CASE out.tx = << >>
  BY <1>1, <1>2 DEF Exchange
<1>3. CASE out.tx # << >>
  <2> DEFINE r == Replies(chip, Head(out.tx))
  <2>1. chip' = ChipAfter(chip, Head(out.tx)) /\ events' = Rest(events) \o r
    BY <1>3 DEF Exchange
  <2>2. /\ IsQueue(r) /\ Len(r) \in Nat /\ DOMAIN r = 1 .. Len(r)
        /\ \A i \in DOMAIN r : r[i].type \in {"PipeError", "DataRead", "DataWritten"}
    BY ReplyFacts, QueueFacts
  <2> HIDE DEF r
  <2>3. /\ IsQueue(events') /\ Len(events') = Len(Rest(events)) + Len(r)
        /\ \A i \in 1 .. Len(Rest(events)) : events'[i] = Rest(events)[i]
        /\ \A i \in 1 .. Len(r) : events'[Len(Rest(events)) + i] = r[i]
    BY <1>1, <2>1, <2>2, ConcatFacts
  <2>4. DOMAIN events' = 1 .. Len(Rest(events)) + Len(r)
    BY <2>3, QueueFacts
  <2>5. \A i \in DOMAIN events' : i > Len(Rest(events)) =>
          events'[i].type \in {"PipeError", "DataRead", "DataWritten"}
    <3> SUFFICES ASSUME NEW i \in DOMAIN events', i > Len(Rest(events))
                 PROVE  events'[i].type \in {"PipeError", "DataRead", "DataWritten"}
      OBVIOUS
    <3>1. i - Len(Rest(events)) \in 1 .. Len(r)
      BY <1>1, <2>2, <2>4
    <3>2. events'[Len(Rest(events)) + (i - Len(Rest(events)))] = r[i - Len(Rest(events))]
      BY <2>3, <3>1
    <3>3. Len(Rest(events)) + (i - Len(Rest(events))) = i
      BY <1>1, <2>2, <2>4
    <3>4. QED
      BY <2>2, <3>1, <3>2, <3>3
  <2>6. /\ ChipShape(chip')
        /\ Linked(chip') <=> Linked(chip)
        /\ chip'.open = chip.open
        /\ chip.mode = "closing" => chip'.mode = "closing"
        /\ Head(out.tx)[1] = "disconnect" /\ chip.mode = "connected" => chip'.mode = "closing"
        /\ chip'.unacked # chip.unacked => chip'.unacked = 0
    BY <2>1, CommandKeeps
  <2>7. Head(out.tx)[1] = "ack" /\ Head(out.tx)[2] = chip.unacked => chip'.unacked = 0
    BY <2>1 DEF ChipAfter, ChipShape, Advertising, Connectable
  <2>8. QED
    BY <1>1, <2>2, <2>3, <2>5, <2>6, <2>7
<1>4. QED
  BY <1>2, <1>3

------------------------------------------------------------------------------
(* What follows a command in tx: other commands, and no other change of    *)
(* those already there.                                                    *)
Grows(o, n) ==
  /\ OutShape(n) /\ Len(o.tx) <= Len(n.tx)
  /\ \A i \in 1 .. Len(o.tx) : n.tx[i] = o.tx[i]

LEMMA GrowsTwice ==
  ASSUME NEW o, NEW n, NEW q, OutShape(o), Grows(o, n), Grows(n, q)
  PROVE  Grows(o, q)
<1>1. Len(o.tx) \in Nat /\ Len(n.tx) \in Nat /\ Len(q.tx) \in Nat
  BY QueueFacts DEF OutShape, Grows
<1>2. QED
  BY <1>1 DEF Grows

(* A field other than tx is set.                                           *)
LEMMA FieldGrows ==
  ASSUME NEW o, OutShape(o), NEW x
  PROVE  /\ Grows(o, o)
         /\ Grows(o, [o EXCEPT !.credit = x])
         /\ Grows(o, [o EXCEPT !.broadcast = x])
         /\ Grows(o, [o EXCEPT !.open = x])
         /\ Grows(o, [o EXCEPT !.closed = x])
         /\ Grows(o, [o EXCEPT !.overrun = x])
<1>1. Len(o.tx) \in Nat
  BY QueueFacts DEF OutShape
<1>2. QED
  BY <1>1 DEF Grows, OutShape

(* A refused command leaves all fields but one.                            *)
LEMMA RefusedFacts ==
  ASSUME NEW o, OutShape(o)
  PROVE  /\ Grows(o, Refused(o)) /\ OutShape(Refused(o)) /\ Refused(o).tx = o.tx
         /\ \A f \in {"tx", "head", "credit", "open", "closed", "broadcast"} :
              Refused(o)[f] = o[f]
<1>1. Grows(o, Refused(o))
  BY FieldGrows DEF Refused
<1>2. QED
  BY <1>1 DEF Refused, OutShape, Grows

LEMMA SentGrows ==
  ASSUME NEW o, OutShape(o), NEW cmd
  PROVE  /\ Grows(o, Sent(o, cmd))
         /\ Room(o) => Sent(o, cmd).tx[Len(o.tx) + 1] = cmd
                       /\ Len(Sent(o, cmd).tx) = Len(o.tx) + 1
<1>1. Len(o.tx) \in Nat /\ IsQueue(o.tx)
  BY QueueFacts DEF OutShape
<1>2. CASE ~Room(o)
  BY <1>2, RefusedFacts DEF Sent
<1>3. CASE Room(o)
  <2> DEFINE tx == Append(o.tx, cmd)
  <2>1. /\ IsQueue(tx) /\ Len(tx) = Len(o.tx) + 1
        /\ \A i \in 1 .. Len(o.tx) : tx[i] = o.tx[i]
        /\ tx[Len(o.tx) + 1] = cmd
    BY <1>1, AppendFacts
  <2>2. Sent(o, cmd) = [o EXCEPT !.tx = tx]
    BY <1>3 DEF Sent
  <2> HIDE DEF tx
  <2>3. OutShape(Sent(o, cmd)) /\ Sent(o, cmd).tx = tx
    BY <1>1, <1>3, <2>1, <2>2 DEF OutShape, Room, ACI_QUEUE_SIZE
  <2>4. QED
    BY <1>1, <2>1, <2>3 DEF Grows
<1>4. QED
  BY <1>2, <1>3

LEMMA SentToGrows ==
  ASSUME NEW o, OutShape(o), NEW op, NEW p
  PROVE  Grows(o, SentTo(o, op, p))
BY SentGrows, FieldGrows DEF SentTo

LEMMA NotifiedGrows ==
  ASSUME NEW o, OutShape(o), NEW flags, NEW p
  PROVE  Grows(o, Notified(o, flags, p))
<1> DEFINE spent == [o EXCEPT !.credit = o.credit - 1]
<1>1. Grows(o, o) /\ Grows(o, spent) /\ OutShape(spent)
  BY FieldGrows DEF Grows
<1> HIDE DEF spent
<1>2. Grows(o, Sent(spent, <<"data", p>>))
  BY <1>1, SentGrows, GrowsTwice
<1>3. QED
  BY <1>1, <1>2 DEF Notified, spent

LEMMA UpdateGrows ==
  ASSUME NEW o, OutShape(o), NEW flags, NEW c
  PROVE  Grows(o, updateCharacteristicValue(o, flags, c))
<1> DEFINE advertised == IF o.broadcast = Local[c].adv
                         THEN SentTo(o, "setLocal", Local[c].adv) ELSE o
           readable == SentTo(advertised, "setLocal", Local[c].set)
           notified == Notified(readable, flags, Local[c].tx)
<1>1. Grows(o, advertised) /\ OutShape(advertised)
  BY SentToGrows, FieldGrows DEF Grows
<1>2. Grows(advertised, readable) /\ OutShape(readable)
  BY <1>1, SentToGrows DEF Grows
<1>3. Grows(readable, notified) /\ OutShape(notified)
  BY <1>2, NotifiedGrows DEF Grows
<1>4. Grows(notified, Notified(notified, flags, Local[c].txAck))
  BY <1>3, NotifiedGrows
<1>5. QED
  BY <1>1, <1>2, <1>3, <1>4, GrowsTwice DEF updateCharacteristicValue

LEMMA BroadcastGrows ==
  ASSUME NEW o, OutShape(o), NEW c
  PROVE  Grows(o, broadcastCharacteristic(o, c))
<1> DEFINE opened == SentTo(o, "openAdv", Local[c].adv)
           set == SentTo(opened, "setLocal", Local[c].adv)
<1>1. /\ Grows(o, o) /\ Grows(o, opened) /\ OutShape(opened)
      /\ Grows(o, Refused(o))
  BY SentToGrows, FieldGrows, RefusedFacts DEF Grows
<1>2. Grows(opened, set) /\ OutShape(set) /\ Grows(opened, Refused(opened))
  BY <1>1, SentToGrows, RefusedFacts DEF Grows
<1>3. Grows(set, [set EXCEPT !.broadcast = Local[c].adv])
  BY <1>2, FieldGrows
<1> HIDE DEF set, opened
<1>4. Grows(o, [set EXCEPT !.broadcast = Local[c].adv]) /\ Grows(o, Refused(opened))
  BY <1>1, <1>2, <1>3, GrowsTwice
<1>5. QED
  BY <1>1, <1>4 DEF broadcastCharacteristic, set, opened

LEMMA DisconnectGrows ==
  ASSUME NEW o, OutShape(o)
  PROVE  Grows(o, disconnect(o))
<1> DEFINE n == Sent(o, <<"disconnect", 0>>)
           opened == [n EXCEPT !.open = {}]
<1>1. Grows(o, Refused(o)) /\ Grows(o, n) /\ OutShape(n)
  BY SentGrows, RefusedFacts DEF Grows
<1> HIDE DEF n
<1>2. Grows(n, opened) /\ OutShape(opened)
  BY <1>1, FieldGrows DEF Grows
<1>3. Grows(opened, [opened EXCEPT !.closed = {}])
  BY <1>2, FieldGrows
<1>4. [n EXCEPT !.open = {}, !.closed = {}] = [opened EXCEPT !.closed = {}]
  OBVIOUS
<1> HIDE DEF opened
<1>5. Grows(o, [n EXCEPT !.open = {}, !.closed = {}])
  BY <1>1, <1>2, <1>3, <1>4, GrowsTwice
<1>6. QED
  BY <1>1, <1>5 DEF disconnect, n

(* Every call of the API, so the handlers too, whatever they call.         *)
LEMMA CalledGrows ==
  ASSUME NEW o, OutShape(o), NEW flags
  PROVE  \A a : Grows(o, Called(o, flags, a))
<1> SUFFICES ASSUME NEW a PROVE Grows(o, Called(o, flags, a))
  OBVIOUS
<1>1. /\ Grows(o, updateCharacteristicValue(o, flags, a[2]))
      /\ Grows(o, broadcastCharacteristic(o, a[2]))
      /\ Grows(o, disconnect(o)) /\ Grows(o, o) /\ Grows(o, Sent(o, <<"info", 0>>))
  BY UpdateGrows, BroadcastGrows, DisconnectGrows, FieldGrows, SentGrows
<1>2. /\ Grows(o, readRemoteCharacteristic(o, a[2]))
      /\ Grows(o, writeRemoteCharacteristic(o, a[2]))
      /\ Grows(o, subscribeRemoteCharacteristic(o, a[2]))
      /\ Grows(o, unsubscribeRemoteCharacteristic(o, a[2]))
  BY FieldGrows, SentGrows, SentToGrows
     DEF readRemoteCharacteristic, writeRemoteCharacteristic,
         subscribeRemoteCharacteristic, unsubscribeRemoteCharacteristic
<1>3. QED
  BY <1>1, <1>2 DEF Called

LEMMA HandlerGrows ==
  ASSUME NEW o, OutShape(o), NEW flags, NEW h, NEW subs,
         NEW n \in AfterHandler(h, o, flags, subs)
  PROVE  Grows(o, n)
<1>1. CASE n = o
  BY <1>1, FieldGrows
<1>2. CASE \E a : n = Called(o, flags, a)
  BY <1>2, CalledGrows
<1>3. CASE \E a, b : n = Called(Called(o, flags, a), flags, b)
  <2>1. PICK a, b : n = Called(Called(o, flags, a), flags, b)
    BY <1>3
  <2>2. Grows(o, Called(o, flags, a)) /\ OutShape(Called(o, flags, a))
    BY CalledGrows DEF Grows
  <2>3. Grows(Called(o, flags, a), n)
    BY <2>1, <2>2, CalledGrows
  <2>4. QED
    BY <2>2, <2>3, GrowsTwice
<1>4. QED
  BY <1>1, <1>2, <1>3 DEF AfterHandler

------------------------------------------------------------------------------
(* The exchange that brings an event leaves room for a command.            *)
LEMMA ReceivedFacts ==
  ASSUME OutShape(out)
  PROVE  /\ OutShape(Received) /\ Received.tx = Rest(out.tx)
         /\ Room(Received)
         /\ Len(out.tx) \in Nat /\ Len(Received.tx) \in Nat
         /\ \A i \in 2 .. Len(out.tx) :
              i - 1 \in 1 .. Len(Received.tx) /\ Received.tx[i - 1] = out.tx[i]
<1>1. /\ IsQueue(Rest(out.tx)) /\ Len(Rest(out.tx)) \in Nat /\ Len(out.tx) \in Nat
      /\ out.tx # << >> => Len(Rest(out.tx)) = Len(out.tx) - 1
      /\ out.tx = << >> => Len(Rest(out.tx)) = 0 /\ Len(out.tx) = 0
      /\ \A i \in 1 .. Len(Rest(out.tx)) : Rest(out.tx)[i] = out.tx[i + 1]
  BY RestFacts, QueueFacts DEF OutShape
<1>2. DOMAIN Received = DOMAIN out /\ Received.tx = Rest(out.tx)
  BY DEF Received, OutShape, Rest
<1>3. OutShape(Received) /\ Room(Received)
  BY <1>1, <1>2 DEF OutShape, Room, ACI_QUEUE_SIZE
<1>4. QED
  BY <1>1, <1>2, <1>3

(* Bookkeeping of an event keeps the commands.                             *)
LEMMA EventGetGrows ==
  ASSUME NEW o, OutShape(o)
  PROVE  Grows(o, lib_aci_event_get(o))
<1>1. ASSUME NEW x, NEW y PROVE Grows(o, [o EXCEPT !.open = x, !.closed = y])
  <2> DEFINE n == [o EXCEPT !.open = x]
  <2>1. Grows(o, n)
    BY FieldGrows
  <2>2. [o EXCEPT !.open = x, !.closed = y] = [n EXCEPT !.closed = y]
    OBVIOUS
  <2> HIDE DEF n
  <2>3. OutShape(n)
    BY <2>1 DEF Grows
  <2>4. Grows(n, [n EXCEPT !.closed = y])
    BY <2>3, FieldGrows
  <2>5. QED
    BY <2>1, <2>2, <2>4, GrowsTwice
<1>2. ASSUME NEW x, NEW y, NEW z
      PROVE  Grows(o, [o EXCEPT !.open = x, !.closed = y, !.credit = z])
  <2> DEFINE n == [o EXCEPT !.open = x, !.closed = y]
  <2>1. Grows(o, n)
    BY <1>1
  <2>2. [o EXCEPT !.open = x, !.closed = y, !.credit = z] = [n EXCEPT !.credit = z]
    OBVIOUS
  <2> HIDE DEF n
  <2>3. OutShape(n)
    BY <2>1 DEF Grows
  <2>4. Grows(n, [n EXCEPT !.credit = z])
    BY <2>3, FieldGrows
  <2>5. QED
    BY <2>1, <2>2, <2>4, GrowsTwice
<1>3. Grows(o, o)
  BY FieldGrows
<1>4. QED
  BY <1>1, <1>2, <1>3 DEF lib_aci_event_get

(* An event is taken: if it is the write that waits, its acknowledgement   *)
(* must be among the commands.                                             *)
LEMMA AckPolled ==
  ASSUME AckInv, Exchange, Grows(Received, out'),
         /\ chip.unacked # 0 /\ events # << >>
         /\ Head(events).type = "DataReceived" /\ Head(events).pipe = chip.unacked
         => \E i \in 1 .. Len(out'.tx) : out'.tx[i] = <<"ack", chip.unacked>>
  PROVE  AckInv'
<1>1. /\ ChipShape(chip') /\ IsQueue(events') /\ OutShape(out')
      /\ chip'.unacked # chip.unacked => chip'.unacked = 0
  BY ExchangeFacts DEF AckInv, Grows
<1>2. chip'.unacked # 0 =>
        \/ \E i \in 1 .. Len(events') :
             events'[i].type = "DataReceived" /\ events'[i].pipe = chip.unacked
        \/ \E i \in 1 .. Len(out'.tx) :
             out'.tx[i][1] = "ack" /\ out'.tx[i][2] = chip.unacked
  <2> SUFFICES ASSUME chip'.unacked # 0
               PROVE  \/ \E i \in 1 .. Len(events') :
                           /\ events'[i].type = "DataReceived"
                           /\ events'[i].pipe = chip.unacked
                      \/ \E i \in 1 .. Len(out'.tx) :
                           out'.tx[i][1] = "ack" /\ out'.tx[i][2] = chip.unacked
    OBVIOUS
  <2>1. chip.unacked # 0 /\ chip'.unacked = chip.unacked
    BY <1>1
  <2>2. CASE \E i \in 1 .. Len(events) :
               events[i].type = "DataReceived" /\ events[i].pipe = chip.unacked
    <3>1. PICK i \in 1 .. Len(events) :
            events[i].type = "DataReceived" /\ events[i].pipe = chip.unacked
      BY <2>2
    <3>2. /\ Len(events) \in Nat /\ events # << >> /\ Head(events) = events[1]
          /\ Len(Rest(events)) = Len(events) - 1
      BY QueueFacts, RestFacts DEF AckInv
    <3>3. CASE i = 1
      BY <2>1, <3>1, <3>2, <3>3
    <3>4. CASE i > 1
      <4>1. /\ i - 1 \in 1 .. Len(Rest(events)) /\ Len(Rest(events)) <= Len(events')
            /\ Len(events') \in Nat
        BY <1>1, <3>2, <3>4, ExchangeFacts, QueueFacts DEF AckInv
      <4>2. events'[i - 1] = events[(i - 1) + 1] /\ (i - 1) + 1 = i
        BY <4>1, ExchangeFacts DEF AckInv
      <4>3. i - 1 \in 1 .. Len(events')
        BY <3>2, <4>1
      <4>4. QED
        BY <3>1, <4>2, <4>3
    <3>5. QED
      BY <3>2, <3>3, <3>4
  <2>3. CASE \E i \in Commands("ack") : out.tx[i][2] = chip.unacked
    <3>1. PICK i \in 1 .. Len(out.tx) : out.tx[i][1] = "ack" /\ out.tx[i][2] = chip.unacked
      BY <2>3 DEF Commands
    <3>2. CASE i = 1
      <4>1. out.tx # << >> /\ Head(out.tx) = out.tx[1]
        BY <3>2, QueueFacts, RestFacts DEF AckInv, OutShape
      <4>2. chip'.unacked = 0
        BY <3>1, <3>2, <4>1, ExchangeFacts DEF AckInv
      <4>3. QED
        BY <4>2
    <3>3. CASE i > 1
      <4>1. /\ i - 1 \in 1 .. Len(Received.tx) /\ Received.tx[i - 1] = out.tx[i]
            /\ Len(Received.tx) \in Nat
        BY <3>3, ReceivedFacts DEF AckInv
      <4>2. /\ Len(Received.tx) <= Len(out'.tx) /\ out'.tx[i - 1] = Received.tx[i - 1]
            /\ Len(out'.tx) \in Nat
        BY <1>1, <4>1, QueueFacts DEF Grows, OutShape
      <4>3. i - 1 \in 1 .. Len(out'.tx)
        BY <4>1, <4>2
      <4>4. QED
        BY <3>1, <4>1, <4>2, <4>3
    <3>4. QED
      BY <3>2, <3>3, ReceivedFacts DEF AckInv
  <2>4. QED
    BY <2>1, <2>2, <2>3 DEF AckInv, AckSent
<1>3. AckSent'
  BY <1>1, <1>2 DEF AckSent, Commands
<1>4. QED
  BY <1>1, <1>3 DEF AckInv, AckedPipes, Characteristics

(* The chip emits events, and owes no more acknowledgements, or the one    *)
(* the event is about.                                                     *)
LEMMA AckEmitted ==
  ASSUME AckInv, NEW e, events' = Append(events, e), ChipShape(chip'), out' = out,
         \/ chip'.unacked \in {0, chip.unacked}
         \/ /\ chip'.unacked \in AckedPipes
            /\ e.type = "DataReceived" /\ e.pipe = chip'.unacked
  PROVE  AckInv'
<1>1. /\ IsQueue(events') /\ Len(events) \in Nat
      /\ Len(events') = Len(events) + 1
      /\ \A i \in 1 .. Len(events) : events'[i] = events[i]
      /\ events'[Len(events) + 1] = e
  BY AppendFacts, QueueFacts DEF AckInv
<1>2. AckSent'
  <2>1. CASE chip'.unacked = 0
    BY <2>1 DEF AckSent
  <2>2. CASE chip'.unacked = chip.unacked
    <3>1. \A i \in 1 .. Len(events) : i \in 1 .. Len(events') /\ events'[i] = events[i]
      BY <1>1
    <3>2. QED
      BY <2>2, <3>1 DEF AckInv, AckSent, Commands
  <2>3. CASE e.type = "DataReceived" /\ e.pipe = chip'.unacked
    <3>1. Len(events) + 1 \in 1 .. Len(events')
      BY <1>1
    <3>2. QED
      BY <1>1, <2>3, <3>1 DEF AckSent
  <2>4. QED
    BY <2>1, <2>2, <2>3
<1>3. QED
  BY <1>1, <1>2 DEF AckInv, AckedPipes, Characteristics

------------------------------------------------------------------------------
(* DataReceived: the acknowledgement is the first command its handler      *)
(* sends.                                                                  *)
HasAck(o, p) == \E i \in 1 .. Len(o.tx) : o.tx[i] = <<"ack", p>>

LEMMA AckStays ==
  ASSUME NEW o, OutShape(o), NEW n, Grows(o, n), NEW p, HasAck(o, p)
  PROVE  HasAck(n, p)
<1>1. Len(o.tx) \in Nat /\ Len(n.tx) \in Nat
  BY QueueFacts DEF OutShape, Grows
<1>2. QED
  BY <1>1 DEF HasAck, Grows

LEMMA AcknowledgedFacts ==
  ASSUME NEW o, OutShape(o), NEW p, NEW q
  PROVE  /\ Grows(o, Acknowledged(o, p, q))
         /\ p = q /\ Room(o) => HasAck(Acknowledged(o, p, q), p)
<1>1. Grows(o, Acknowledged(o, p, q))
  BY SentGrows, FieldGrows DEF Acknowledged
<1>2. ASSUME p = q, Room(o) PROVE HasAck(Acknowledged(o, p, q), p)
  <2>1. Acknowledged(o, p, q) = Sent(o, <<"ack", p>>)
    BY <1>2 DEF Acknowledged
  <2>2. /\ Sent(o, <<"ack", p>>).tx[Len(o.tx) + 1] = <<"ack", p>>
        /\ Len(Sent(o, <<"ack", p>>).tx) = Len(o.tx) + 1
    BY <1>2, SentGrows
  <2>3. Len(o.tx) + 1 \in 1 .. Len(o.tx) + 1
    BY QueueFacts DEF OutShape
  <2>4. QED
    BY <2>1, <2>2, <2>3 DEF HasAck
<1>3. QED
  BY <1>1, <1>2

(* A loop that returns at the first match finds one if there is one.       *)
LEMMA FirstExists ==
  ASSUME NEW S, S \subseteq Nat, S # {}
  PROVE  First(S) # {} /\ First(S) \subseteq S
<1> DEFINE Less == {ss \in Nat \X Nat : ss[1] < ss[2]}
<1>1. OpToRel(<, Nat) = Less
  BY DEF OpToRel
<1>2. IsWellFoundedOn(Less, Nat)
  BY <1>1, NatLessThanWellFounded
<1>3. PICK x \in S : \A y \in S : ~ (<<y, x>> \in Less)
  BY <1>2, WFMin
<1>4. ASSUME NEW y \in S, y < x PROVE <<y, x>> \in Less
  <2>1. <<y, x>> \in Nat \X Nat /\ <<y, x>>[1] = y /\ <<y, x>>[2] = x
    OBVIOUS
  <2>2. QED
    BY <1>4, <2>1
<1> HIDE DEF Less
<1>5. \A y \in S : ~(y < x)
  BY <1>3, <1>4
<1>6. \A y \in S : x <= y
  <2>1. \A y \in S : y \in Nat /\ x \in Nat
    OBVIOUS
  <2>2. QED
    BY <1>5, <2>1
<1>7. QED
  BY <1>6 DEF First

LEMMA DataReceivedGrows ==
  ASSUME OutShape(out), DataReceived
  PROVE  /\ Grows(Received, out')
         /\ /\ AckInv /\ AckedPipesApart /\ chip.unacked # 0
            /\ Head(events).pipe = chip.unacked
            => HasAck(out', chip.unacked)
<1> DEFINE p == Head(events).pipe
           locals == {c \in Characteristics : LocalMatches(c, p)}
           remotes == {r \in DOMAIN Remote : RemoteMatches(r, p)}
           mine == First(locals)
           theirs == First(remotes)
           answered(c) == Acknowledged(Received, p, Local[c].rxAck)
           set == {updateCharacteristicValue(answered(c), txOpen, c) : c \in mine}
           local == IF mine = {} THEN {Received} ELSE set
           remote == IF theirs = {} THEN local
                     ELSE {Acknowledged(o, p, Remote[r].rxAck) : o \in local, r \in theirs}
<1>1. PICK o \in remote : out' \in AfterHandler("DataReceived", o, txOpen, subscribed)
  BY DEF DataReceived
<1> HIDE DEF p, locals, remotes, mine, theirs, answered, set, local, remote
<1>2. OutShape(Received) /\ Room(Received) /\ Grows(Received, Received)
  <2>1. OutShape(Received) /\ Room(Received)
    BY ReceivedFacts
  <2>2. QED
    BY <2>1, FieldGrows
<1>3. ASSUME NEW c
      PROVE  /\ OutShape(answered(c))
             /\ Grows(Received, answered(c))
             /\ Local[c].rxAck = p => HasAck(answered(c), p)
  BY <1>2, AcknowledgedFacts DEF Grows, answered
<1>4. ASSUME NEW c
      PROVE  /\ Grows(Received, updateCharacteristicValue(answered(c), txOpen, c))
             /\ Local[c].rxAck = p
                  => HasAck(updateCharacteristicValue(answered(c), txOpen, c), p)
  <2>1. Grows(answered(c), updateCharacteristicValue(answered(c), txOpen, c))
    BY <1>3, UpdateGrows
  <2>2. QED
    BY <1>2, <1>3, <2>1, GrowsTwice, AckStays
<1>5. \A n \in local : Grows(Received, n) /\ OutShape(n)
  BY <1>2, <1>4 DEF Grows, local, set
<1>6. ASSUME NEW n \in local, NEW r
      PROVE  /\ Grows(Received, Acknowledged(n, p, Remote[r].rxAck))
             /\ OutShape(Acknowledged(n, p, Remote[r].rxAck))
             /\ HasAck(n, p) => HasAck(Acknowledged(n, p, Remote[r].rxAck), p)
  <2>1. Grows(n, Acknowledged(n, p, Remote[r].rxAck))
    BY <1>5, AcknowledgedFacts
  <2>2. QED
    BY <1>2, <1>5, <2>1, GrowsTwice, AckStays DEF Grows
<1>7. Grows(Received, o) /\ OutShape(o)
  BY <1>5, <1>6 DEF remote
<1>8. Grows(o, out')
  BY <1>1, <1>7, HandlerGrows
<1>9. ASSUME AckInv, AckedPipesApart, chip.unacked # 0, p = chip.unacked
      PROVE  HasAck(o, p)
  <2>1. p \in AckedPipes \ {0}
    BY <1>9 DEF AckInv
  <2>2. /\ \A c \in locals : Local[c].rxAck = p
        /\ \A r \in remotes : Remote[r].rxAck = p
    BY <1>9, <2>1 DEF AckedPipesApart, locals, remotes
  <2>3. locals \subseteq Nat /\ remotes \subseteq Nat
    BY TablesAssumption DEF Characteristics, locals, remotes
  <2>4. mine \subseteq locals /\ theirs \subseteq remotes
    BY DEF First, mine, theirs
  <2>5. CASE locals # {}
    <3>1. mine # {}
      BY <2>3, <2>5, FirstExists DEF mine
    <3>2. \A n \in local : HasAck(n, p)
      BY <1>4, <2>2, <2>4, <3>1 DEF local, set
    <3>3. QED
      BY <1>6, <3>2 DEF remote
  <2>6. CASE locals = {}
    <3>1. mine = {} /\ local = {Received}
      BY <2>4, <2>6 DEF local
    <3>2. remotes # {}
      BY <2>1, <2>6 DEF AckedPipes, LocalMatches, RemoteMatches, locals, remotes
    <3>3. theirs # {}
      BY <2>3, <3>2, FirstExists DEF theirs
    <3>4. PICK r \in theirs : o = Acknowledged(Received, p, Remote[r].rxAck)
      BY <3>1, <3>3 DEF remote
    <3>5. Remote[r].rxAck = p
      BY <2>2, <2>4
    <3>6. QED
      BY <1>2, <3>4, <3>5, AcknowledgedFacts
  <2>7. QED
    BY <2>5, <2>6
<1>10. QED
  BY <1>2, <1>7, <1>8, <1>9, GrowsTwice, AckStays DEF p

------------------------------------------------------------------------------
(* The handlers of a pipe status event run once the timing was asked for.  *)
AfterPipes(o) ==
  {o} \cup AfterHandler("PipeStatus", o, AllTxPipes \cap Head(events).open,
                       SubscribedWith(Head(events).open))
      \cup UNION {AfterHandler("PipeStatus", o, FlagsAt(c, Head(events).open),
                              UpTo(c, SubscribedWith(Head(events).open), subscribed))
                   : c \in Characteristics}

LEMMA PipesLeave ==
  ASSUME PipeStatus
  PROVE  LET pipes == Head(events).open
             updated == lib_aci_event_get(Received)
             o == IF Retimed(pipes) THEN Sent(updated, <<"timing", 0>>) ELSE updated
         IN  out' \in AfterPipes(o)
BY DEF PipeStatus, BehindLoop, InLoop, SubscribersChange, AfterPipes

(* The other events: they are no writes, and their handlers only add to tx.*)
LEMMA OtherGrows ==
  ASSUME OutShape(out), poll, ~DataReceived
  PROVE  Grows(Received, out')
<1>1. OutShape(Received) /\ Grows(Received, Received)
  <2>1. OutShape(Received)
    BY ReceivedFacts
  <2>2. QED
    BY <2>1, FieldGrows
<1>2. ASSUME NEW o, Grows(Received, o)
      PROVE  /\ \A cmd : Grows(Received, Sent(o, cmd))
             /\ \A b : Grows(Received, startAdvertising(o, b))
             /\ \A h, flags, subs : \A n \in AfterHandler(h, o, flags, subs) :
                  Grows(Received, n)
             /\ Grows(Received, lib_aci_event_get(o))
             /\ \A x : Grows(Received, [o EXCEPT !.credit = x])
  <2>1. OutShape(o)
    BY <1>2 DEF Grows
  <2>2. \A cmd : Grows(o, Sent(o, cmd))
    BY <2>1, SentGrows
  <2>3. \A b : Grows(o, startAdvertising(o, b))
    BY <2>2 DEF startAdvertising
  <2>4. \A h, flags, subs : \A n \in AfterHandler(h, o, flags, subs) : Grows(o, n)
    BY <2>1, HandlerGrows
  <2>5. Grows(o, lib_aci_event_get(o)) /\ \A x : Grows(o, [o EXCEPT !.credit = x])
    BY <2>1, EventGetGrows, FieldGrows
  <2>6. \A n : Grows(o, n) => Grows(Received, n)
    BY <1>1, <1>2, GrowsTwice
  <2>7. QED
    BY <2>2, <2>3, <2>4, <2>5, <2>6
<1>3. CASE NoEvent
  BY <1>1, <1>3 DEF NoEvent
<1>4. CASE DeviceStarted
  BY <1>1, <1>2, <1>4 DEF DeviceStarted
<1>5. CASE DataRead
  BY <1>1, <1>2, <1>5 DEF DataRead
<1>6. CASE DataWritten
  BY <1>1, <1>2, <1>6 DEF DataWritten
<1>7. CASE Connected
  <2>1. PICK o \in AfterHandler("Connected", Received, txOpen, subscribed) :
          out' = [o EXCEPT !.credit = Credits]
    BY <1>7 DEF Connected
  <2>2. Grows(Received, o)
    BY <1>1, <1>2
  <2>3. QED
    BY <1>2, <2>1, <2>2
<1>8. CASE PipeStatus
  <2> DEFINE pipes == Head(events).open
             updated == lib_aci_event_get(Received)
             o == IF Retimed(pipes) THEN Sent(updated, <<"timing", 0>>) ELSE updated
  <2>1. out' \in AfterPipes(o)
    BY <1>8, PipesLeave
  <2>2. Grows(Received, updated)
    BY <1>1, <1>2
  <2> HIDE DEF updated
  <2>3. Grows(Received, o)
    BY <1>2, <2>2
  <2> HIDE DEF o, pipes
  <2>4. out' = o \/ \E flags, subs : out' \in AfterHandler("PipeStatus", o, flags, subs)
    BY <2>1 DEF AfterPipes
  <2>5. QED
    BY <1>2, <2>3, <2>4
<1>9. CASE Disconnected
  <2> DEFINE updated == lib_aci_event_get(Received)
  <2>1. PICK o \in AfterUnlink(updated) :
          out' = IF storeDynamicData THEN Sent(o, <<"readDynamic", 0>>)
                 ELSE startAdvertising(o, hasData)
    BY <1>9 DEF Disconnected
  <2>2. Grows(Received, updated)
    BY <1>1, <1>2
  <2> HIDE DEF updated
  <2>3. \E flags, subs : o \in AfterHandler("Disconnected", updated, flags, subs)
    BY DEF AfterUnlink
  <2>4. Grows(Received, o)
    BY <1>2, <2>2, <2>3
  <2>5. QED
    BY <1>2, <2>1, <2>4
<1>10. CASE BondStatus
  BY <1>1, <1>2, <1>10 DEF BondStatus
<1>11. CASE DataCredit
  BY <1>1, <1>2, <1>11 DEF DataCredit, Credited
<1>12. CASE PipeError
  BY <1>1, <1>2, <1>12 DEF PipeError, Credited
<1>13. CASE HwError
  BY <1>1, <1>2, <1>13 DEF HwError
<1>14. QED
  BY <1>3, <1>4, <1>5, <1>6, <1>7, <1>8, <1>9, <1>10, <1>11, <1>12, <1>13 DEF poll

(* Each handler is that of the event an exchange brought.                  *)
LEMMA PollExchanges ==
  ASSUME poll
  PROVE  /\ Exchange
         /\ events = << >> \/ Head(events).type # "DataReceived" \/ DataReceived
<1>1. CASE NoEvent
  BY <1>1 DEF NoEvent
<1>2. CASE DeviceStarted
  BY <1>2 DEF DeviceStarted, Gets
<1>3. CASE DataRead
  BY <1>3 DEF DataRead, Gets
<1>4. CASE DataWritten
  BY <1>4 DEF DataWritten, Gets
<1>5. CASE Connected
  BY <1>5 DEF Connected, Gets
<1>6. CASE PipeStatus
  BY <1>6 DEF PipeStatus, Gets
<1>7. CASE Disconnected
  BY <1>7 DEF Disconnected, Gets
<1>8. CASE BondStatus
  BY <1>8 DEF BondStatus, Gets
<1>9. CASE DataReceived
  <2>1. Gets("DataReceived")
    BY <1>9 DEF DataReceived
  <2>2. QED
    BY <1>9, <2>1 DEF Gets
<1>10. CASE DataCredit
  BY <1>10 DEF DataCredit, Gets
<1>11. CASE PipeError
  BY <1>11 DEF PipeError, Gets
<1>12. CASE HwError
  BY <1>12 DEF HwError, Gets
<1>13. QED
  BY <1>1, <1>2, <1>3, <1>4, <1>5, <1>6, <1>7, <1>8, <1>9, <1>10, <1>11, <1>12 DEF poll

LEMMA PollAcks == AckInv /\ AckedPipesApart /\ poll => AckInv'
<1> SUFFICES ASSUME AckInv, AckedPipesApart, poll PROVE AckInv'
  OBVIOUS
<1>1. Exchange
  BY PollExchanges
<1>2. CASE DataReceived
  <2>1. Grows(Received, out')
    BY <1>2, DataReceivedGrows DEF AckInv
  <2>2. chip.unacked # 0 /\ Head(events).pipe = chip.unacked => HasAck(out', chip.unacked)
    BY <1>2, DataReceivedGrows DEF AckInv
  <2>3. QED
    BY <1>1, <2>1, <2>2, AckPolled DEF HasAck
<1>3. CASE ~DataReceived
  <2>1. Grows(Received, out')
    BY <1>3, OtherGrows DEF AckInv
  <2>2. events = << >> \/ Head(events).type # "DataReceived"
    BY <1>3, PollExchanges
  <2>3. QED
    BY <1>1, <2>1, <2>2, AckPolled
<1>4. QED
  BY <1>2, <1>3

LEMMA CallAcks == AckInv /\ Call => AckInv'
<1> SUFFICES ASSUME AckInv, Call PROVE AckInv'
  OBVIOUS
<1>1. Grows(out, out') /\ chip' = chip /\ events' = events
  BY CalledGrows DEF Call, AckInv
<1>2. Len(out.tx) \in Nat /\ Len(out'.tx) \in Nat
  BY <1>1, QueueFacts DEF AckInv, OutShape, Grows
<1>3. \A i \in 1 .. Len(out.tx) : i \in 1 .. Len(out'.tx) /\ out'.tx[i] = out.tx[i]
  BY <1>1, <1>2 DEF Grows
<1>4. AckSent'
  BY <1>1, <1>3 DEF AckInv, AckSent, Commands
<1>5. QED
  BY <1>1, <1>4 DEF AckInv, Grows, AckedPipes, Characteristics

LEMMA ChipAcks == AckInv /\ Chip => AckInv'
<1> SUFFICES ASSUME AckInv, Chip PROVE AckInv'
  OBVIOUS
<1>1. ChipShape(chip)
  BY DEF AckInv
<1>2. CASE PeerConnects
  <2>1. ChipShape(chip') /\ chip'.unacked = chip.unacked
    BY <1>1, <1>2 DEF PeerConnects, ChipShape
  <2>2. QED
    BY <1>2, <2>1, AckEmitted DEF PeerConnects, Emits
<1>3. CASE PeerSetsPipes
  <2>1. PICK pipes, closed :
          /\ chip' = [chip EXCEPT !.open = pipes]
          /\ Emits([type |-> "PipeStatus", open |-> pipes, closed |-> closed])
    BY <1>3 DEF PeerSetsPipes
  <2>2. ChipShape(chip') /\ chip'.unacked = chip.unacked
    BY <1>1, <2>1 DEF ChipShape
  <2>3. QED
    BY <2>1, <2>2, AckEmitted DEF Emits
<1>4. CASE PeerSends
  <2>1. PICK p :
          /\ chip' = [chip EXCEPT !.unacked = IF p \in AckedPipes THEN p ELSE chip.unacked]
          /\ Emits([type |-> "DataReceived", pipe |-> p])
    BY <1>4 DEF PeerSends
  <2>2. /\ ChipShape(chip')
        /\ chip'.unacked = IF p \in AckedPipes THEN p ELSE chip.unacked
    BY <1>1, <2>1 DEF ChipShape
  <2>3. QED
    BY <2>1, <2>2, AckEmitted DEF Emits
<1>5. CASE PeerTakesData
  <2>1. ChipShape(chip') /\ chip'.unacked = chip.unacked
    BY <1>1, <1>5 DEF PeerTakesData, ChipShape
  <2>2. QED
    BY <1>5, <2>1, AckEmitted DEF PeerTakesData, Emits
<1>6. CASE PeerRefuses
  BY <1>1, <1>6, AckEmitted DEF PeerRefuses, Emits
<1>7. CASE PeerBonds
  <2>1. PICK success, b, t :
          /\ chip' = [chip EXCEPT !.bonded = b, !.toSave = t]
          /\ Emits([type |-> "BondStatus", success |-> success])
    BY <1>7 DEF PeerBonds
  <2>2. ChipShape(chip') /\ chip'.unacked = chip.unacked
    BY <1>1, <2>1 DEF ChipShape
  <2>3. QED
    BY <2>1, <2>2, AckEmitted DEF Emits
<1>8. CASE LinkEnds
  <2>1. ChipShape(chip') /\ chip'.unacked = 0
    BY <1>1, <1>8 DEF LinkEnds, Unlinked, ChipShape
  <2>2. QED
    BY <1>8, <2>1, AckEmitted DEF LinkEnds, Emits
<1>9. CASE ChipFails
  <2> DEFINE started == [type |-> "DeviceStarted", hwError |-> TRUE]
             failed == [type |-> "HwError"]
  <2>1. ChipShape(chip') /\ chip'.unacked = 0 /\ out' = out
    BY <1>1, <1>9 DEF ChipFails, Unlinked, ChipShape
  <2>2. events' = events \o << started, failed >>
    BY <1>9 DEF ChipFails
  <2> HIDE DEF started, failed
  <2>3. << started, failed >> \in Seq({started, failed})
    OBVIOUS
  <2>4. IsQueue(events')
    BY <2>2, <2>3, ConcatFacts DEF IsQueue, AckInv
  <2>5. QED
    BY <2>1, <2>4 DEF AckInv, AckSent, AckedPipes, Characteristics
<1>10. QED
  BY <1>2, <1>3, <1>4, <1>5, <1>6, <1>7, <1>8, <1>9 DEF Chip

(* What begin() leaves to be sent.                                         *)
LEMMA BegunFacts ==
  \A head : LET o == Begun(head)
            IN  /\ OutShape(o) /\ DOMAIN o.tx = {1} /\ o.tx[1] = <<"info", 0>>
                /\ o.credit = 0 /\ o.broadcast = 0
<1> TAKE head
<1> DEFINE tx == << <<"info", 0>> >>
<1>1. IsQueue(tx) /\ DOMAIN tx = {1} /\ tx[1] = <<"info", 0>> /\ Len(tx) = 1
  BY SingleFacts
<1> HIDE DEF tx
<1>2. Begun(head) = [tx |-> tx, head |-> head, overrun |-> FALSE, credit |-> 0,
                     open |-> {}, closed |-> {}, broadcast |-> 0]
  BY DEF Begun, tx
<1>3. /\ Begun(head).tx = tx /\ Begun(head).credit = 0 /\ Begun(head).broadcast = 0
      /\ DOMAIN Begun(head)
           = {"tx", "head", "overrun", "credit", "open", "closed", "broadcast"}
  BY <1>2
<1>4. Len(tx) <= ACI_QUEUE_SIZE
  BY <1>1 DEF ACI_QUEUE_SIZE
<1>5. OutShape(Begun(head))
  BY <1>1, <1>3, <1>4 DEF OutShape
<1>6. QED
  BY <1>1, <1>3, <1>5

LEMMA InitAcks == Init => AckInv
<1> SUFFICES ASSUME Init PROVE AckInv
  OBVIOUS
<1>1. ChipShape(chip) /\ chip.unacked = 0
  BY DEF Init, SetUp, ChipShape
<1>2. IsQueue(events)
  BY SingleFacts DEF Init
<1>3. OutShape(out)
  BY BegunFacts DEF Init
<1>4. QED
  BY <1>1, <1>2, <1>3 DEF AckInv, AckSent

LEMMA StepAcks == AckInv /\ AckedPipesApart /\ [Next]_vars => AckInv'
<1> SUFFICES ASSUME AckInv, AckedPipesApart, [Next]_vars PROVE AckInv'
  OBVIOUS
<1>1. CASE UNCHANGED vars
  BY <1>1 DEF vars, AckInv, AckSent, Commands, AckedPipes, Characteristics
<1>2. QED
  BY <1>1, CallAcks, PollAcks, ChipAcks DEF Next, Overrun

(* A write the peer waits for is in an event the driver will see, or its   *)
(* acknowledgement is among the commands, whatever the handlers and the    *)
(* loop send and whether or not the chip restarts: until they send a fifth *)
(* command while the ring is not seen to be full.                          *)
THEOREM AckOnItsWayAlways == ASSUME AckedPipesApart PROVE Spec => []AckOnItsWay
<1>1. AckInv => AckOnItsWay
  BY DEF AckInv, AckSent, AckOnItsWay
<1>2. Init => AckInv
  BY InitAcks
<1>3. AckInv /\ [Next]_vars => AckInv'
  BY StepAcks
<1>4. QED
  BY <1>1, <1>2, <1>3, PTL DEF Spec

------------------------------------------------------------------------------
(* The second invariant: what the driver will believe once it has seen the *)
(* events that wait is what the chip is.  The last event about the link    *)
(* says whether there is one, and the last about the pipes which are open; *)
(* the driver may know of fewer subscriptions while it has the link closed.*)
LinkEvent(e) == e.type \in {"Connected", "Disconnected"}
PipesEvent(e) == e.type \in {"PipeStatus", "Disconnected"}
Reported(e) == IF e.type = "PipeStatus" THEN e.open ELSE {}

Ends(tx) == \E i \in 1 .. Len(tx) : tx[i][1] = "disconnect"
Known(subs, pipes, tx, k) ==
  /\ subs \subseteq SubscribedWith(pipes)
  /\ subs = SubscribedWith(pipes) \/ k.mode = "closing" \/ Ends(tx)

LinkSeen ==
  /\ (\A i \in DOMAIN events : ~LinkEvent(events[i])) => (central <=> Linked(chip))
  /\ \A i \in DOMAIN events :
       /\ LinkEvent(events[i])
       /\ \A j \in DOMAIN events : j > i => ~LinkEvent(events[j])
       => (events[i].type = "Connected" <=> Linked(chip))

PipesSeen ==
  /\ (\A i \in DOMAIN events : ~PipesEvent(events[i]))
       => Known(subscribed, chip.open, out.tx, chip)
  /\ \A i \in DOMAIN events :
       /\ PipesEvent(events[i])
       /\ \A j \in DOMAIN events : j > i => ~PipesEvent(events[j])
       => Reported(events[i]) = chip.open

StepInv ==
  /\ ChipShape(chip) /\ IsQueue(events) /\ OutShape(out)
  /\ ~Linked(chip) => chip.open = {}
  /\ LinkSeen /\ PipesSeen

(* A disconnect stays in tx until the chip has it, and then the link ends  *)
(* before anything else is said of the pipes.                              *)
LEMMA KnownPolled ==
  ASSUME StepInv, Exchange, Grows(Received, out'),
         Known(subscribed, chip.open, out.tx, chip)
  PROVE  Known(subscribed, chip.open, out'.tx, chip')
<1>1. CASE subscribed = SubscribedWith(chip.open)
  BY <1>1 DEF Known
<1>2. CASE chip.mode = "closing"
  BY <1>2, ExchangeFacts DEF StepInv, Known
<1>3. CASE Ends(out.tx)
  <2>1. PICK i \in 1 .. Len(out.tx) : out.tx[i][1] = "disconnect"
    BY <1>3 DEF Ends
  <2>2. /\ Len(out.tx) \in Nat /\ Len(Received.tx) \in Nat
        /\ \A j \in 2 .. Len(out.tx) :
             j - 1 \in 1 .. Len(Received.tx) /\ Received.tx[j - 1] = out.tx[j]
    BY ReceivedFacts DEF StepInv
  <2>3. CASE i = 1
    <3>1. out.tx # << >> /\ Head(out.tx) = out.tx[1]
      BY <2>1, <2>2, <2>3, RestFacts DEF StepInv, OutShape
    <3>2. CASE chip.mode = "connected"
      <4>1. chip'.mode = "closing"
        BY <2>1, <2>3, <3>1, <3>2, ExchangeFacts DEF StepInv
      <4>2. QED
        BY <4>1 DEF Known
    <3>3. CASE chip.mode # "connected" /\ chip.mode # "closing"
      <4>1. chip.open = {}
        BY <3>3 DEF StepInv, Linked
      <4>2. SubscribedWith(chip.open) = {}
        BY <4>1 DEF SubscribedWith
      <4>3. subscribed = SubscribedWith(chip.open)
        BY <4>2 DEF Known
      <4>4. QED
        BY <1>1, <4>3
    <3>4. QED
      BY <1>2, <3>2, <3>3
  <2>4. CASE i # 1
    <3>1. i - 1 \in 1 .. Len(Received.tx) /\ Received.tx[i - 1] = out.tx[i]
      BY <2>2, <2>4
    <3>2. Len(out'.tx) \in Nat
      BY QueueFacts DEF Grows, OutShape
    <3>3. i - 1 \in 1 .. Len(out'.tx) /\ out'.tx[i - 1] = out.tx[i]
      BY <2>2, <3>1, <3>2 DEF Grows
    <3>4. Ends(out'.tx)
      BY <2>1, <3>3 DEF Ends
    <3>5. QED
      BY <3>4 DEF Known
  <2>5. QED
    BY <2>3, <2>4
<1>4. QED
  BY <1>1, <1>2, <1>3 DEF Known

(* poll() hands the library what the event it takes says, and nothing if   *)
(* the event is about something else.                                      *)
LEMMA Polled ==
  ASSUME StepInv, Exchange, Grows(Received, out'),
         events # << >> /\ LinkEvent(Head(events))
           => (central' <=> Head(events).type = "Connected"),
         events = << >> \/ ~LinkEvent(Head(events)) => (central' <=> central),
         events # << >> /\ PipesEvent(Head(events))
           => /\ subscribed' \subseteq SubscribedWith(Reported(Head(events)))
              /\ subscribed' = SubscribedWith(Reported(Head(events))) \/ Ends(out'.tx),
         events = << >> \/ ~PipesEvent(Head(events)) => subscribed' = subscribed
  PROVE  StepInv'
<1>1. /\ ChipShape(chip') /\ IsQueue(events') /\ OutShape(out')
      /\ Linked(chip') <=> Linked(chip)
      /\ chip'.open = chip.open
  BY ExchangeFacts DEF StepInv, Grows
<1>2. /\ Len(events) \in Nat /\ DOMAIN events = 1 .. Len(events)
      /\ Len(events') \in Nat /\ DOMAIN events' = 1 .. Len(events')
  BY <1>1, QueueFacts DEF StepInv
<1>3. CASE events = << >>
  <2>1. DOMAIN events = {} /\ Len(Rest(events)) = 0
    BY <1>2, <1>3, RestFacts DEF StepInv
  <2>2. \A i \in DOMAIN events' : ~LinkEvent(events'[i]) /\ ~PipesEvent(events'[i])
    BY <1>2, <2>1, ExchangeFacts DEF StepInv, LinkEvent, PipesEvent
  <2>3. (central <=> Linked(chip)) /\ Known(subscribed, chip.open, out.tx, chip)
    BY <2>1 DEF StepInv, LinkSeen, PipesSeen
  <2>4. Known(subscribed, chip.open, out'.tx, chip')
    BY <2>3, KnownPolled
  <2>5. LinkSeen' /\ PipesSeen'
    BY <1>1, <1>3, <2>2, <2>3, <2>4 DEF LinkSeen, PipesSeen
  <2>6. QED
    BY <1>1, <2>5 DEF StepInv
<1>4. CASE events # << >>
  <2>1. /\ Len(Rest(events)) = Len(events) - 1 /\ Head(events) = events[1]
        /\ 1 \in DOMAIN events
    BY <1>4, RestFacts DEF StepInv
  <2>2. \A j \in DOMAIN events :
          j > 1 => j - 1 \in DOMAIN events' /\ events'[j - 1] = events[j]
    BY <1>2, <2>1, ExchangeFacts DEF StepInv
  <2>3. \A i \in DOMAIN events' :
          LinkEvent(events'[i]) \/ PipesEvent(events'[i])
            => i + 1 \in DOMAIN events /\ events'[i] = events[i + 1]
    <3> SUFFICES ASSUME NEW i \in DOMAIN events',
                        LinkEvent(events'[i]) \/ PipesEvent(events'[i])
                 PROVE  i + 1 \in DOMAIN events /\ events'[i] = events[i + 1]
      OBVIOUS
    <3>1. i <= Len(Rest(events))
      BY <1>2, <2>1, ExchangeFacts DEF StepInv, LinkEvent, PipesEvent
    <3>2. QED
      BY <1>2, <2>1, <3>1, ExchangeFacts DEF StepInv
  <2>4. (\A i \in DOMAIN events' : ~LinkEvent(events'[i])) => (central' <=> Linked(chip'))
    <3> SUFFICES ASSUME \A i \in DOMAIN events' : ~LinkEvent(events'[i])
                 PROVE  central' <=> Linked(chip')
      OBVIOUS
    <3>1. \A j \in DOMAIN events : j > 1 => ~LinkEvent(events[j])
      BY <2>2
    <3>2. CASE LinkEvent(events[1])
      <4>1. events[1].type = "Connected" <=> Linked(chip)
        BY <2>1, <3>1, <3>2 DEF StepInv, LinkSeen
      <4>2. central' <=> events[1].type = "Connected"
        BY <1>4, <2>1, <3>2
      <4>3. QED
        BY <1>1, <4>1, <4>2
    <3>3. CASE ~LinkEvent(events[1])
      <4>1. \A j \in DOMAIN events : ~LinkEvent(events[j])
        BY <1>2, <3>1, <3>3
      <4>2. central <=> Linked(chip)
        BY <4>1 DEF StepInv, LinkSeen
      <4>3. central' <=> central
        BY <2>1, <3>3
      <4>4. QED
        BY <1>1, <4>2, <4>3
    <3>4. QED
      BY <3>2, <3>3
  <2>5. (\A i \in DOMAIN events' : ~PipesEvent(events'[i]))
          => Known(subscribed', chip'.open, out'.tx, chip')
    <3> SUFFICES ASSUME \A i \in DOMAIN events' : ~PipesEvent(events'[i])
                 PROVE  Known(subscribed', chip'.open, out'.tx, chip')
      OBVIOUS
    <3>1. \A j \in DOMAIN events : j > 1 => ~PipesEvent(events[j])
      BY <2>2
    <3>2. CASE PipesEvent(events[1])
      <4>1. Reported(events[1]) = chip.open
        BY <2>1, <3>1, <3>2 DEF StepInv, PipesSeen
      <4>2. QED
        BY <1>1, <1>4, <2>1, <3>2, <4>1 DEF Known
    <3>3. CASE ~PipesEvent(events[1])
      <4>1. \A j \in DOMAIN events : ~PipesEvent(events[j])
        BY <1>2, <3>1, <3>3
      <4>2. Known(subscribed, chip.open, out.tx, chip)
        BY <4>1 DEF StepInv, PipesSeen
      <4>3. Known(subscribed, chip.open, out'.tx, chip')
        BY <4>2, KnownPolled
      <4>4. QED
        BY <1>1, <2>1, <3>3, <4>3
    <3>4. QED
      BY <3>2, <3>3
  <2>6. ASSUME NEW i \in DOMAIN events', LinkEvent(events'[i]),
               \A j \in DOMAIN events' : j > i => ~LinkEvent(events'[j])
        PROVE  events'[i].type = "Connected" <=> Linked(chip')
    <3>1. i + 1 \in DOMAIN events /\ events'[i] = events[i + 1] /\ i >= 1
      BY <1>2, <2>3, <2>6
    <3>2. \A j \in DOMAIN events : j > i + 1 => ~LinkEvent(events[j])
      BY <1>2, <2>2, <2>6
    <3>3. QED
      BY <1>1, <2>6, <3>1, <3>2 DEF StepInv, LinkSeen
  <2>7. ASSUME NEW i \in DOMAIN events', PipesEvent(events'[i]),
               \A j \in DOMAIN events' : j > i => ~PipesEvent(events'[j])
        PROVE  Reported(events'[i]) = chip'.open
    <3>1. i + 1 \in DOMAIN events /\ events'[i] = events[i + 1] /\ i >= 1
      BY <1>2, <2>3, <2>7
    <3>2. \A j \in DOMAIN events : j > i + 1 => ~PipesEvent(events[j])
      BY <1>2, <2>2, <2>7
    <3>3. QED
      BY <1>1, <2>7, <3>1, <3>2 DEF StepInv, PipesSeen
  <2>8. LinkSeen'
    BY <2>4, <2>6 DEF LinkSeen
  <2>9. PipesSeen'
    BY <2>5, <2>7 DEF PipesSeen
  <2>10. QED
    BY <1>1, <2>8, <2>9 DEF StepInv
<1>5. QED
  BY <1>3, <1>4

(* The chip emits an event, which says what became of the link and of the  *)
(* pipes if either changed.                                                *)
LEMMA Emitted ==
  ASSUME StepInv, NEW e, events' = Append(events, e), ChipShape(chip'),
         UNCHANGED <<out, central, subscribed>>,
         LinkEvent(e) => (e.type = "Connected" <=> Linked(chip')),
         ~LinkEvent(e) => (Linked(chip') <=> Linked(chip)),
         PipesEvent(e) => Reported(e) = chip'.open,
         ~PipesEvent(e) => /\ chip'.open = chip.open
                           /\ chip.mode = "closing" => chip'.mode = "closing",
         ~Linked(chip') => chip'.open = {}
  PROVE  StepInv'
<1>1. /\ IsQueue(events') /\ Len(events) \in Nat
      /\ DOMAIN events = 1 .. Len(events)
      /\ DOMAIN events' = 1 .. Len(events) + 1
      /\ \A i \in 1 .. Len(events) : events'[i] = events[i]
      /\ events'[Len(events) + 1] = e
  BY AppendFacts, QueueFacts DEF StepInv
<1>2. LinkSeen'
  <2>1. CASE LinkEvent(e)
    BY <1>1, <2>1 DEF LinkSeen
  <2>2. CASE ~LinkEvent(e)
    <3>1. \A i \in DOMAIN events' : LinkEvent(events'[i]) =>
            i \in DOMAIN events /\ events'[i] = events[i]
      BY <1>1, <2>2
    <3>2. \A i \in DOMAIN events : i \in DOMAIN events' /\ events'[i] = events[i]
      BY <1>1
    <3>3. QED
      BY <2>2, <3>1, <3>2 DEF StepInv, LinkSeen
  <2>3. QED
    BY <2>1, <2>2
<1>3. PipesSeen'
  <2>1. CASE PipesEvent(e)
    BY <1>1, <2>1 DEF PipesSeen
  <2>2. CASE ~PipesEvent(e)
    <3>1. \A i \in DOMAIN events' : PipesEvent(events'[i]) =>
            i \in DOMAIN events /\ events'[i] = events[i]
      BY <1>1, <2>2
    <3>2. \A i \in DOMAIN events : i \in DOMAIN events' /\ events'[i] = events[i]
      BY <1>1
    <3>3. QED
      BY <2>2, <3>1, <3>2 DEF StepInv, PipesSeen, Known
  <2>3. QED
    BY <2>1, <2>2
<1>4. QED
  BY <1>1, <1>2, <1>3 DEF StepInv

(* What a call leaves of the open pipes: all, or none once it disconnected.*)
Stays(o, n) == n.open = o.open \/ (n.open = {} /\ Ends(n.tx))

LEMMA SentStays ==
  ASSUME NEW o, OutShape(o), NEW cmd
  PROVE  Sent(o, cmd).open = o.open
BY RefusedFacts DEF Sent, OutShape

LEMMA EndsGrows ==
  ASSUME NEW o, NEW n, OutShape(o), Grows(o, n), Ends(o.tx)
  PROVE  Ends(n.tx)
<1>1. PICK i \in 1 .. Len(o.tx) : o.tx[i][1] = "disconnect"
  BY DEF Ends
<1>2. Len(o.tx) \in Nat /\ Len(n.tx) \in Nat
  BY QueueFacts DEF OutShape, Grows
<1>3. i \in 1 .. Len(n.tx) /\ n.tx[i] = o.tx[i]
  BY <1>2 DEF Grows
<1>4. QED
  BY <1>1, <1>3 DEF Ends

LEMMA UpdateStays ==
  ASSUME NEW o, OutShape(o), NEW flags, NEW c
  PROVE  updateCharacteristicValue(o, flags, c).open = o.open
<1>1. ASSUME NEW q, OutShape(q), NEW op, NEW p
      PROVE  OutShape(SentTo(q, op, p)) /\ SentTo(q, op, p).open = q.open
  BY <1>1, SentStays, SentToGrows DEF SentTo, Grows
<1>2. ASSUME NEW q, OutShape(q), NEW p
      PROVE  OutShape(Notified(q, flags, p)) /\ Notified(q, flags, p).open = q.open
  <2> DEFINE spent == [q EXCEPT !.credit = q.credit - 1]
  <2>1. OutShape(spent) /\ spent.open = q.open
    BY <1>2, FieldGrows DEF Grows, OutShape
  <2> HIDE DEF spent
  <2>2. Sent(spent, <<"data", p>>).open = q.open
    BY <2>1, SentStays
  <2>3. OutShape(Notified(q, flags, p))
    BY <1>2, NotifiedGrows DEF Grows
  <2>4. QED
    BY <2>2, <2>3 DEF Notified, spent
<1> DEFINE advertised == IF o.broadcast = Local[c].adv
                         THEN SentTo(o, "setLocal", Local[c].adv) ELSE o
           readable == SentTo(advertised, "setLocal", Local[c].set)
           notified == Notified(readable, flags, Local[c].tx)
<1>3. OutShape(advertised) /\ advertised.open = o.open
  BY <1>1
<1> HIDE DEF advertised
<1>4. OutShape(readable) /\ readable.open = o.open
  BY <1>1, <1>3
<1> HIDE DEF readable
<1>5. OutShape(notified) /\ notified.open = o.open
  BY <1>2, <1>4
<1> HIDE DEF notified
<1>6. Notified(notified, flags, Local[c].txAck).open = o.open
  BY <1>2, <1>5
<1>7. QED
  BY <1>6 DEF updateCharacteristicValue, notified, readable, advertised

LEMMA CalledStays ==
  ASSUME NEW o, OutShape(o), NEW flags, NEW a
  PROVE  Stays(o, Called(o, flags, a))
<1> USE DEF Stays
<1>1. updateCharacteristicValue(o, flags, a[2]).open = o.open
  BY UpdateStays
<1>2. broadcastCharacteristic(o, a[2]).open = o.open
  <2> DEFINE opened == SentTo(o, "openAdv", Local[a[2]].adv)
             set == SentTo(opened, "setLocal", Local[a[2]].adv)
  <2>1. /\ OutShape(opened) /\ opened.open = o.open
        /\ Refused(o).open = o.open
    BY SentStays, SentToGrows, RefusedFacts DEF SentTo, Grows
  <2> HIDE DEF opened
  <2>2. /\ OutShape(set) /\ set.open = o.open
        /\ Refused(opened).open = o.open
    BY <2>1, SentStays, SentToGrows, RefusedFacts DEF SentTo, Grows
  <2> HIDE DEF set
  <2>3. [set EXCEPT !.broadcast = Local[a[2]].adv].open = o.open
    BY <2>2 DEF OutShape
  <2>4. QED
    BY <2>1, <2>2, <2>3 DEF broadcastCharacteristic, set, opened
<1>3. /\ readRemoteCharacteristic(o, a[2]).open = o.open
      /\ writeRemoteCharacteristic(o, a[2]).open = o.open
      /\ subscribeRemoteCharacteristic(o, a[2]).open = o.open
      /\ unsubscribeRemoteCharacteristic(o, a[2]).open = o.open
  BY SentStays DEF readRemoteCharacteristic, writeRemoteCharacteristic,
     subscribeRemoteCharacteristic, unsubscribeRemoteCharacteristic, SentTo
<1>4. Stays(o, disconnect(o))
  <2>1. CASE ~Room(o)
    BY <2>1, RefusedFacts DEF disconnect
  <2>2. CASE Room(o)
    <3> DEFINE n == Sent(o, <<"disconnect", 0>>)
    <3>1. OutShape(n) /\ Len(n.tx) = Len(o.tx) + 1 /\ n.tx[Len(o.tx) + 1] = <<"disconnect", 0>>
      BY <2>2, SentGrows DEF Grows
    <3>2. Len(o.tx) \in Nat
      BY QueueFacts DEF OutShape
    <3>3. Ends(n.tx)
      BY <3>1, <3>2 DEF Ends
    <3> HIDE DEF n
    <3>4. disconnect(o) = [n EXCEPT !.open = {}, !.closed = {}]
      BY <2>2 DEF disconnect, n
    <3>5. disconnect(o).open = {} /\ disconnect(o).tx = n.tx
      BY <3>1, <3>4 DEF OutShape
    <3>6. QED
      BY <3>3, <3>5
  <2>3. QED
    BY <2>1, <2>2
<1>5. Sent(o, <<"info", 0>>).open = o.open
  BY SentStays
<1>6. QED
  BY <1>1, <1>2, <1>3, <1>4, <1>5 DEF Called

LEMMA HandlerStays ==
  ASSUME NEW o, OutShape(o), NEW flags, NEW h, NEW subs,
         NEW n \in AfterHandler(h, o, flags, subs)
  PROVE  Stays(o, n)
<1>1. CASE n = o
  BY <1>1 DEF Stays
<1>2. CASE \E a : n = Called(o, flags, a)
  BY <1>2, CalledStays
<1>3. CASE \E a, b : n = Called(Called(o, flags, a), flags, b)
  <2>1. PICK a, b : n = Called(Called(o, flags, a), flags, b)
    BY <1>3
  <2> DEFINE m == Called(o, flags, a)
  <2>2. Grows(o, m) /\ OutShape(m) /\ Stays(o, m)
    BY CalledGrows, CalledStays DEF Grows
  <2> HIDE DEF m
  <2>3. Grows(m, Called(m, flags, b)) /\ Stays(m, Called(m, flags, b))
    BY <2>2, CalledGrows, CalledStays
  <2>4. n = Called(m, flags, b)
    BY <2>1 DEF m
  <2>5. Stays(m, n) /\ Grows(m, n)
    BY <2>3, <2>4
  <2>6. Ends(m.tx) => Ends(n.tx)
    BY <2>2, <2>5, EndsGrows
  <2>7. QED
    BY <2>2, <2>5, <2>6 DEF Stays
<1>4. QED
  BY <1>1, <1>2, <1>3 DEF AfterHandler

(* The loop over the characteristics finds the pipes that the event says,  *)
(* or fewer once a handler disconnected.                                   *)
LEMMA PipesKnown ==
  ASSUME OutShape(out), PipeStatus
  PROVE  /\ subscribed' \subseteq SubscribedWith(Head(events).open)
         /\ subscribed' = SubscribedWith(Head(events).open) \/ Ends(out'.tx)
<1> DEFINE pipes == Head(events).open
           updated == lib_aci_event_get(Received)
           o == IF Retimed(pipes) THEN Sent(updated, <<"timing", 0>>) ELSE updated
<1>1. OutShape(Received)
  BY ReceivedFacts
<1>2. updated.open = pipes
  BY <1>1 DEF PipeStatus, Gets, lib_aci_event_get, OutShape
<1>3. OutShape(updated)
  BY <1>1, EventGetGrows DEF Grows
<1> HIDE DEF updated
<1>4. OutShape(o) /\ o.open = pipes
  BY <1>2, <1>3, SentGrows, SentStays DEF Grows
<1> HIDE DEF o
<1>5. \/ Looped(Len(Local), pipes, {})
      \/ \E c \in Characteristics : out' \in InLoop(o, pipes, c) /\ Looped(c, pipes, out'.open)
  BY DEF PipeStatus, SubscribersChange, o, updated
<1> HIDE DEF pipes
<1>6. ASSUME NEW c, NEW left, Looped(c, pipes, left), left = pipes \/ left = {}
      PROVE  /\ subscribed' \subseteq SubscribedWith(pipes)
             /\ left = pipes => subscribed' = SubscribedWith(pipes)
  BY <1>6 DEF Looped, OpenFor, SubscribedWith
<1>7. CASE Looped(Len(Local), pipes, {})
  <2>1. \A d \in Characteristics : d <= Len(Local)
    BY TablesAssumption DEF Characteristics
  <2>2. QED
    BY <1>7, <2>1 DEF Looped, OpenFor, SubscribedWith, pipes
<1>8. CASE \E c \in Characteristics :
             out' \in InLoop(o, pipes, c) /\ Looped(c, pipes, out'.open)
  <2>1. PICK c \in Characteristics :
          out' \in InLoop(o, pipes, c) /\ Looped(c, pipes, out'.open)
    BY <1>8
  <2>2. Stays(o, out')
    BY <1>4, <2>1, HandlerStays DEF InLoop
  <2>3. QED
    BY <1>4, <1>6, <2>1, <2>2 DEF Stays, pipes
<1>9. QED
  BY <1>5, <1>7, <1>8

LEMMA PollInStep == StepInv /\ poll => StepInv'
<1> SUFFICES ASSUME StepInv, poll PROVE StepInv'
  OBVIOUS
<1>0. Grows(Received, out')
  BY OtherGrows, DataReceivedGrows DEF StepInv
<1>1. CASE NoEvent
  BY <1>0, <1>1, Polled DEF NoEvent, sketch
<1>2. CASE Connected
  BY <1>0, <1>2, Polled DEF Connected, Gets, LinkEvent, PipesEvent
<1>3. CASE Disconnected
  <2>1. SubscribedWith({}) = {}
    BY DEF SubscribedWith
  <2>2. QED
    BY <1>0, <1>3, <2>1, Polled DEF Disconnected, Gets, LinkEvent, PipesEvent, Reported
<1>4. CASE PipeStatus
  <2>1. /\ subscribed' \subseteq SubscribedWith(Head(events).open)
        /\ subscribed' = SubscribedWith(Head(events).open) \/ Ends(out'.tx)
    BY <1>4, PipesKnown DEF StepInv
  <2>2. Gets("PipeStatus") /\ central' = central
    BY <1>4 DEF PipeStatus
  <2>3. Exchange /\ events # << >> /\ Head(events).type = "PipeStatus"
    BY <2>2 DEF Gets
  <2>4. PipesEvent(Head(events)) /\ ~LinkEvent(Head(events))
        /\ Reported(Head(events)) = Head(events).open
    BY <2>3 DEF LinkEvent, PipesEvent, Reported
  <2>5. QED
    BY <1>0, <2>1, <2>2, <2>3, <2>4, Polled
<1>5. ASSUME NEW type, type \notin {"Connected", "Disconnected", "PipeStatus"},
             Gets(type), UNCHANGED <<central, subscribed>>
      PROVE  StepInv'
  BY <1>0, <1>5, Polled DEF Gets, LinkEvent, PipesEvent
<1>6. CASE DeviceStarted \/ DataRead \/ DataWritten
  BY <1>5, <1>6 DEF DeviceStarted, DataRead, DataWritten, sketch
<1>7. CASE BondStatus \/ DataReceived \/ DataCredit \/ PipeError \/ HwError
  BY <1>5, <1>7 DEF BondStatus, DataReceived, DataCredit, PipeError, HwError, sketch
<1>8. QED
  BY <1>1, <1>2, <1>3, <1>4, <1>5, <1>6, <1>7 DEF poll

LEMMA ChipInStep == StepInv /\ ~HwErrors /\ Chip => StepInv'
<1> SUFFICES ASSUME StepInv, ~HwErrors, Chip PROVE StepInv'
  OBVIOUS
<1>1. ChipShape(chip) /\ (~Linked(chip) => chip.open = {})
  BY DEF StepInv
<1> USE DEF LinkEvent, PipesEvent
<1>2. CASE PeerConnects
  <2>1. /\ ChipShape(chip') /\ Linked(chip') /\ chip'.open = chip.open
        /\ chip.mode # "closing"
    BY <1>1, <1>2 DEF PeerConnects, ChipShape, Linked, Connectable
  <2>2. QED
    BY <1>2, <2>1, Emitted DEF PeerConnects, Emits, sketch
<1>3. CASE PeerSetsPipes
  <2>1. PICK pipes, closed :
          /\ chip' = [chip EXCEPT !.open = pipes]
          /\ Emits([type |-> "PipeStatus", open |-> pipes, closed |-> closed])
    BY <1>3 DEF PeerSetsPipes
  <2>2. /\ ChipShape(chip') /\ Linked(chip') /\ Linked(chip) /\ chip'.open = pipes
    BY <1>1, <1>3, <2>1 DEF PeerSetsPipes, ChipShape, Linked
  <2>3. QED
    BY <2>1, <2>2, Emitted DEF Emits, sketch, Reported
<1>4. CASE PeerSends
  <2>1. PICK p, u :
          /\ chip' = [chip EXCEPT !.unacked = u]
          /\ Emits([type |-> "DataReceived", pipe |-> p])
    BY <1>4 DEF PeerSends
  <2>2. /\ ChipShape(chip') /\ (Linked(chip') <=> Linked(chip)) /\ chip'.open = chip.open
        /\ chip'.mode = chip.mode
    BY <1>1, <2>1 DEF ChipShape, Linked
  <2>3. QED
    BY <1>1, <2>1, <2>2, Emitted DEF Emits, sketch
<1>5. CASE PeerTakesData
  <2>1. /\ ChipShape(chip') /\ (Linked(chip') <=> Linked(chip)) /\ chip'.open = chip.open
        /\ chip'.mode = chip.mode
    BY <1>1, <1>5 DEF PeerTakesData, ChipShape, Linked
  <2>2. QED
    BY <1>1, <1>5, <2>1, Emitted DEF PeerTakesData, Emits, sketch
<1>6. CASE PeerRefuses
  BY <1>1, <1>6, Emitted DEF PeerRefuses, Emits, sketch
<1>7. CASE PeerBonds
  <2>1. PICK success, b, t :
          /\ chip' = [chip EXCEPT !.bonded = b, !.toSave = t]
          /\ Emits([type |-> "BondStatus", success |-> success])
    BY <1>7 DEF PeerBonds
  <2>2. /\ ChipShape(chip') /\ (Linked(chip') <=> Linked(chip)) /\ chip'.open = chip.open
        /\ chip'.mode = chip.mode
    BY <1>1, <2>1 DEF ChipShape, Linked
  <2>3. QED
    BY <1>1, <2>1, <2>2, Emitted DEF Emits, sketch
<1>8. CASE LinkEnds
  <2>1. /\ ChipShape(chip') /\ ~Linked(chip') /\ chip'.open = {}
    BY <1>1, <1>8 DEF LinkEnds, Unlinked, ChipShape, Linked
  <2>2. QED
    BY <1>8, <2>1, Emitted DEF LinkEnds, Emits, sketch, Reported
<1>9. CASE ChipFails
  BY <1>9 DEF ChipFails
<1>10. QED
  BY <1>2, <1>3, <1>4, <1>5, <1>6, <1>7, <1>8, <1>9 DEF Chip

LEMMA InitInStep == Init => StepInv
<1> SUFFICES ASSUME Init PROVE StepInv
  OBVIOUS
<1>1. ChipShape(chip) /\ ~Linked(chip) /\ chip.open = {} /\ ~central /\ subscribed = {}
  BY DEF Init, SetUp, ChipShape, Linked
<1>2. IsQueue(events) /\ DOMAIN events = {1} /\ events[1].type = "DeviceStarted"
  BY SingleFacts DEF Init
<1>3. SubscribedWith(chip.open) = {}
  BY <1>1 DEF SubscribedWith
<1>4. OutShape(out)
  BY BegunFacts DEF Init
<1>5. QED
  BY <1>1, <1>2, <1>3, <1>4 DEF StepInv, LinkSeen, PipesSeen, LinkEvent, PipesEvent, Known

LEMMA StepInStep == StepInv /\ ~HwErrors /\ [Next]_vars => StepInv'
<1> SUFFICES ASSUME StepInv, ~HwErrors, [Next]_vars PROVE StepInv'
  OBVIOUS
<1>1. CASE Call
  <2>1. Grows(out, out') /\ UNCHANGED <<chip, events, central, subscribed>>
    BY <1>1, CalledGrows DEF Call, StepInv
  <2>2. Ends(out.tx) => Ends(out'.tx)
    BY <2>1, EndsGrows DEF StepInv
  <2>3. Known(subscribed, chip.open, out.tx, chip)
          => Known(subscribed, chip.open, out'.tx, chip)
    BY <2>2 DEF Known
  <2>4. QED
    BY <2>1, <2>3 DEF StepInv, LinkSeen, PipesSeen, Grows
<1>2. CASE UNCHANGED vars
  BY <1>2 DEF vars, sketch, StepInv, LinkSeen, PipesSeen
<1>3. QED
  BY <1>1, <1>2, PollInStep, ChipInStep DEF Next, Overrun

(* Whenever no event is on its way the library and the chip agree on       *)
(* whether there is a link and on what the peer subscribed to, whatever    *)
(* the links, the calls and the order of the events before, and whichever  *)
(* handler disconnected, when the library may have missed subscriptions of *)
(* a link that is being closed: until a command is overrun, and unless the *)
(* chip restarts, of which no handler tells the library.                   *)
THEOREM InStepAlways == ASSUME ~HwErrors PROVE Spec => []InStep
<1>1. StepInv => InStep
  <2> SUFFICES ASSUME StepInv, events = << >>
               PROVE  /\ central <=> chip.mode \in {"connected", "closing"}
                      /\ \A c \in Characteristics :
                           /\ c \in subscribed => central /\ TxPipes(c) \cap chip.open # {}
                           /\ central /\ TxPipes(c) \cap chip.open # {}
                                => c \in subscribed \/ Closing
    BY DEF InStep
  <2>1. DOMAIN events = {}
    OBVIOUS
  <2>2. central <=> Linked(chip)
    BY <2>1 DEF StepInv, LinkSeen
  <2>3. Known(subscribed, chip.open, out.tx, chip)
    BY <2>1 DEF StepInv, PipesSeen
  <2>4. ~Linked(chip) => chip.open = {}
    BY DEF StepInv
  <2>5. Ends(out.tx) => Closing
    BY DEF Ends, Closing, Commands
  <2>6. QED
    BY <2>2, <2>3, <2>4, <2>5 DEF Linked, SubscribedWith, Known, Closing
<1>2. Init => StepInv
  BY InitInStep
<1>3. StepInv /\ [Next]_vars => StepInv'
  BY StepInStep
<1>4. QED
  BY <1>1, <1>2, <1>3, PTL DEF Spec

------------------------------------------------------------------------------
(***************************************************************************)
(* The nRF8001 driver asks for its timing once on each link, advertises    *)
(* only with its bonding data whole, makes up no credit and saves the      *)
(* first bond.  All four rest on the order in which commands and events    *)
(* cross: at any time at most one of the two sides has the turn to decide  *)
(* what the chip does next.  So do the types, as far as they bound the     *)
(* messages of bonding data; and what is broadcast was opened.             *)
(***************************************************************************)

(* Commands that decide what an idle chip does next, and events whose      *)
(* handlers send them.                                                     *)
Control(cmd) == cmd[1] \in Advertising \cup {"readDynamic", "writeDynamic"}
Starter(e) == e.type \in {"DeviceStarted", "DataRead", "DataWritten", "Disconnected"}

(* Events that belong to a link, after the one that starts it and before   *)
(* the one that ends it.                                                   *)
OfLink(e) == e.type \in {"PipeStatus", "DataReceived", "BondStatus"}
IsConnected(e) == e.type = "Connected"
IsDisconnected(e) == e.type = "Disconnected"

IsTiming(cmd) == cmd[1] = "timing"
IsData(cmd) == cmd[1] = "data"
Returns(e) == e.type = "DataCredit" \/ (e.type = "PipeError" /\ ~e.peer)

(* There is one turn, which a control command, a starter or a chip that is *)
(* not idle has.                                                           *)
Turn(tx, ev, k) ==
  /\ \A i, j \in DOMAIN tx : Control(tx[i]) /\ Control(tx[j]) => i = j
  /\ \A i, j \in DOMAIN ev : Starter(ev[i]) /\ Starter(ev[j]) => i = j
  /\ \A i \in DOMAIN tx : Control(tx[i]) => k.mode = "standby"
  /\ \A i \in DOMAIN tx, j \in DOMAIN ev : ~(Control(tx[i]) /\ Starter(ev[j]))
  /\ \A j \in DOMAIN ev : Starter(ev[j]) => k.mode = "standby"

(* One link after the other, as the driver sees them.                      *)
LinkOrder(ev, k) ==
  /\ \A i \in DOMAIN ev : IsConnected(ev[i]) => ~central
  /\ \A i, j \in DOMAIN ev : IsConnected(ev[i]) /\ IsConnected(ev[j]) => i = j
  /\ \A i \in DOMAIN ev :
       OfLink(ev[i]) => central \/ \E j \in DOMAIN ev : j < i /\ IsConnected(ev[j])
  /\ subscribed # {} => central
  /\ \A i, j \in DOMAIN ev :
       IsDisconnected(ev[i]) /\ (OfLink(ev[j]) \/ IsConnected(ev[j])) => j < i
  /\ central \/ (\E i \in DOMAIN ev : IsConnected(ev[i]))
       => Linked(k) \/ \E i \in DOMAIN ev : IsDisconnected(ev[i])
  /\ Linked(k) => central \/ \E i \in DOMAIN ev : IsConnected(ev[i])

TurnInv ==
  /\ ChipShape(chip) /\ chip.mode \in Modes
  /\ IsQueue(events) /\ OutShape(out)
  /\ \A i \in DOMAIN events : events[i].type # "HwError"
  /\ Turn(out.tx, events, chip)
  /\ LinkOrder(events, chip)

------------------------------------------------------------------------------
(* How many of a queue's elements are data packets, or give credit back.   *)
Packets(s) == Cardinality({i \in 1 .. Len(s) : IsData(s[i])})
Returned(s) == Cardinality({i \in 1 .. Len(s) : Returns(s[i])})

LEMMA ShiftedSet ==
  ASSUME NEW n \in Nat, NEW S, S \subseteq 1 .. n
  PROVE  /\ IsFiniteSet(S) /\ Cardinality(S) \in Nat
         /\ Cardinality({i \in 1 .. n - 1 : i + 1 \in S})
              = IF 1 \in S THEN Cardinality(S) - 1 ELSE Cardinality(S)
<1> DEFINE T == {i \in 1 .. n - 1 : i + 1 \in S}
           R == S \ {1}
<1>1. IsFiniteSet(1 .. n)
  BY FS_Interval
<1>2. IsFiniteSet(S) /\ Cardinality(S) \in Nat
  BY <1>1, FS_Subset, FS_CardinalityType
<1>3. IsFiniteSet(R) /\ Cardinality(R) = IF 1 \in S THEN Cardinality(S) - 1 ELSE Cardinality(S)
  BY <1>2, FS_RemoveElement
<1>4. ExistsBijection(R, T)
  <2> DEFINE f == [i \in R |-> i - 1]
  <2>1. \A i \in R : i \in 2 .. n /\ i \in S
    OBVIOUS
  <2>2. \A i \in R : i - 1 \in T
    BY <2>1
  <2>3. f \in [R -> T]
    BY <2>2
  <2>4. \A a, b \in R : f[a] = f[b] => a = b
    BY <2>1
  <2>5. \A t \in T : \E a \in R : f[a] = t
    <3> SUFFICES ASSUME NEW t \in T PROVE \E a \in R : f[a] = t
      OBVIOUS
    <3>1. t + 1 \in R /\ f[t + 1] = t
      OBVIOUS
    <3>2. QED
      BY <3>1
  <2> HIDE DEF f, R, T
  <2>6. f \in Injection(R, T)
    BY <2>3, <2>4 DEF Injection, IsInjective
  <2>7. f \in Surjection(R, T)
    BY <2>3, <2>5 DEF Surjection
  <2>8. QED
    BY <2>6, <2>7 DEF ExistsBijection, Bijection
<1>5. Cardinality(T) = Cardinality(R)
  BY <1>3, <1>4, FS_Bijection
<1>6. QED
  BY <1>2, <1>3, <1>5

(* Induction over the natural numbers, for a set: finite sets of numbers,  *)
(* those of the numbers up to one that is not in it among them, are well   *)
(* ordered by inclusion.                                                   *)
LEMMA SetInduction ==
  ASSUME NEW T, 0 \in T, \A n \in Nat : n \in T => n + 1 \in T
  PROVE  \A n \in Nat : n \in T
<1> SUFFICES ASSUME NEW y \in Nat, y \notin T PROVE FALSE
  OBVIOUS
<1> DEFINE F == {0 .. n : n \in {m \in Nat : m \notin T}}
           R == StrictSubsetOrdering(Nat)
           S == FiniteSubsetsOf(Nat)
<1>1. IsWellFoundedOn(R, S)
  BY FS_StrictSubsetOrderingWellFounded
<1>2. F \subseteq S
  <2>1. \A n \in Nat : 0 .. n \subseteq Nat /\ IsFiniteSet(0 .. n)
    BY FS_Interval
  <2>2. QED
    BY <2>1 DEF FiniteSubsetsOf
<1>3. F # {}
  OBVIOUS
<1> HIDE DEF F, R, S
<1>4. PICK X \in F : \A Z \in F : ~ (<<Z, X>> \in R)
  BY <1>1, <1>2, <1>3, WFMin, Zenon
<1>5. PICK x \in Nat : x \notin T /\ X = 0 .. x
  BY <1>4 DEF F
<1>6. x # 0
  BY <1>5
<1>7. x - 1 \in Nat /\ (x - 1) + 1 = x
  BY <1>5, <1>6
<1>8. x - 1 \notin T
  BY <1>5, <1>7
<1>9. 0 .. x - 1 \in F
  BY <1>7, <1>8 DEF F
<1>10. <<0 .. x - 1, X>> \in R
  <2>1. 0 .. x - 1 \subseteq X /\ 0 .. x - 1 # X
    BY <1>5, <1>6
  <2>2. X \subseteq Nat /\ 0 .. x - 1 \subseteq Nat
    BY <1>5, <1>7
  <2>3. QED
    BY <2>1, <2>2 DEF R, StrictSubsetOrdering
<1>11. QED
  BY <1>4, <1>9, <1>10

LEMMA CountFacts ==
  ASSUME NEW s, IsQueue(s)
  PROVE  /\ Packets(s) \in Nat /\ Returned(s) \in Nat
         /\ \A c : /\ Packets(Append(s, c)) = IF IsData(c) THEN Packets(s) + 1 ELSE Packets(s)
                   /\ Returned(Append(s, c)) = IF Returns(c) THEN Returned(s) + 1 ELSE Returned(s)
         /\ s # << >> =>
              /\ Packets(Rest(s)) = IF IsData(s[1]) THEN Packets(s) - 1 ELSE Packets(s)
              /\ Returned(Rest(s)) = IF Returns(s[1]) THEN Returned(s) - 1 ELSE Returned(s)
         /\ (\A i \in DOMAIN s : ~IsData(s[i])) => Packets(s) = 0
         /\ (\A i \in DOMAIN s : ~Returns(s[i])) => Returned(s) = 0
<1> DEFINE D(q) == {i \in 1 .. Len(q) : IsData(q[i])}
           R(q) == {i \in 1 .. Len(q) : Returns(q[i])}
<1>1. Len(s) \in Nat /\ DOMAIN s = 1 .. Len(s)
  BY QueueFacts
<1>2. /\ D(s) \subseteq 1 .. Len(s) /\ R(s) \subseteq 1 .. Len(s)
      /\ IsFiniteSet(D(s)) /\ IsFiniteSet(R(s))
      /\ Cardinality(D(s)) \in Nat /\ Cardinality(R(s)) \in Nat
  BY <1>1, ShiftedSet
<1>3. ASSUME NEW c
      PROVE  /\ D(Append(s, c)) = IF IsData(c) THEN D(s) \cup {Len(s) + 1} ELSE D(s)
             /\ R(Append(s, c)) = IF Returns(c) THEN R(s) \cup {Len(s) + 1} ELSE R(s)
  <2> DEFINE t == Append(s, c)
  <2>1. /\ Len(t) = Len(s) + 1 /\ t[Len(s) + 1] = c
        /\ \A i \in 1 .. Len(s) : t[i] = s[i]
    BY AppendFacts
  <2> HIDE DEF t
  <2>2. \A i : i \in 1 .. Len(t) <=> i \in 1 .. Len(s) \/ i = Len(s) + 1
    BY <1>1, <2>1
  <2>3. D(t) = IF IsData(c) THEN D(s) \cup {Len(s) + 1} ELSE D(s)
    BY <2>1, <2>2
  <2>4. R(t) = IF Returns(c) THEN R(s) \cup {Len(s) + 1} ELSE R(s)
    BY <2>1, <2>2
  <2>5. QED
    BY <2>3, <2>4 DEF t
<1>4. Len(s) + 1 \notin D(s) /\ Len(s) + 1 \notin R(s)
  BY <1>1
<1>5. ASSUME s # << >>
      PROVE  /\ D(Rest(s)) = {i \in 1 .. Len(s) - 1 : i + 1 \in D(s)}
             /\ R(Rest(s)) = {i \in 1 .. Len(s) - 1 : i + 1 \in R(s)}
             /\ 1 \in 1 .. Len(s)
  <2> DEFINE t == Rest(s)
  <2>1. /\ Len(t) = Len(s) - 1 /\ 1 \in 1 .. Len(s)
        /\ \A i \in 1 .. Len(t) : t[i] = s[i + 1]
    BY <1>1, <1>5, RestFacts
  <2> HIDE DEF t
  <2>2. \A i \in 1 .. Len(s) - 1 : i + 1 \in 1 .. Len(s)
    BY <1>1
  <2>3. D(t) = {i \in 1 .. Len(s) - 1 : i + 1 \in D(s)}
    BY <2>1, <2>2
  <2>4. R(t) = {i \in 1 .. Len(s) - 1 : i + 1 \in R(s)}
    BY <2>1, <2>2
  <2>5. QED
    BY <2>1, <2>3, <2>4 DEF t
<1>6. (\A i \in DOMAIN s : ~IsData(s[i])) => D(s) = {}
  BY <1>1
<1>7. (\A i \in DOMAIN s : ~Returns(s[i])) => R(s) = {}
  BY <1>1
<1>8. ASSUME NEW c
      PROVE  /\ Cardinality(D(Append(s, c))) = IF IsData(c) THEN Cardinality(D(s)) + 1
                                               ELSE Cardinality(D(s))
             /\ Cardinality(R(Append(s, c))) = IF Returns(c) THEN Cardinality(R(s)) + 1
                                               ELSE Cardinality(R(s))
  <2> HIDE DEF D, R
  <2>1. Cardinality(D(s) \cup {Len(s) + 1}) = Cardinality(D(s)) + 1
    BY <1>2, <1>4, FS_AddElement
  <2>2. Cardinality(R(s) \cup {Len(s) + 1}) = Cardinality(R(s)) + 1
    BY <1>2, <1>4, FS_AddElement
  <2>3. QED
    BY <1>3, <2>1, <2>2
<1>9. ASSUME s # << >>
      PROVE  /\ Cardinality(D(Rest(s))) = IF IsData(s[1]) THEN Cardinality(D(s)) - 1
                                          ELSE Cardinality(D(s))
             /\ Cardinality(R(Rest(s))) = IF Returns(s[1]) THEN Cardinality(R(s)) - 1
                                          ELSE Cardinality(R(s))
  <2>1. (1 \in D(s) <=> IsData(s[1])) /\ (1 \in R(s) <=> Returns(s[1]))
    BY <1>5, <1>9
  <2> HIDE DEF D, R
  <2>2. QED
    BY <1>1, <1>2, <1>5, <1>9, <2>1, ShiftedSet
<1>10. /\ \A q : Packets(q) = Cardinality(D(q))
       /\ \A q : Returned(q) = Cardinality(R(q))
  BY DEF Packets, Returned
<1> HIDE DEF D, R
<1>11. QED
  BY <1>2, <1>6, <1>7, <1>8, <1>9, <1>10, FS_EmptySet

------------------------------------------------------------------------------
(* What calls of the API do to out: they send neither control commands nor *)
(* changes of timing.  Those that do not set values are "silent": they     *)
(* send no data.  Those that do spend credit on what they send, but for    *)
(* writes to the peer, which is "any" call.                                *)
New(o, n) == {i \in 1 .. Len(n.tx) : i > Len(o.tx)}

Acts(o, n, how) ==
  /\ Grows(o, n)
  /\ \A i \in New(o, n) :
       /\ ~Control(n.tx[i]) /\ ~IsTiming(n.tx[i])
       /\ how = "silent" => ~IsData(n.tx[i])
  /\ how # "any" /\ o.credit \in Nat
       => n.credit \in Nat /\ n.credit + Packets(n.tx) <= o.credit + Packets(o.tx)

LEMMA ActsShape ==
  ASSUME NEW o, NEW n, NEW how, Acts(o, n, how)
  PROVE  OutShape(n) /\ Grows(o, n)
BY DEF Acts, Grows

LEMMA ActsTwice ==
  ASSUME NEW o, NEW n, NEW q, NEW how, OutShape(o), Acts(o, n, how), Acts(n, q, how)
  PROVE  Acts(o, q, how)
<1>1. Grows(o, q)
  BY GrowsTwice DEF Acts
<1>2. /\ Len(o.tx) \in Nat /\ Len(n.tx) \in Nat /\ Len(q.tx) \in Nat
      /\ Packets(o.tx) \in Nat /\ Packets(n.tx) \in Nat /\ Packets(q.tx) \in Nat
  BY QueueFacts, CountFacts DEF OutShape, Grows, Acts
<1>3. \A i \in New(o, q) : i \in New(n, q) \/ (i \in New(o, n) /\ q.tx[i] = n.tx[i])
  BY <1>2 DEF New, Acts, Grows
<1>4. \A i \in New(o, q) :
        /\ ~Control(q.tx[i]) /\ ~IsTiming(q.tx[i])
        /\ how = "silent" => ~IsData(q.tx[i])
  BY <1>3 DEF Acts
<1>5. how # "any" /\ o.credit \in Nat
        => q.credit \in Nat /\ q.credit + Packets(q.tx) <= o.credit + Packets(o.tx)
  BY <1>2 DEF Acts
<1>6. QED
  BY <1>1, <1>4, <1>5 DEF Acts

(* A field other than tx and the credit is set.                            *)
LEMMA FieldActs ==
  ASSUME NEW o, OutShape(o), NEW x, NEW how
  PROVE  /\ Acts(o, o, how) /\ Acts(o, Refused(o), how)
         /\ Acts(o, [o EXCEPT !.broadcast = x], how)
         /\ Acts(o, [o EXCEPT !.open = x], how)
         /\ Acts(o, [o EXCEPT !.closed = x], how)
<1>1. Len(o.tx) \in Nat /\ Packets(o.tx) \in Nat
  BY QueueFacts, CountFacts DEF OutShape
<1>2. ASSUME NEW n, Grows(o, n), n.tx = o.tx, n.credit = o.credit PROVE Acts(o, n, how)
  BY <1>1, <1>2 DEF Acts, New
<1>3. QED
  <2>1. Acts(o, o, how)
    BY <1>2, FieldGrows
  <2>2. Acts(o, [o EXCEPT !.broadcast = x], how)
    BY <1>2, FieldGrows DEF OutShape
  <2>3. Acts(o, [o EXCEPT !.open = x], how)
    BY <1>2, FieldGrows DEF OutShape
  <2>4. Acts(o, [o EXCEPT !.closed = x], how)
    BY <1>2, FieldGrows DEF OutShape
  <2>5. Acts(o, Refused(o), how)
    BY <1>2, RefusedFacts
  <2>6. QED
    BY <2>1, <2>2, <2>3, <2>4, <2>5

(* A command is sent, or refused.                                          *)
LEMMA SentFacts ==
  ASSUME NEW o, OutShape(o), NEW cmd
  PROVE  /\ Grows(o, Sent(o, cmd))
         /\ Sent(o, cmd).credit = o.credit
         /\ \A i \in New(o, Sent(o, cmd)) :
              /\ i = Len(o.tx) + 1 /\ i = Len(Sent(o, cmd).tx)
              /\ Sent(o, cmd).tx[i] = cmd
         /\ ~IsData(cmd) => Packets(Sent(o, cmd).tx) = Packets(o.tx)
         /\ Packets(Sent(o, cmd).tx) \in {Packets(o.tx), Packets(o.tx) + 1}
<1>1. Len(o.tx) \in Nat /\ IsQueue(o.tx)
  BY QueueFacts DEF OutShape
<1>2. CASE ~Room(o)
  <2>1. Sent(o, cmd) = Refused(o)
    BY <1>2 DEF Sent
  <2>2. Grows(o, Refused(o)) /\ Refused(o).tx = o.tx /\ Refused(o).credit = o.credit
    BY RefusedFacts
  <2>3. New(o, Refused(o)) = {}
    BY <1>1, <2>2 DEF New
  <2>4. QED
    BY <2>1, <2>2, <2>3
<1>3. CASE Room(o)
  <2> DEFINE tx == Append(o.tx, cmd)
  <2>1. /\ Len(tx) = Len(o.tx) + 1 /\ tx[Len(o.tx) + 1] = cmd
        /\ Packets(tx) = IF IsData(cmd) THEN Packets(o.tx) + 1 ELSE Packets(o.tx)
    BY <1>1, AppendFacts, CountFacts
  <2>2. Sent(o, cmd) = [o EXCEPT !.tx = tx]
    BY <1>3 DEF Sent
  <2> HIDE DEF tx
  <2>3. Sent(o, cmd).tx = tx /\ Sent(o, cmd).credit = o.credit
    BY <2>2 DEF OutShape
  <2>4. Grows(o, Sent(o, cmd))
    BY SentGrows
  <2>5. QED
    BY <1>1, <2>1, <2>3, <2>4 DEF New
<1>4. QED
  BY <1>2, <1>3

LEMMA SentActs ==
  ASSUME NEW o, OutShape(o), NEW cmd, ~Control(cmd), ~IsTiming(cmd), NEW how,
         IsData(cmd) => how = "any"
  PROVE  Acts(o, Sent(o, cmd), how)
<1>1. Packets(o.tx) \in Nat
  BY CountFacts DEF OutShape
<1>2. QED
  BY <1>1, SentFacts DEF Acts

LEMMA SentToActs ==
  ASSUME NEW o, OutShape(o), NEW how, NEW p, NEW op,
         op \in {"setLocal", "openAdv", "closeRemote"}
  PROVE  Acts(o, SentTo(o, op, p), how)
<1>1. /\ ~Control(<<op, p>>) /\ ~IsTiming(<<op, p>>) /\ ~IsData(<<op, p>>)
  BY DEF Control, IsTiming, IsData, Advertising, Connectable
<1>2. QED
  BY <1>1, SentActs, FieldActs DEF SentTo

LEMMA NotifiedActs ==
  ASSUME NEW o, OutShape(o), NEW flags, NEW p, NEW how, how # "silent"
  PROVE  Acts(o, Notified(o, flags, p), how)
<1> DEFINE spent == [o EXCEPT !.credit = o.credit - 1]
           n == Sent(spent, <<"data", p>>)
<1>1. CASE p \in flags /\ canNotifyCharacteristic(o)
  <2>1. Grows(o, spent) /\ OutShape(spent) /\ spent.tx = o.tx /\ spent.credit = o.credit - 1
    BY FieldGrows DEF Grows, OutShape
  <2> HIDE DEF spent
  <2>2. /\ Grows(spent, n) /\ n.credit = spent.credit
        /\ \A i \in New(spent, n) : n.tx[i] = <<"data", p>>
        /\ Packets(n.tx) \in {Packets(spent.tx), Packets(spent.tx) + 1}
    BY <2>1, SentFacts
  <2> HIDE DEF n
  <2>3. Grows(o, n) /\ New(o, n) = New(spent, n)
    BY <2>1, <2>2, GrowsTwice DEF New
  <2>4. \A i \in New(o, n) : ~Control(n.tx[i]) /\ ~IsTiming(n.tx[i])
    BY <2>2, <2>3 DEF Control, IsTiming, Advertising, Connectable
  <2>5. Packets(o.tx) \in Nat
    BY CountFacts DEF OutShape
  <2>6. o.credit \in Nat => /\ n.credit \in Nat
                            /\ n.credit + Packets(n.tx) <= o.credit + Packets(o.tx)
    BY <1>1, <2>1, <2>2, <2>5 DEF canNotifyCharacteristic
  <2>7. Acts(o, n, how)
    BY <2>3, <2>4, <2>6 DEF Acts
  <2>8. Notified(o, flags, p) = n
    BY <1>1 DEF Notified, n, spent
  <2>9. QED
    BY <2>7, <2>8
<1>2. CASE ~(p \in flags /\ canNotifyCharacteristic(o))
  BY <1>2, FieldActs DEF Notified
<1>3. QED
  BY <1>1, <1>2

LEMMA UpdateActs ==
  ASSUME NEW o, OutShape(o), NEW flags, NEW c, NEW how, how # "silent"
  PROVE  Acts(o, updateCharacteristicValue(o, flags, c), how)
<1> DEFINE advertised == IF o.broadcast = Local[c].adv
                         THEN SentTo(o, "setLocal", Local[c].adv) ELSE o
           readable == SentTo(advertised, "setLocal", Local[c].set)
           notified == Notified(readable, flags, Local[c].tx)
<1>1. Acts(o, advertised, how) /\ OutShape(advertised)
  <2>1. Acts(o, advertised, how)
    BY SentToActs, FieldActs
  <2>2. QED
    BY <2>1, ActsShape
<1>2. Acts(advertised, readable, how) /\ OutShape(readable)
  <2>1. Acts(advertised, readable, how)
    BY <1>1, SentToActs
  <2>2. QED
    BY <2>1, ActsShape
<1>3. Acts(readable, notified, how) /\ OutShape(notified)
  <2>1. Acts(readable, notified, how)
    BY <1>2, NotifiedActs
  <2>2. QED
    BY <2>1, ActsShape
<1>4. Acts(notified, Notified(notified, flags, Local[c].txAck), how)
  BY <1>3, NotifiedActs
<1>5. QED
  BY <1>1, <1>2, <1>3, <1>4, ActsTwice DEF updateCharacteristicValue

LEMMA BroadcastActs ==
  ASSUME NEW o, OutShape(o), NEW c, NEW how
  PROVE  Acts(o, broadcastCharacteristic(o, c), how)
<1> DEFINE opened == SentTo(o, "openAdv", Local[c].adv)
           set == SentTo(opened, "setLocal", Local[c].adv)
<1>1. Acts(o, o, how) /\ Acts(o, Refused(o), how) /\ Acts(o, opened, how) /\ OutShape(opened)
  <2>1. Acts(o, o, how) /\ Acts(o, Refused(o), how) /\ Acts(o, opened, how)
    BY SentToActs, FieldActs
  <2>2. QED
    BY <2>1, ActsShape
<1>2. Acts(opened, set, how) /\ OutShape(set)
  <2>1. Acts(opened, set, how)
    BY <1>1, SentToActs
  <2>2. QED
    BY <2>1, ActsShape
<1>3. Acts(set, [set EXCEPT !.broadcast = Local[c].adv], how)
  BY <1>2, FieldActs
<1> HIDE DEF set
<1>4. Acts(o, [set EXCEPT !.broadcast = Local[c].adv], how)
  BY <1>1, <1>2, <1>3, ActsTwice
<1>5. Acts(o, Refused(opened), how)
  <2>1. Acts(opened, Refused(opened), how)
    BY <1>1, FieldActs
  <2>2. QED
    BY <1>1, <2>1, ActsTwice
<1>6. QED
  BY <1>1, <1>4, <1>5 DEF broadcastCharacteristic, set

(* The pipes are noted, or forgotten.                                      *)
LEMMA PipesActs ==
  ASSUME NEW o, OutShape(o), NEW x, NEW y, NEW how
  PROVE  Acts(o, [o EXCEPT !.open = x, !.closed = y], how)
<1> DEFINE n == [o EXCEPT !.open = x]
<1>1. Acts(o, n, how)
  BY FieldActs
<1>2. [o EXCEPT !.open = x, !.closed = y] = [n EXCEPT !.closed = y]
  OBVIOUS
<1> HIDE DEF n
<1>3. OutShape(n)
  BY <1>1, ActsShape
<1>4. Acts(n, [n EXCEPT !.closed = y], how)
  BY <1>3, FieldActs
<1>5. QED
  BY <1>1, <1>2, <1>4, ActsTwice

LEMMA DisconnectActs ==
  ASSUME NEW o, OutShape(o), NEW how
  PROVE  Acts(o, disconnect(o), how)
<1> DEFINE cmd == <<"disconnect", 0>>
           n == Sent(o, cmd)
<1>1. ~Control(cmd) /\ ~IsTiming(cmd) /\ ~IsData(cmd)
  BY DEF Control, IsTiming, IsData, Advertising, Connectable
<1> HIDE DEF cmd
<1>2. Acts(o, Refused(o), how) /\ Acts(o, n, how) /\ OutShape(n)
  <2>1. Acts(o, Refused(o), how) /\ Acts(o, n, how)
    BY <1>1, SentActs, FieldActs
  <2>2. QED
    BY <2>1, ActsShape
<1> HIDE DEF n
<1>3. Acts(n, [n EXCEPT !.open = {}, !.closed = {}], how)
  BY <1>2, PipesActs
<1>4. Acts(o, [n EXCEPT !.open = {}, !.closed = {}], how)
  BY <1>2, <1>3, ActsTwice
<1>5. QED
  BY <1>2, <1>4 DEF disconnect, n, cmd

(* Which calls are "any", and which are not "silent".                      *)
Fits(a, how) == (a[1] = "write" => how = "any") /\ (a[1] = "setValue" => how # "silent")

LEMMA CalledActs ==
  ASSUME NEW o, OutShape(o), NEW flags, NEW a, NEW how, Fits(a, how)
  PROVE  Acts(o, Called(o, flags, a), how)
<1>1. \A p : \A op \in {"request", "openRemote", "info"} :
        ~Control(<<op, p>>) /\ ~IsTiming(<<op, p>>) /\ ~IsData(<<op, p>>)
  BY DEF Control, IsTiming, IsData, Advertising, Connectable
<1>2. \A p : ~Control(<<"data", p>>) /\ ~IsTiming(<<"data", p>>)
  BY DEF Control, IsTiming, Advertising, Connectable
<1>3. Acts(o, o, how)
  BY FieldActs
<1>4. CASE a[1] = "setValue"
  BY <1>4, UpdateActs DEF Called, Fits
<1>5. CASE a[1] = "broadcast"
  BY <1>5, BroadcastActs DEF Called
<1>6. CASE a[1] = "read"
  BY <1>1, <1>3, <1>6, SentActs DEF Called, readRemoteCharacteristic
<1>7. CASE a[1] = "write"
  BY <1>2, <1>3, <1>7, SentActs DEF Called, Fits, writeRemoteCharacteristic
<1>8. CASE a[1] = "subscribe"
  BY <1>1, <1>3, <1>8, SentActs DEF Called, subscribeRemoteCharacteristic
<1>9. CASE a[1] = "unsubscribe"
  BY <1>9, SentToActs DEF Called, unsubscribeRemoteCharacteristic
<1>10. CASE a[1] = "disconnect"
  BY <1>10, DisconnectActs DEF Called
<1>11. CASE a[1] = "info"
  BY <1>1, <1>11, SentActs DEF Called
<1>12. CASE a[1] \notin {"setValue", "broadcast", "read", "write", "subscribe",
                         "unsubscribe", "disconnect", "info"}
  BY <1>3, <1>12 DEF Called
<1>13. QED
  BY <1>4, <1>5, <1>6, <1>7, <1>8, <1>9, <1>10, <1>11, <1>12

LEMMA HandlerActs ==
  ASSUME NEW o, OutShape(o), NEW flags, NEW h, NEW subs, NEW how,
         \A a \in Allowed(HandlerCalls, subs) : Fits(a, how),
         NEW n \in AfterHandler(h, o, flags, subs)
  PROVE  Acts(o, n, how)
<1> DEFINE calls == Allowed(HandlerCalls, subs)
<1>1. CASE n = o
  BY <1>1, FieldActs
<1>2. CASE \E a \in calls : n = Called(o, flags, a)
  BY <1>2, CalledActs
<1>3. CASE \E a, b \in calls : n = Called(Called(o, flags, a), flags, b)
  <2>1. PICK a \in calls, b \in calls : n = Called(Called(o, flags, a), flags, b)
    BY <1>3
  <2>2. Acts(o, Called(o, flags, a), how) /\ OutShape(Called(o, flags, a))
    BY CalledActs, ActsShape
  <2>3. Acts(Called(o, flags, a), n, how)
    BY <2>1, <2>2, CalledActs
  <2>4. QED
    BY <2>2, <2>3, ActsTwice
<1>4. QED
  BY <1>1, <1>2, <1>3 DEF AfterHandler

------------------------------------------------------------------------------
(* What poll() sends: a control command if it handles a starter, behind    *)
(* whatever the handlers sent; a change of timing if it handles the first  *)
(* pipe status event that asks for one, ahead of that.                     *)
Replied(o, n, e) ==
  /\ Grows(o, n)
  /\ \A i \in New(o, n) : Control(n.tx[i]) => Starter(e) /\ i = Len(n.tx)
  /\ \A i \in New(o, n) : IsTiming(n.tx[i]) =>
       /\ e.type = "PipeStatus" /\ i = Len(o.tx) + 1
       /\ ~timingChanged /\ timingChanged'

LEMMA ActsReplied ==
  ASSUME NEW o, NEW n, NEW how, Acts(o, n, how), NEW e
  PROVE  Replied(o, n, e)
BY DEF Acts, Replied

LEMMA ControlReplied ==
  ASSUME NEW o, OutShape(o), NEW n, NEW how, Acts(o, n, how), NEW e, Starter(e),
         NEW cmd, Control(cmd)
  PROVE  Replied(o, Sent(n, cmd), e)
<1> DEFINE q == Sent(n, cmd)
<1>1. OutShape(n) /\ Grows(o, n)
  BY ActsShape
<1>2. /\ Grows(n, q)
      /\ \A i \in New(n, q) : i = Len(q.tx) /\ q.tx[i] = cmd
  BY <1>1, SentFacts
<1> HIDE DEF q
<1>3. Grows(o, q)
  BY <1>1, <1>2, GrowsTwice
<1>4. Len(o.tx) \in Nat /\ Len(n.tx) \in Nat /\ Len(q.tx) \in Nat
  BY <1>1, <1>2, QueueFacts DEF Grows, OutShape
<1>5. \A i \in New(o, q) : i \in New(n, q) \/ (i \in New(o, n) /\ q.tx[i] = n.tx[i])
  BY <1>1, <1>2, <1>4 DEF New, Grows
<1>6. ~IsTiming(cmd)
  BY DEF Control, IsTiming, Advertising, Connectable
<1>7. \A i \in New(o, n) : ~Control(n.tx[i]) /\ ~IsTiming(n.tx[i])
  BY DEF Acts
<1>8. QED
  BY <1>2, <1>3, <1>5, <1>6, <1>7 DEF Replied, q

LEMMA AdvertisingIsControl ==
  ASSUME NEW b
  PROVE  \E cmd : /\ cmd[1] \in Advertising /\ Control(cmd)
                  /\ \A o : startAdvertising(o, b) = Sent(o, cmd)
<1> DEFINE cmd == << IF ~IsConnectable THEN "broadcast"
                     ELSE IF ~BondStore \/ b THEN "connect" ELSE "bond", 0>>
<1>1. cmd[1] \in Advertising
  BY DEF Advertising, Connectable
<1>2. Control(cmd)
  BY <1>1 DEF Control
<1>3. \A o : startAdvertising(o, b) = Sent(o, cmd)
  BY DEF startAdvertising
<1> HIDE DEF cmd
<1>4. QED
  BY <1>1, <1>2, <1>3

LEMMA EventGetFacts ==
  ASSUME NEW o, OutShape(o)
  PROVE  /\ OutShape(lib_aci_event_get(o)) /\ Grows(o, lib_aci_event_get(o))
         /\ lib_aci_event_get(o).tx = o.tx
         /\ Head(events).type # "Disconnected" => lib_aci_event_get(o).credit = o.credit
<1>1. Grows(o, lib_aci_event_get(o))
  BY EventGetGrows
<1>2. lib_aci_event_get(o).tx = o.tx
  BY DEF lib_aci_event_get, OutShape
<1>3. Head(events).type # "Disconnected" => lib_aci_event_get(o).credit = o.credit
  BY DEF lib_aci_event_get, OutShape
<1>4. QED
  BY <1>1, <1>2, <1>3 DEF Grows

(* New commands are the same if the ones before are.                       *)
LEMMA SameTx ==
  ASSUME NEW o, NEW q, OutShape(q), q.tx = o.tx, NEW n, NEW e
  PROVE  /\ Replied(q, n, e) => Replied(o, n, e)
         /\ Replied(n, o, e) => Replied(n, q, e)
BY DEF Replied, New, Grows

(* A value is acknowledged and set, and its handler runs.                  *)
LEMMA DataReceivedActs ==
  ASSUME OutShape(out), DataReceived, NEW how, how # "silent",
         \A a \in Allowed(HandlerCalls, subscribed) : Fits(a, how)
  PROVE  Acts(Received, out', how)
<1> DEFINE p == Head(events).pipe
           mine == First({c \in Characteristics : LocalMatches(c, p)})
           theirs == First({r \in DOMAIN Remote : RemoteMatches(r, p)})
           set == {updateCharacteristicValue(Acknowledged(Received, p, Local[c].rxAck),
                                             txOpen, c) : c \in mine}
           local == IF mine = {} THEN {Received} ELSE set
           remote == IF theirs = {} THEN local
                     ELSE {Acknowledged(o, p, Remote[r].rxAck) : o \in local, r \in theirs}
<1>1. PICK o \in remote : out' \in AfterHandler("DataReceived", o, txOpen, subscribed)
  BY DEF DataReceived
<1> HIDE DEF p, mine, theirs, set, local, remote
<1>2. ~Control(<<"ack", p>>) /\ ~IsTiming(<<"ack", p>>) /\ ~IsData(<<"ack", p>>)
  BY DEF Control, IsTiming, IsData, Advertising, Connectable
<1>3. OutShape(Received)
  BY ReceivedFacts
<1>4. ASSUME NEW n, OutShape(n), NEW q
      PROVE  Acts(n, Acknowledged(n, p, q), how) /\ OutShape(Acknowledged(n, p, q))
  <2>1. Acts(n, Acknowledged(n, p, q), how)
    BY <1>2, <1>4, SentActs, FieldActs DEF Acknowledged
  <2>2. QED
    BY <2>1, ActsShape
<1>5. ASSUME NEW c
      PROVE  Acts(Received, updateCharacteristicValue(
                              Acknowledged(Received, p, Local[c].rxAck), txOpen, c), how)
  <2>1. /\ Acts(Received, Acknowledged(Received, p, Local[c].rxAck), how)
        /\ OutShape(Acknowledged(Received, p, Local[c].rxAck))
    BY <1>3, <1>4
  <2>2. QED
    BY <1>3, <2>1, UpdateActs, ActsTwice
<1>6. \A n \in local : Acts(Received, n, how) /\ OutShape(n)
  <2>1. Acts(Received, Received, how)
    BY <1>3, FieldActs
  <2>2. \A n \in local : Acts(Received, n, how)
    BY <1>5, <2>1 DEF local, set
  <2>3. QED
    BY <2>2, ActsShape
<1>7. Acts(Received, o, how) /\ OutShape(o)
  <2>1. \A n \in local : \A r : Acts(Received, Acknowledged(n, p, Remote[r].rxAck), how)
    BY <1>3, <1>4, <1>6, ActsTwice
  <2>2. Acts(Received, o, how)
    BY <1>6, <2>1 DEF remote
  <2>3. QED
    BY <2>2, ActsShape
<1>8. Acts(o, out', how)
  BY <1>1, <1>7, HandlerActs
<1>9. QED
  BY <1>3, <1>7, <1>8, ActsTwice

LEMMA AnyFits == \A a : Fits(a, "any")
BY DEF Fits

LEMMA PollReplied ==
  ASSUME OutShape(out), poll, events # << >>, Head(events).type # "HwError"
  PROVE  Replied(Received, out', Head(events))
<1> DEFINE e == Head(events)
<1>1. OutShape(Received) /\ Acts(Received, Received, "any")
  <2>1. OutShape(Received)
    BY ReceivedFacts
  <2>2. QED
    BY <2>1, FieldActs
<1>2. ASSUME NEW b, Starter(e) PROVE Replied(Received, startAdvertising(Received, b), e)
  BY <1>1, <1>2, AdvertisingIsControl, ControlReplied
<1>3. ASSUME NEW p, NEW op, op \in {"writeDynamic", "readDynamic"}, Starter(e)
      PROVE  Replied(Received, Sent(Received, <<op, p>>), e)
  <2>1. Control(<<op, p>>)
    BY <1>3 DEF Control
  <2>2. QED
    BY <1>1, <1>3, <2>1, ControlReplied
<1>4. Replied(Received, Received, e)
  BY <1>1, ActsReplied
<1>5. ASSUME NEW x PROVE Replied(Received, [Received EXCEPT !.credit = x], e)
  <2>1. /\ OutShape([Received EXCEPT !.credit = x])
        /\ [Received EXCEPT !.credit = x].tx = Received.tx
    BY <1>1, FieldGrows DEF OutShape, Grows
  <2>2. QED
    BY <1>4, <2>1, SameTx
<1>6. CASE NoEvent
  BY <1>6 DEF NoEvent
<1>7. CASE DeviceStarted
  <2>1. Starter(e)
    BY <1>7 DEF DeviceStarted, Gets, Starter
  <2>2. QED
    BY <1>2, <1>3, <1>4, <1>7, <2>1 DEF DeviceStarted
<1>8. CASE DataRead
  <2>1. Starter(e)
    BY <1>8 DEF DataRead, Gets, Starter
  <2>2. QED
    BY <1>2, <1>3, <1>8, <2>1 DEF DataRead
<1>9. CASE DataWritten
  <2>1. Starter(e)
    BY <1>9 DEF DataWritten, Gets, Starter
  <2>2. QED
    BY <1>2, <1>3, <1>9, <2>1 DEF DataWritten
<1>10. CASE Connected
  <2>1. PICK o \in AfterHandler("Connected", Received, txOpen, subscribed) :
          out' = [o EXCEPT !.credit = Credits]
    BY <1>10 DEF Connected
  <2>2. Acts(Received, o, "any")
    BY <1>1, HandlerActs, AnyFits
  <2>3. OutShape(o) /\ Replied(Received, o, e)
    BY <2>2, ActsShape, ActsReplied
  <2>4. OutShape(out') /\ out'.tx = o.tx
    BY <2>1, <2>3, FieldGrows DEF OutShape, Grows
  <2>5. QED
    BY <2>3, <2>4, SameTx
<1>11. CASE PipeStatus
  <2> DEFINE pipes == Head(events).open
             updated == lib_aci_event_get(Received)
             o == IF Retimed(pipes) THEN Sent(updated, <<"timing", 0>>) ELSE updated
  <2>1. out' \in AfterPipes(o)
    BY <1>11, PipesLeave
  <2>2. OutShape(updated) /\ Grows(Received, updated) /\ updated.tx = Received.tx
    BY <1>1, EventGetFacts
  <2>3. e.type = "PipeStatus" /\ (Retimed(pipes) => ~timingChanged /\ timingChanged')
    BY <1>11 DEF PipeStatus, Gets, Retimed
  <2> HIDE DEF updated
  <2>4. ~Control(<<"timing", 0>>)
    BY DEF Control, Advertising, Connectable
  <2>5. /\ Grows(updated, Sent(updated, <<"timing", 0>>))
        /\ \A i \in New(updated, Sent(updated, <<"timing", 0>>)) :
             /\ i = Len(updated.tx) + 1
             /\ Sent(updated, <<"timing", 0>>).tx[i] = <<"timing", 0>>
    BY <2>2, SentFacts
  <2>6. Grows(updated, updated) /\ New(updated, updated) = {}
    <3>1. Len(updated.tx) \in Nat
      BY <2>2, QueueFacts DEF OutShape
    <3>2. New(updated, updated) = {}
      BY <3>1 DEF New
    <3>3. QED
      BY <2>2, <3>2, FieldGrows
  <2>7. Replied(updated, o, e)
    <3>1. CASE Retimed(pipes)
      BY <2>3, <2>4, <2>5, <3>1 DEF Replied
    <3>2. CASE ~Retimed(pipes)
      BY <2>6, <3>2 DEF Replied
    <3>3. QED
      BY <3>1, <3>2
  <2> HIDE DEF o, pipes
  <2>8. Replied(Received, o, e) /\ OutShape(o)
    <3>1. OutShape(o)
      BY <2>7 DEF Replied, Grows
    <3>2. Replied(Received, o, e)
      BY <2>2, <2>7, SameTx
    <3>3. QED
      BY <3>1, <3>2
  <2>9. out' = o \/ \E flags, subs : out' \in AfterHandler("PipeStatus", o, flags, subs)
    BY <2>1 DEF AfterPipes
  <2>10. Acts(o, out', "any")
    BY <2>8, <2>9, HandlerActs, FieldActs, AnyFits
  <2>11. /\ Grows(o, out')
         /\ \A i \in New(o, out') : ~Control(out'.tx[i]) /\ ~IsTiming(out'.tx[i])
    BY <2>10 DEF Acts
  <2>12. ~Starter(e)
    BY <2>3 DEF Starter
  <2>13. Grows(Received, out')
    BY <1>1, <2>8, <2>11, GrowsTwice DEF Replied
  <2>14. Len(Received.tx) \in Nat /\ Len(o.tx) \in Nat /\ Len(out'.tx) \in Nat
    BY <1>1, <2>8, <2>11, QueueFacts DEF Grows, OutShape
  <2>15. \A i \in New(Received, out') :
           i \in New(o, out') \/ (i \in New(Received, o) /\ out'.tx[i] = o.tx[i])
    BY <2>8, <2>11, <2>14 DEF New, Grows, Replied
  <2>16. QED
    BY <2>8, <2>11, <2>12, <2>13, <2>15 DEF Replied
<1>12. CASE Disconnected
  <2> DEFINE updated == lib_aci_event_get(Received)
  <2>1. PICK o \in AfterUnlink(updated) :
          out' = IF storeDynamicData THEN Sent(o, <<"readDynamic", 0>>)
                 ELSE startAdvertising(o, hasData)
    BY <1>12 DEF Disconnected
  <2>2. OutShape(updated) /\ Grows(Received, updated) /\ updated.tx = Received.tx
    BY <1>1, EventGetFacts
  <2>3. Starter(e)
    BY <1>12 DEF Disconnected, Gets, Starter
  <2> HIDE DEF updated
  <2>4. \E flags, subs : o \in AfterHandler("Disconnected", updated, flags, subs)
    BY DEF AfterUnlink
  <2>5. Acts(updated, o, "any")
    BY <2>2, <2>4, HandlerActs, AnyFits
  <2>6. Control(<<"readDynamic", 0>>)
    BY DEF Control
  <2>7. Replied(updated, Sent(o, <<"readDynamic", 0>>), e)
    BY <2>2, <2>3, <2>5, <2>6, ControlReplied
  <2>8. Replied(updated, startAdvertising(o, hasData), e)
    BY <2>2, <2>3, <2>5, AdvertisingIsControl, ControlReplied
  <2>9. QED
    BY <2>1, <2>2, <2>7, <2>8, SameTx
<1>13. CASE BondStatus
  <2>1. \/ out' = Received
        \/ out' \in AfterHandler("Bonded", Received, txOpen, subscribed)
    BY <1>13 DEF BondStatus
  <2>2. Acts(Received, out', "any")
    BY <1>1, <2>1, HandlerActs, AnyFits
  <2>3. QED
    BY <2>2, ActsReplied
<1>14. CASE DataReceived
  <2>1. Acts(Received, out', "any")
    BY <1>14, DataReceivedActs, AnyFits
  <2>2. QED
    BY <2>1, ActsReplied
<1>15. CASE DataCredit
  BY <1>5, <1>15 DEF DataCredit, Credited
<1>16. CASE PipeError
  <2>1. ~Control(<<"bondRequest", 0>>) /\ ~IsTiming(<<"bondRequest", 0>>)
    BY DEF Control, IsTiming, Advertising, Connectable
  <2>2. Acts(Received, Sent(Received, <<"bondRequest", 0>>), "any")
    BY <1>1, <2>1, SentActs
  <2>3. Replied(Received, Sent(Received, <<"bondRequest", 0>>), e)
    BY <2>2, ActsReplied
  <2>4. QED
    BY <1>4, <1>5, <1>16, <2>3 DEF PipeError, Credited
<1>17. ~HwError
  BY DEF HwError, Gets
<1>18. QED
  BY <1>6, <1>7, <1>8, <1>9, <1>10, <1>11, <1>12, <1>13, <1>14, <1>15, <1>16,
     <1>17 DEF poll

------------------------------------------------------------------------------
(* A poll in two steps: the chip obeys the command and replies, then the   *)
(* driver handles the event at the head of the queue.                      *)
AfterCommand ==
  IF out.tx = << >> THEN events ELSE events \o Replies(chip, Head(out.tx))

LEMMA SameQueue ==
  ASSUME NEW s, NEW t, IsQueue(s), IsQueue(t), Len(s) = Len(t),
         \A i \in 1 .. Len(s) : s[i] = t[i]
  PROVE  s = t
<1>1. PICK S, T : s \in Seq(S) /\ t \in Seq(T)
  BY DEF IsQueue
<1>2. s \in Seq(S \cup T) /\ t \in Seq(S \cup T)
  BY <1>1
<1>3. QED
  BY <1>2, SeqEqual

LEMMA ConcatCases ==
  ASSUME NEW s, IsQueue(s)
  PROVE  /\ s \o << >> = s
         /\ \A e : s \o << e >> = Append(s, e)
<1>1. IsQueue(<< >>) /\ Len(<< >>) = 0
  <2>1. << >> \in Seq({})
    OBVIOUS
  <2>2. QED
    BY <2>1 DEF IsQueue
<1>2. Len(s) \in Nat
  BY QueueFacts
<1>3. s \o << >> = s
  <2> DEFINE t == s \o << >>
  <2>1. Len(t) = Len(s) /\ \A i \in 1 .. Len(s) : t[i] = s[i]
    BY <1>1, <1>2, ConcatFacts
  <2>2. IsQueue(t)
    BY <1>1, ConcatFacts
  <2> HIDE DEF t
  <2>3. t = s
    BY <2>1, <2>2, SameQueue
  <2>4. QED
    BY <2>3 DEF t
<1>4. ASSUME NEW e PROVE s \o << e >> = Append(s, e)
  <2> DEFINE t == s \o << e >>
             a == Append(s, e)
  <2>1. /\ IsQueue(t) /\ Len(t) = Len(s) + 1
        /\ \A i \in 1 .. Len(s) : t[i] = s[i]
        /\ t[Len(s) + 1] = e
    <3>1. IsQueue(<< e >>) /\ Len(<< e >>) = 1 /\ << e >>[1] = e
      BY SingleFacts
    <3>2. 1 \in 1 .. 1
      OBVIOUS
    <3>3. QED
      BY <3>1, <3>2, ConcatFacts
  <2>2. /\ IsQueue(a) /\ Len(a) = Len(s) + 1
        /\ \A i \in 1 .. Len(s) : a[i] = s[i]
        /\ a[Len(s) + 1] = e
    BY AppendFacts
  <2> HIDE DEF t, a
  <2>3. \A i \in 1 .. Len(t) : t[i] = a[i]
    BY <1>2, <2>1, <2>2
  <2>4. t = a
    BY <2>1, <2>2, <2>3, SameQueue
  <2>5. QED
    BY <2>4 DEF t, a
<1>5. QED
  BY <1>3, <1>4

LEMMA RestOfAppend ==
  ASSUME NEW s, IsQueue(s), s # << >>, NEW e
  PROVE  /\ Append(s, e) # << >>
         /\ Head(Append(s, e)) = Head(s)
         /\ Rest(Append(s, e)) = Append(Rest(s), e)
<1> DEFINE a == Append(s, e)
           r == Rest(s)
           b == Append(r, e)
           c == Rest(a)
<1>1. /\ IsQueue(a) /\ Len(a) = Len(s) + 1 /\ a[Len(s) + 1] = e
      /\ \A i \in 1 .. Len(s) : a[i] = s[i]
      /\ Len(s) \in Nat /\ Len(a) \in Nat /\ DOMAIN a = 1 .. Len(a)
  BY AppendFacts, QueueFacts
<1>2. /\ IsQueue(r) /\ Len(r) = Len(s) - 1 /\ Head(s) = s[1] /\ 1 \in DOMAIN s
      /\ DOMAIN s = 1 .. Len(s)
      /\ \A i \in 1 .. Len(r) : r[i] = s[i + 1]
  BY RestFacts, QueueFacts
<1>3. /\ IsQueue(b) /\ Len(b) = Len(r) + 1 /\ b[Len(r) + 1] = e
      /\ \A i \in 1 .. Len(r) : b[i] = r[i]
  BY <1>2, AppendFacts
<1> HIDE DEF a, b
<1>4. a # << >>
  BY <1>1, RestFacts
<1>5. /\ IsQueue(c) /\ Len(c) = Len(a) - 1 /\ Head(a) = a[1]
      /\ \A i \in 1 .. Len(c) : c[i] = a[i + 1]
  BY <1>1, <1>4, RestFacts
<1> HIDE DEF r, c
<1>6. \A i \in 1 .. Len(c) : c[i] = b[i]
  <2> SUFFICES ASSUME NEW i \in 1 .. Len(c) PROVE c[i] = b[i]
    OBVIOUS
  <2>1. CASE i = Len(s)
    BY <1>1, <1>2, <1>3, <1>5, <2>1
  <2>2. CASE i # Len(s)
    BY <1>1, <1>2, <1>3, <1>5, <2>2
  <2>3. QED
    BY <2>1, <2>2
<1>7. c = b
  BY <1>1, <1>2, <1>3, <1>5, <1>6, SameQueue
<1>8. Head(a) = Head(s)
  BY <1>1, <1>2, <1>5
<1>9. QED
  BY <1>4, <1>7, <1>8 DEF a, b, c, r

LEMMA ReplyCases ==
  ASSUME NEW k, NEW c
  PROVE  Replies(k, c) = << >> \/ \E e : Replies(k, c) = << e >>
BY DEF Replies

LEMMA Exchanged ==
  ASSUME OutShape(out), IsQueue(events), Exchange
  PROVE  /\ IsQueue(AfterCommand)
         /\ events = << >> => events' = AfterCommand
         /\ events # << >> => /\ AfterCommand # << >>
                              /\ Head(AfterCommand) = Head(events)
                              /\ events' = Rest(AfterCommand)
         /\ chip' = IF out.tx = << >> THEN chip ELSE ChipAfter(chip, Head(out.tx))
<1>1. CASE out.tx = << >>
  BY <1>1 DEF Exchange, AfterCommand, Rest
<1>2. CASE out.tx # << >>
  <2> DEFINE r == Replies(chip, Head(out.tx))
  <2>1. /\ events' = Rest(events) \o r
        /\ chip' = ChipAfter(chip, Head(out.tx))
        /\ AfterCommand = events \o r
    BY <1>2 DEF Exchange, AfterCommand
  <2>2. r = << >> \/ \E e : r = << e >>
    BY ReplyCases
  <2> HIDE DEF r
  <2>3. IsQueue(Rest(events)) /\ (events = << >> => Rest(events) = events)
    BY RestFacts DEF Rest
  <2>4. CASE r = << >>
    BY <1>2, <2>1, <2>3, <2>4, ConcatCases
  <2>5. CASE \E e : r = << e >>
    <3>1. PICK e : r = << e >>
      BY <2>5
    <3>2. AfterCommand = Append(events, e) /\ events' = Append(Rest(events), e)
      BY <2>1, <2>3, <3>1, ConcatCases
    <3>3. IsQueue(AfterCommand)
      BY <3>2, AppendFacts
    <3>4. QED
      BY <1>2, <2>1, <2>3, <3>2, <3>3, RestOfAppend
  <2>6. QED
    BY <2>2, <2>4, <2>5
<1>3. QED
  BY <1>1, <1>2

------------------------------------------------------------------------------
(* What a command does to the chip, by kind: k before, n after, and the    *)
(* replies r.                                                              *)
SameLink(k, n) == n.inFlight = k.inFlight /\ n.timings = k.timings
SameData(k, n) == n.read = k.read /\ n.restored = k.restored

Advertised(k, c, n, r) ==
  /\ c[1] \in Advertising /\ k.mode = "standby"
  /\ n.mode = c[1] /\ SameLink(k, n) /\ SameData(k, n) /\ r = << >>

Fetched(k, c, n, r) ==
  /\ c[1] = "readDynamic" /\ k.mode = "standby"
  /\ n.mode = "standby" /\ SameLink(k, n) /\ n.restored = k.restored
  /\ n.read = (k.read + 1) % Chunks
  /\ r = << [type |-> "DataRead", seqNo |-> k.read + 1,
             complete |-> k.read + 1 = Chunks] >>

Written(k, c, n, r) ==
  /\ c[1] = "writeDynamic" /\ k.mode = "standby" /\ k.restored < Chunks
  /\ n.mode = "standby" /\ SameLink(k, n) /\ n.read = k.read
  /\ n.restored = k.restored + 1
  /\ r = << [type |-> "DataWritten", complete |-> k.restored + 1 = Chunks] >>

Buffered(k, c, n, r) ==
  /\ IsData(c) /\ k.mode = "connected"
  /\ n.mode = k.mode /\ SameData(k, n) /\ n.timings = k.timings
  /\ n.inFlight = k.inFlight + 1 /\ r = << >>

Declined(k, c, n, r) ==
  IsData(c) /\ n = k /\ r = << [type |-> "PipeError", peer |-> FALSE] >>

Timed(k, c, n, r) ==
  /\ IsTiming(c) /\ k.mode = "connected"
  /\ n.mode = k.mode /\ SameData(k, n) /\ n.inFlight = k.inFlight
  /\ n.timings = k.timings + 1 /\ r = << >>

Other(k, c, n, r) ==
  /\ ~IsData(c)
  /\ n.mode = k.mode \/ (k.mode = "connected" /\ n.mode = "closing")
  /\ SameLink(k, n) /\ SameData(k, n) /\ r = << >>

LEMMA CommandCases ==
  ASSUME NEW k, ChipShape(k), NEW c
  PROVE  \/ Advertised(k, c, ChipAfter(k, c), Replies(k, c))
         \/ Fetched(k, c, ChipAfter(k, c), Replies(k, c))
         \/ Written(k, c, ChipAfter(k, c), Replies(k, c))
         \/ Buffered(k, c, ChipAfter(k, c), Replies(k, c))
         \/ Declined(k, c, ChipAfter(k, c), Replies(k, c))
         \/ Timed(k, c, ChipAfter(k, c), Replies(k, c))
         \/ Other(k, c, ChipAfter(k, c), Replies(k, c))
<1> DEFINE n == ChipAfter(k, c)
           r == Replies(k, c)
<1> USE DEF ChipShape, SameLink, SameData, IsData, IsTiming, Advertising, Connectable
<1>1. CASE c[1] = "data" /\ Takes(k, c[2])
  <2>1. n = [k EXCEPT !.inFlight = k.inFlight + 1] /\ r = << >>
    BY <1>1 DEF ChipAfter, Replies
  <2>2. QED
    BY <1>1, <2>1 DEF Buffered, Takes
<1>2. CASE c[1] = "data" /\ ~Takes(k, c[2])
  <2>1. n = k /\ r = << [type |-> "PipeError", peer |-> FALSE] >>
    BY <1>2 DEF ChipAfter, Replies
  <2>2. QED
    BY <1>2, <2>1 DEF Declined
<1>3. CASE c[1] = "ack"
  <2>1. (n = k \/ n = [k EXCEPT !.unacked = 0]) /\ r = << >>
    BY <1>3 DEF ChipAfter, Replies
  <2>2. QED
    BY <1>3, <2>1 DEF Other
<1>4. CASE c[1] = "openAdv"
  <2>1. n = [k EXCEPT !.adv = c[2]] /\ r = << >>
    BY <1>4 DEF ChipAfter, Replies
  <2>2. QED
    BY <1>4, <2>1 DEF Other
<1>5. CASE c[1] = "timing"
  <2>1. r = << >>
    BY <1>5 DEF Replies
  <2>2. CASE k.mode = "connected"
    <3>1. n = [k EXCEPT !.timings = k.timings + 1]
      BY <1>5, <2>2 DEF ChipAfter
    <3>2. QED
      BY <1>5, <2>1, <2>2, <3>1 DEF Timed
  <2>3. CASE k.mode # "connected"
    <3>1. n = k
      BY <1>5, <2>3 DEF ChipAfter
    <3>2. QED
      BY <1>5, <2>1, <3>1 DEF Other
  <2>4. QED
    BY <2>2, <2>3
<1>6. CASE c[1] = "disconnect"
  <2>1. r = << >> /\ (n = k \/ (k.mode = "connected" /\ n = [k EXCEPT !.mode = "closing"]))
    BY <1>6 DEF ChipAfter, Replies
  <2>2. QED
    BY <1>6, <2>1 DEF Other
<1>7. CASE c[1] \in Advertising
  <2>1. r = << >>
    BY <1>7 DEF Replies
  <2>2. CASE k.mode = "standby"
    <3>1. n = [k EXCEPT !.mode = c[1]]
      BY <1>7, <2>2 DEF ChipAfter
    <3>2. QED
      BY <1>7, <2>1, <2>2, <3>1 DEF Advertised
  <2>3. CASE k.mode # "standby"
    <3>1. n = k
      BY <1>7, <2>3 DEF ChipAfter
    <3>2. QED
      BY <1>7, <2>1, <3>1 DEF Other
  <2>4. QED
    BY <2>2, <2>3
<1>8. CASE c[1] = "readDynamic"
  <2>1. CASE k.mode = "standby"
    <3>1. /\ n.read = (k.read + 1) % Chunks /\ n.restored = k.restored
          /\ n.mode = k.mode /\ n.inFlight = k.inFlight /\ n.timings = k.timings
      BY <1>8, <2>1 DEF ChipAfter
    <3>2. r = << [type |-> "DataRead", seqNo |-> k.read + 1,
                  complete |-> k.read + 1 = Chunks] >>
      BY <1>8, <2>1 DEF Replies
    <3> HIDE DEF n, r
    <3>3. Fetched(k, c, n, r)
      BY <1>8, <2>1, <3>1, <3>2 DEF Fetched
    <3>4. QED
      BY <3>3 DEF n, r
  <2>2. CASE k.mode # "standby"
    <3>1. n = k /\ r = << >>
      BY <1>8, <2>2 DEF ChipAfter, Replies
    <3>2. QED
      BY <1>8, <3>1 DEF Other
  <2>3. QED
    BY <2>1, <2>2
<1>9. CASE c[1] = "writeDynamic"
  <2>1. CASE k.mode = "standby" /\ k.restored < Chunks
    <3>1. n = [k EXCEPT !.restored = k.restored + 1]
      BY <1>9, <2>1 DEF ChipAfter
    <3>2. r = << [type |-> "DataWritten", complete |-> k.restored + 1 = Chunks] >>
      BY <1>9, <2>1 DEF Replies
    <3>3. QED
      BY <1>9, <2>1, <3>1, <3>2 DEF Written
  <2>2. CASE ~(k.mode = "standby" /\ k.restored < Chunks)
    <3>1. n = k /\ r = << >>
      BY <1>9, <2>2 DEF ChipAfter, Replies
    <3>2. QED
      BY <1>9, <3>1 DEF Other
  <2>3. QED
    BY <2>1, <2>2
<1>10. CASE c[1] \notin {"data", "ack", "openAdv", "timing", "disconnect",
                        "readDynamic", "writeDynamic"} \cup Advertising
  <2>1. n = k /\ r = << >>
    BY <1>10 DEF ChipAfter, Replies
  <2>2. QED
    BY <1>10, <2>1 DEF Other
<1>11. QED
  BY <1>1, <1>2, <1>3, <1>4, <1>5, <1>6, <1>7, <1>8, <1>9, <1>10

------------------------------------------------------------------------------
(* The turn and the links, one queue operation at a time.                  *)
NoControl(tx) == \A i \in DOMAIN tx : ~Control(tx[i])
NoStarter(ev) == \A j \in DOMAIN ev : ~Starter(ev[j])

LEMMA RestIndex ==
  ASSUME NEW s, IsQueue(s)
  PROVE  /\ IsQueue(Rest(s))
         /\ \A i \in DOMAIN Rest(s) :
              i \in Nat /\ i > 0 /\ i + 1 \in DOMAIN s /\ Rest(s)[i] = s[i + 1]
         /\ s # << >> =>
              /\ 1 \in DOMAIN s /\ Head(s) = s[1]
              /\ \A j \in DOMAIN s :
                   j \in Nat /\ (j = 1 \/ (j > 1 /\ j - 1 \in DOMAIN Rest(s)
                                           /\ Rest(s)[j - 1] = s[j]))
<1> DEFINE r == Rest(s)
<1>1. /\ DOMAIN s = 1 .. Len(s) /\ Len(s) \in Nat /\ IsQueue(r)
      /\ DOMAIN r = 1 .. Len(r) /\ Len(r) \in Nat
      /\ s # << >> => Len(r) = Len(s) - 1 /\ Head(s) = s[1] /\ 1 \in DOMAIN s
      /\ s = << >> => r = << >> /\ Len(s) = 0
      /\ Len(r) <= Len(s)
      /\ \A i \in 1 .. Len(r) : r[i] = s[i + 1]
  BY RestFacts, QueueFacts
<1> SUFFICES /\ IsQueue(r)
             /\ \A i \in DOMAIN r :
                  i \in Nat /\ i > 0 /\ i + 1 \in DOMAIN s /\ r[i] = s[i + 1]
             /\ s # << >> =>
                  /\ 1 \in DOMAIN s /\ Head(s) = s[1]
                  /\ \A j \in DOMAIN s :
                       j \in Nat /\ (j = 1 \/ (j > 1 /\ j - 1 \in DOMAIN r /\ r[j - 1] = s[j]))
  OBVIOUS
<1> HIDE DEF r
<1>2. CASE s = << >>
  <2>1. DOMAIN r = {}
    BY <1>1, <1>2
  <2>2. QED
    BY <1>1, <1>2, <2>1
<1>3. CASE s # << >>
  <2>1. \A i \in DOMAIN r : i \in Nat /\ i > 0 /\ i + 1 \in DOMAIN s /\ r[i] = s[i + 1]
    BY <1>1, <1>3
  <2>2. \A j \in DOMAIN s :
          j \in Nat /\ (j = 1 \/ (j > 1 /\ j - 1 \in DOMAIN r /\ r[j - 1] = s[j]))
    <3>1. ASSUME NEW j \in DOMAIN s
          PROVE  j \in Nat /\ (j = 1 \/ (j > 1 /\ j - 1 \in DOMAIN r /\ r[j - 1] = s[j]))
      <4>1. j \in Nat /\ j >= 1 /\ j <= Len(s)
        <5>1. j \in 1 .. Len(s) /\ Len(s) \in Nat
          BY <1>1, <3>1
        <5>2. QED
          BY <5>1
      <4>2. j # 1 => j > 1 /\ j - 1 \in 1 .. Len(r) /\ (j - 1) + 1 = j
        BY <1>1, <1>3, <4>1
      <4>3. j # 1 => j - 1 \in DOMAIN r /\ r[j - 1] = s[(j - 1) + 1]
        BY <1>1, <4>2
      <4>4. j # 1 => r[j - 1] = s[j]
        BY <4>2, <4>3
      <4>5. QED
        BY <4>1, <4>2, <4>3, <4>4
    <3>2. QED
      BY <3>1
  <2>3. QED
    BY <1>1, <1>3, <2>1, <2>2
<1>4. QED
  BY <1>2, <1>3

LEMMA TurnPop ==
  ASSUME NEW tx, IsQueue(tx), NEW ev, NEW k, Turn(tx, ev, k)
  PROVE  /\ Turn(Rest(tx), ev, k)
         /\ tx # << >> /\ Control(Head(tx)) =>
              NoControl(Rest(tx)) /\ NoStarter(ev) /\ k.mode = "standby"
<1> DEFINE r == Rest(tx)
<1>1. /\ \A i \in DOMAIN r : i \in Nat /\ i > 0 /\ i + 1 \in DOMAIN tx /\ r[i] = tx[i + 1]
      /\ tx # << >> => 1 \in DOMAIN tx /\ Head(tx) = tx[1]
  BY RestIndex
<1> HIDE DEF r
<1>2. \A i \in DOMAIN r :
        i + 1 \in DOMAIN tx /\ r[i] = tx[i + 1] /\ i \in Nat /\ i + 1 # 1
  BY <1>1
<1>3. ASSUME NEW i \in DOMAIN r, NEW j \in DOMAIN r,
             Control(r[i]), Control(r[j])
      PROVE  i = j
  <2>1. i + 1 = j + 1
    BY <1>2, <1>3 DEF Turn
  <2>2. QED
    BY <1>2, <2>1
<1>4. Turn(r, ev, k)
  BY <1>2, <1>3 DEF Turn
<1>5. ASSUME tx # << >>, Control(Head(tx))
      PROVE  NoControl(r) /\ NoStarter(ev) /\ k.mode = "standby"
  <2>1. 1 \in DOMAIN tx /\ Control(tx[1])
    BY <1>1, <1>5
  <2>2. NoControl(r)
    BY <1>2, <2>1 DEF Turn, NoControl
  <2>3. NoStarter(ev) /\ k.mode = "standby"
    BY <2>1 DEF Turn, NoStarter
  <2>4. QED
    BY <2>2, <2>3
<1>6. QED
  BY <1>4, <1>5 DEF r

LEMMA TurnMode ==
  ASSUME NEW tx, NEW ev, NEW k, NEW n, Turn(tx, ev, k),
         (k.mode = "standby" => n.mode = "standby") \/ (NoControl(tx) /\ NoStarter(ev))
  PROVE  Turn(tx, ev, n)
BY DEF Turn, NoControl, NoStarter

LEMMA TurnAppend ==
  ASSUME NEW tx, NEW ev, IsQueue(ev), NEW k, Turn(tx, ev, k), NEW e,
         Starter(e) => k.mode = "standby" /\ NoControl(tx) /\ NoStarter(ev)
  PROVE  Turn(tx, Append(ev, e), k)
<1> DEFINE a == Append(ev, e)
<1>1. /\ DOMAIN a = 1 .. Len(ev) + 1 /\ a[Len(ev) + 1] = e
      /\ \A i \in 1 .. Len(ev) : a[i] = ev[i]
      /\ DOMAIN ev = 1 .. Len(ev) /\ Len(ev) \in Nat
  BY AppendFacts, QueueFacts
<1> HIDE DEF a
<1>2. \A j \in DOMAIN a : j = Len(ev) + 1 \/ (j \in DOMAIN ev /\ a[j] = ev[j])
  BY <1>1
<1>3. Turn(tx, a, k)
  BY <1>1, <1>2 DEF Turn, NoControl, NoStarter
<1>4. QED
  BY <1>3 DEF a

LEMMA LinkAppend ==
  ASSUME NEW ev, IsQueue(ev), NEW k, NEW n, LinkOrder(ev, k), NEW e,
         \/ /\ ~OfLink(e) /\ ~IsConnected(e) /\ ~IsDisconnected(e)
            /\ Linked(n) <=> Linked(k)
         \/ OfLink(e) /\ Linked(k) /\ Linked(n) /\ NoStarter(ev)
         \/ /\ IsConnected(e) /\ Linked(n) /\ ~Linked(k)
            /\ NoStarter(ev)
         \/ IsDisconnected(e) /\ ~Linked(n) /\ NoStarter(ev)
  PROVE  LinkOrder(Append(ev, e), n)
<1> DEFINE a == Append(ev, e)
           l == Len(ev) + 1
<1>1. /\ DOMAIN a = 1 .. Len(ev) + 1 /\ a[Len(ev) + 1] = e
      /\ \A i \in 1 .. Len(ev) : a[i] = ev[i]
      /\ DOMAIN ev = 1 .. Len(ev) /\ Len(ev) \in Nat
  BY AppendFacts, QueueFacts
<1> SUFFICES LinkOrder(a, n)
  OBVIOUS
<1> HIDE DEF a
<1>2. \A j \in DOMAIN ev : j \in DOMAIN a /\ a[j] = ev[j] /\ j < l
  BY <1>1
<1>3. \A j \in DOMAIN a : j = l \/ (j \in DOMAIN ev /\ a[j] = ev[j])
  BY <1>1
<1>4. l \in DOMAIN a /\ a[l] = e
  BY <1>1
<1> HIDE DEF l
<1>5. ~(OfLink(e) /\ IsConnected(e)) /\ ~(OfLink(e) /\ IsDisconnected(e))
      /\ ~(IsConnected(e) /\ IsDisconnected(e))
  BY DEF OfLink, IsConnected, IsDisconnected
<1>6. NoStarter(ev) => \A j \in DOMAIN ev : ~IsDisconnected(ev[j])
  BY DEF NoStarter, Starter, IsDisconnected
<1>7. CASE /\ ~OfLink(e) /\ ~IsConnected(e) /\ ~IsDisconnected(e)
           /\ Linked(n) <=> Linked(k)
  BY <1>2, <1>3, <1>4, <1>7 DEF LinkOrder
<1>8. CASE OfLink(e) /\ Linked(k) /\ Linked(n) /\ NoStarter(ev)
  BY <1>2, <1>3, <1>4, <1>5, <1>6, <1>8 DEF LinkOrder
<1>9. CASE IsConnected(e) /\ Linked(n) /\ ~Linked(k) /\ NoStarter(ev)
  BY <1>2, <1>3, <1>4, <1>5, <1>6, <1>9 DEF LinkOrder
<1>10. CASE IsDisconnected(e) /\ ~Linked(n) /\ NoStarter(ev)
  BY <1>2, <1>3, <1>4, <1>5, <1>6, <1>10 DEF LinkOrder
<1>11. QED
  BY <1>7, <1>8, <1>9, <1>10

LEMMA LinkMode ==
  ASSUME NEW ev, NEW k, NEW n, LinkOrder(ev, k), Linked(n) <=> Linked(k)
  PROVE  LinkOrder(ev, n)
BY DEF LinkOrder

(* What the driver keeps of the event it takes.                            *)
LEMMA DriverSees ==
  ASSUME poll
  PROVE  /\ events = << >> =>
              /\ out' = Received
              /\ UNCHANGED <<central, subscribed, link, bonding>>
         /\ events # << >> /\ IsConnected(Head(events)) =>
              central' /\ subscribed' = subscribed /\ ~timingChanged'
         /\ events # << >> /\ IsDisconnected(Head(events)) =>
              ~central' /\ subscribed' = {} /\ timingChanged' = timingChanged
         /\ events # << >> /\ Head(events).type = "PipeStatus" =>
              central' = central /\ (timingChanged => timingChanged')
         /\ events # << >> /\ ~IsConnected(Head(events)) /\ ~IsDisconnected(Head(events))
              /\ Head(events).type # "PipeStatus" =>
              UNCHANGED <<central, subscribed, timingChanged>>
<1> USE DEF IsConnected, IsDisconnected, Gets, link, bonding, sketch
<1>1. CASE NoEvent
  BY <1>1 DEF NoEvent
<1>2. CASE DeviceStarted
  BY <1>2 DEF DeviceStarted
<1>3. CASE DataRead
  BY <1>3 DEF DataRead
<1>4. CASE DataWritten
  BY <1>4 DEF DataWritten
<1>5. CASE Connected
  BY <1>5 DEF Connected
<1>6. CASE PipeStatus
  BY <1>6 DEF PipeStatus
<1>7. CASE Disconnected
  BY <1>7 DEF Disconnected
<1>8. CASE BondStatus
  BY <1>8 DEF BondStatus
<1>9. CASE DataReceived
  BY <1>9 DEF DataReceived
<1>10. CASE DataCredit
  BY <1>10 DEF DataCredit
<1>11. CASE PipeError
  BY <1>11 DEF PipeError
<1>12. CASE HwError
  BY <1>12 DEF HwError
<1>13. QED
  BY <1>1, <1>2, <1>3, <1>4, <1>5, <1>6, <1>7, <1>8, <1>9, <1>10, <1>11, <1>12 DEF poll

(* No event reports a hardware error.                                      *)
NoFailure(ev) == \A i \in DOMAIN ev : ev[i].type # "HwError"

LEMMA FailureAppend ==
  ASSUME NEW ev, IsQueue(ev), NoFailure(ev), NEW e, e.type # "HwError"
  PROVE  NoFailure(Append(ev, e)) /\ IsQueue(Append(ev, e))
<1> DEFINE a == Append(ev, e)
<1>1. /\ DOMAIN a = 1 .. Len(ev) + 1 /\ a[Len(ev) + 1] = e /\ IsQueue(a)
      /\ \A i \in 1 .. Len(ev) : a[i] = ev[i]
      /\ DOMAIN ev = 1 .. Len(ev) /\ Len(ev) \in Nat
  BY AppendFacts, QueueFacts
<1> HIDE DEF a
<1>2. NoFailure(a)
  BY <1>1 DEF NoFailure
<1>3. QED
  BY <1>1, <1>2 DEF a

(* The chip obeys a command: whose turn it is changes hands.               *)
LEMMA TurnCommand ==
  ASSUME NEW tx, IsQueue(tx), tx # << >>, NEW ev, IsQueue(ev), NoFailure(ev),
         NEW k, ChipShape(k), k.mode \in Modes, Turn(tx, ev, k), LinkOrder(ev, k)
  PROVE  /\ ChipShape(ChipAfter(k, Head(tx))) /\ ChipAfter(k, Head(tx)).mode \in Modes
         /\ IsQueue(ev \o Replies(k, Head(tx))) /\ NoFailure(ev \o Replies(k, Head(tx)))
         /\ Turn(Rest(tx), ev \o Replies(k, Head(tx)), ChipAfter(k, Head(tx)))
         /\ LinkOrder(ev \o Replies(k, Head(tx)), ChipAfter(k, Head(tx)))
<1> DEFINE c == Head(tx)
           n == ChipAfter(k, c)
           r == Replies(k, c)
           a == ev \o r
<1> SUFFICES /\ ChipShape(n) /\ n.mode \in Modes
             /\ IsQueue(a) /\ NoFailure(a)
             /\ Turn(Rest(tx), a, n) /\ LinkOrder(a, n)
  OBVIOUS
<1>0. n = ChipAfter(k, c) /\ r = Replies(k, c) /\ a = ev \o r /\ c = Head(tx)
  OBVIOUS
<1> HIDE DEF c, n, r, a
<1>1. ChipShape(n) /\ (Linked(n) <=> Linked(k))
  BY <1>0, CommandKeeps
<1>2. /\ Turn(Rest(tx), ev, k)
      /\ Control(c) => NoControl(Rest(tx)) /\ NoStarter(ev) /\ k.mode = "standby"
  BY <1>0, TurnPop
<1>3. LinkOrder(ev, n)
  BY <1>1, LinkMode
<1>4. ASSUME r = << >>
      PROVE  IsQueue(a) /\ NoFailure(a) /\ LinkOrder(a, n) /\ a = ev
  BY <1>0, <1>3, <1>4, ConcatCases
<1>5. ASSUME NEW e, r = << e >>, e.type # "HwError", ~OfLink(e),
             ~IsConnected(e), ~IsDisconnected(e)
      PROVE  IsQueue(a) /\ NoFailure(a) /\ LinkOrder(a, n) /\ a = Append(ev, e)
  <2>1. a = Append(ev, e)
    BY <1>0, <1>5, ConcatCases
  <2>2. IsQueue(a) /\ NoFailure(a)
    BY <1>5, <2>1, FailureAppend
  <2>3. LinkOrder(a, n)
    BY <1>1, <1>5, <2>1, LinkAppend
  <2>4. QED
    BY <2>1, <2>2, <2>3
<1>6. CASE Advertised(k, c, n, r)
  <2>1. Control(c) /\ r = << >> /\ n.mode \in Modes
    BY <1>6 DEF Advertised, Control, Modes
  <2>2. Turn(Rest(tx), ev, n)
    BY <1>2, <2>1, TurnMode
  <2>3. QED
    BY <1>1, <1>4, <2>1, <2>2
<1>7. ASSUME Control(c), k.mode = "standby", n.mode = "standby",
             NEW e, r = << e >>, e.type \in {"DataRead", "DataWritten"}
      PROVE  /\ ChipShape(n) /\ n.mode \in Modes
             /\ IsQueue(a) /\ NoFailure(a)
             /\ Turn(Rest(tx), a, n) /\ LinkOrder(a, n)
  <2>1. ~OfLink(e) /\ ~IsConnected(e) /\ ~IsDisconnected(e) /\ e.type # "HwError"
    BY <1>7 DEF OfLink, IsConnected, IsDisconnected
  <2>2. IsQueue(a) /\ NoFailure(a) /\ LinkOrder(a, n) /\ a = Append(ev, e)
    BY <1>5, <1>7, <2>1
  <2>3. Turn(Rest(tx), ev, n)
    BY <1>2, <1>7, TurnMode
  <2>4. Turn(Rest(tx), Append(ev, e), n)
    BY <1>2, <1>7, <2>3, TurnAppend
  <2>5. n.mode \in Modes
    BY <1>7 DEF Modes
  <2>6. QED
    BY <1>1, <2>2, <2>4, <2>5
<1>8. CASE Fetched(k, c, n, r)
  <2> DEFINE e == [type |-> "DataRead", seqNo |-> k.read + 1,
                   complete |-> k.read + 1 = Chunks]
  <2>1. Control(c) /\ k.mode = "standby" /\ n.mode = "standby" /\ r = << e >>
    BY <1>8 DEF Fetched, Control
  <2>2. e.type \in {"DataRead", "DataWritten"}
    OBVIOUS
  <2> HIDE DEF e
  <2>3. QED
    BY <1>7, <2>1, <2>2
<1>9. CASE Written(k, c, n, r)
  <2> DEFINE e == [type |-> "DataWritten", complete |-> k.restored + 1 = Chunks]
  <2>1. Control(c) /\ k.mode = "standby" /\ n.mode = "standby" /\ r = << e >>
    BY <1>9 DEF Written, Control
  <2>2. e.type \in {"DataRead", "DataWritten"}
    OBVIOUS
  <2> HIDE DEF e
  <2>3. QED
    BY <1>7, <2>1, <2>2
<1>10. CASE Buffered(k, c, n, r) \/ Timed(k, c, n, r) \/ Other(k, c, n, r)
  <2>1. /\ r = << >> /\ n.mode \in Modes
        /\ k.mode = "standby" => n.mode = "standby"
    BY <1>10 DEF Buffered, Timed, Other, Modes
  <2>2. Turn(Rest(tx), ev, n)
    BY <1>2, <2>1, TurnMode
  <2>3. QED
    BY <1>1, <1>4, <2>1, <2>2
<1>11. CASE Declined(k, c, n, r)
  <2> DEFINE e == [type |-> "PipeError", peer |-> FALSE]
  <2>1. n = k /\ r = << e >>
    BY <1>11 DEF Declined
  <2>2. /\ ~OfLink(e) /\ ~IsConnected(e) /\ ~IsDisconnected(e) /\ e.type # "HwError"
        /\ ~Starter(e)
    BY DEF OfLink, IsConnected, IsDisconnected, Starter
  <2> HIDE DEF e
  <2>3. IsQueue(a) /\ NoFailure(a) /\ LinkOrder(a, n) /\ a = Append(ev, e)
    BY <1>5, <2>1, <2>2
  <2>4. Turn(Rest(tx), Append(ev, e), n)
    BY <1>2, <2>1, <2>2, TurnAppend
  <2>5. QED
    BY <1>1, <2>1, <2>3, <2>4
<1>12. \/ Advertised(k, c, n, r) \/ Fetched(k, c, n, r) \/ Written(k, c, n, r)
       \/ Buffered(k, c, n, r) \/ Declined(k, c, n, r) \/ Timed(k, c, n, r)
       \/ Other(k, c, n, r)
  BY <1>0, CommandCases
<1>13. QED
  BY <1>6, <1>8, <1>9, <1>10, <1>11, <1>12

(* The driver takes the event at the head, and its handler sends.          *)
LEMMA TurnRest ==
  ASSUME NEW o, OutShape(o), NEW n, NEW ev, IsQueue(ev), ev # << >>,
         NEW k, Turn(o.tx, ev, k), Replied(o, n, Head(ev))
  PROVE  Turn(n.tx, Rest(ev), k)
<1> DEFINE r == Rest(ev)
           tx == o.tx
           ux == n.tx
<1>1. /\ \A i \in DOMAIN r : i \in Nat /\ i > 0 /\ i + 1 \in DOMAIN ev /\ r[i] = ev[i + 1]
      /\ 1 \in DOMAIN ev /\ Head(ev) = ev[1]
  BY RestIndex
<1>2. /\ DOMAIN tx = 1 .. Len(tx) /\ DOMAIN ux = 1 .. Len(ux)
      /\ Len(tx) \in Nat /\ Len(ux) \in Nat
      /\ \A i \in 1 .. Len(tx) : ux[i] = tx[i]
  BY QueueFacts DEF Replied, Grows, OutShape
<1>3. \A i \in DOMAIN ux : i \in New(o, n) \/ (i \in DOMAIN tx /\ ux[i] = tx[i])
  BY <1>2 DEF New
<1>4. \A i \in New(o, n) : Control(ux[i]) => Starter(ev[1]) /\ i = Len(ux)
  BY <1>1 DEF Replied
<1>5. Turn(tx, ev, k)
  OBVIOUS
<1> SUFFICES Turn(ux, r, k)
  OBVIOUS
<1> HIDE DEF r, tx, ux
<1>6. CASE Starter(ev[1])
  <2>1. \A i \in DOMAIN tx : ~Control(tx[i])
    BY <1>1, <1>5, <1>6 DEF Turn
  <2>2. \A j \in DOMAIN r : ~Starter(r[j])
    <3> SUFFICES ASSUME NEW j \in DOMAIN r, Starter(r[j]) PROVE FALSE
      OBVIOUS
    <3>1. j + 1 \in DOMAIN ev /\ Starter(ev[j + 1]) /\ j \in Nat /\ j > 0
      BY <1>1
    <3>2. j + 1 = 1
      BY <1>1, <1>5, <1>6, <3>1 DEF Turn
    <3>3. QED
      BY <3>1, <3>2
  <2>3. k.mode = "standby"
    BY <1>1, <1>5, <1>6 DEF Turn
  <2>4. QED
    BY <1>3, <1>4, <2>1, <2>2, <2>3 DEF Turn
<1>7. CASE ~Starter(ev[1])
  <2>1. \A i \in DOMAIN ux : Control(ux[i]) => i \in DOMAIN tx /\ ux[i] = tx[i]
    BY <1>3, <1>4, <1>7
  <2>2. ASSUME NEW i \in DOMAIN r, NEW j \in DOMAIN r, Starter(r[i]), Starter(r[j])
        PROVE  i = j
    <3>1. i + 1 = j + 1
      BY <1>1, <1>5, <2>2 DEF Turn
    <3>2. QED
      BY <1>1, <3>1
  <2>3. QED
    BY <1>1, <1>5, <2>1, <2>2 DEF Turn
<1>8. QED
  BY <1>6, <1>7

LEMMA LinkRest ==
  ASSUME NEW ev, IsQueue(ev), ev # << >>, LinkOrder(ev, chip'), events' = Rest(ev),
         Starter(Head(ev)) => chip'.mode = "standby",
         IsConnected(Head(ev)) => central' /\ subscribed' = subscribed,
         IsDisconnected(Head(ev)) => ~central' /\ subscribed' = {},
         Head(ev).type = "PipeStatus" => central' = central,
         /\ ~IsConnected(Head(ev)) /\ ~IsDisconnected(Head(ev))
         /\ Head(ev).type # "PipeStatus"
         => UNCHANGED <<central, subscribed>>
  PROVE  LinkOrder(events, chip)'
<1> DEFINE r == events'
           k == chip'
           e == ev[1]
<1>1. /\ \A i \in DOMAIN r : i \in Nat /\ i > 0 /\ i + 1 \in DOMAIN ev /\ r[i] = ev[i + 1]
      /\ 1 \in DOMAIN ev /\ Head(ev) = e
      /\ \A j \in DOMAIN ev : j \in Nat /\ (j = 1 \/ (j > 1 /\ j - 1 \in DOMAIN r
                                                       /\ r[j - 1] = ev[j]))
  BY RestIndex
<1> HIDE DEF r, k, e
<1>2. \A i \in DOMAIN r : i \in Nat /\ i + 1 \in DOMAIN ev /\ r[i] = ev[i + 1]
                          /\ i + 1 # 1 /\ ~(i + 1 < 1)
  BY <1>1
<1>3. \A i, j \in DOMAIN r : (i + 1 < j + 1 => i < j) /\ (i + 1 = j + 1 => i = j)
  BY <1>1
<1>4. ~(OfLink(e) /\ IsConnected(e)) /\ ~(OfLink(e) /\ IsDisconnected(e))
      /\ ~(IsConnected(e) /\ IsDisconnected(e))
      /\ (IsDisconnected(e) => Starter(e))
      /\ (e.type = "PipeStatus" => OfLink(e))
  BY DEF OfLink, IsConnected, IsDisconnected, Starter
<1>5. LinkOrder(ev, k)
  BY DEF k
<1>6. CASE IsConnected(e)
  <2>1. ~central /\ central' /\ subscribed' = subscribed
    BY <1>1, <1>5, <1>6 DEF LinkOrder
  <2>2. \A i \in DOMAIN r : ~IsConnected(r[i])
    <3> SUFFICES ASSUME NEW i \in DOMAIN r, IsConnected(r[i]) PROVE FALSE
      OBVIOUS
    <3>1. i + 1 = 1
      BY <1>1, <1>2, <1>5, <1>6 DEF LinkOrder, e
    <3>2. QED
      BY <1>2, <3>1
  <2>3. \A i, j \in DOMAIN r : IsDisconnected(r[i]) /\ OfLink(r[j]) => j < i
    <3> SUFFICES ASSUME NEW i \in DOMAIN r, NEW j \in DOMAIN r,
                        IsDisconnected(r[i]), OfLink(r[j])
                 PROVE  j < i
      OBVIOUS
    <3>1. j + 1 < i + 1
      BY <1>2, <1>5 DEF LinkOrder
    <3>2. QED
      BY <1>3, <3>1
  <2>4. Linked(k) \/ \E i \in DOMAIN r : IsDisconnected(r[i])
    <3>1. Linked(k) \/ \E i \in DOMAIN ev : IsDisconnected(ev[i])
      BY <1>1, <1>5, <1>6 DEF LinkOrder, e
    <3>2. \A j \in DOMAIN ev : IsDisconnected(ev[j]) => j - 1 \in DOMAIN r /\ r[j - 1] = ev[j]
      BY <1>1, <1>4, <1>6 DEF e
    <3>3. QED
      BY <3>1, <3>2
  <2>5. QED
    BY <2>1, <2>2, <2>3, <2>4 DEF LinkOrder, r, k
<1>7. CASE IsDisconnected(e)
  <2>1. ~central' /\ subscribed' = {} /\ ~Linked(k)
    BY <1>1, <1>4, <1>7 DEF Linked, k
  <2>2. \A i \in DOMAIN r : ~IsConnected(r[i]) /\ ~OfLink(r[i])
    <3> SUFFICES ASSUME NEW i \in DOMAIN r, IsConnected(r[i]) \/ OfLink(r[i]) PROVE FALSE
      OBVIOUS
    <3>1. i + 1 < 1
      BY <1>1, <1>2, <1>5, <1>7 DEF LinkOrder, e
    <3>2. QED
      BY <1>2, <3>1
  <2>3. QED
    BY <2>1, <2>2 DEF LinkOrder, r, k
<1>8. CASE ~IsConnected(e) /\ ~IsDisconnected(e)
  <2>1. central' = central
    BY <1>1, <1>8
  <2>2. subscribed' # {} => central
    <3>1. CASE e.type = "PipeStatus"
      <4>1. central \/ \E j \in DOMAIN ev : j < 1
        BY <1>1, <1>4, <1>5, <3>1 DEF LinkOrder, e
      <4>2. QED
        BY <1>1, <4>1
    <3>2. CASE e.type # "PipeStatus"
      BY <1>1, <1>5, <1>8, <3>2 DEF LinkOrder
    <3>3. QED
      BY <3>1, <3>2
  <2>3. \A i \in DOMAIN r : IsConnected(r[i]) => ~central
    BY <1>2, <1>5 DEF LinkOrder
  <2>4. \A i, j \in DOMAIN r : IsConnected(r[i]) /\ IsConnected(r[j]) => i = j
    <3> SUFFICES ASSUME NEW i \in DOMAIN r, NEW j \in DOMAIN r,
                        IsConnected(r[i]), IsConnected(r[j])
                 PROVE  i = j
      OBVIOUS
    <3>1. i + 1 = j + 1
      BY <1>2, <1>5 DEF LinkOrder
    <3>2. QED
      BY <1>3, <3>1
  <2>5. \A i \in DOMAIN r :
          OfLink(r[i]) => central \/ \E j \in DOMAIN r : j < i /\ IsConnected(r[j])
    <3> SUFFICES ASSUME NEW i \in DOMAIN r, OfLink(r[i]), ~central
                 PROVE  \E j \in DOMAIN r : j < i /\ IsConnected(r[j])
      OBVIOUS
    <3>1. PICK j \in DOMAIN ev : j < i + 1 /\ IsConnected(ev[j])
      BY <1>2, <1>5 DEF LinkOrder
    <3>2. j - 1 \in DOMAIN r /\ r[j - 1] = ev[j] /\ j \in Nat
      BY <1>1, <1>8, <3>1 DEF e
    <3>3. j - 1 < i
      BY <1>2, <3>1, <3>2
    <3>4. QED
      BY <3>1, <3>2, <3>3
  <2>6. \A i, j \in DOMAIN r :
          IsDisconnected(r[i]) /\ (OfLink(r[j]) \/ IsConnected(r[j])) => j < i
    <3> SUFFICES ASSUME NEW i \in DOMAIN r, NEW j \in DOMAIN r,
                        IsDisconnected(r[i]), OfLink(r[j]) \/ IsConnected(r[j])
                 PROVE  j < i
      OBVIOUS
    <3>1. j + 1 < i + 1
      BY <1>2, <1>5 DEF LinkOrder
    <3>2. QED
      BY <1>3, <3>1
  <2>7. /\ (\E i \in DOMAIN r : IsConnected(r[i])) <=> \E i \in DOMAIN ev : IsConnected(ev[i])
        /\ (\E i \in DOMAIN r : IsDisconnected(r[i]))
             <=> \E i \in DOMAIN ev : IsDisconnected(ev[i])
    <3>1. \A j \in DOMAIN ev : IsConnected(ev[j]) \/ IsDisconnected(ev[j])
                                 => j - 1 \in DOMAIN r /\ r[j - 1] = ev[j]
      BY <1>1, <1>8 DEF e
    <3>2. QED
      BY <1>2, <3>1
  <2>8. /\ central \/ (\E i \in DOMAIN r : IsConnected(r[i]))
             => Linked(k) \/ \E i \in DOMAIN r : IsDisconnected(r[i])
        /\ Linked(k) => central \/ \E i \in DOMAIN r : IsConnected(r[i])
    BY <1>5, <2>7 DEF LinkOrder
  <2>9. QED
    BY <2>1, <2>2, <2>3, <2>4, <2>5, <2>6, <2>8 DEF LinkOrder, r, k
<1>9. QED
  BY <1>6, <1>7, <1>8

LEMMA TurnMid ==
  ASSUME TurnInv, Exchange
  PROVE  /\ ChipShape(chip') /\ chip'.mode \in Modes
         /\ IsQueue(AfterCommand) /\ NoFailure(AfterCommand)
         /\ Turn(Received.tx, AfterCommand, chip')
         /\ LinkOrder(AfterCommand, chip')
<1>1. /\ OutShape(out) /\ IsQueue(out.tx) /\ IsQueue(events) /\ NoFailure(events)
      /\ ChipShape(chip) /\ chip.mode \in Modes
      /\ Turn(out.tx, events, chip) /\ LinkOrder(events, chip)
  BY DEF TurnInv, OutShape, NoFailure
<1>2. Received.tx = Rest(out.tx)
  BY <1>1, ReceivedFacts
<1>3. CASE out.tx = << >>
  <2>1. chip' = chip /\ AfterCommand = events /\ Rest(out.tx) = out.tx
    BY <1>3 DEF Exchange, AfterCommand, Rest
  <2>2. QED
    BY <1>1, <1>2, <2>1
<1>4. CASE out.tx # << >>
  <2> DEFINE r == Replies(chip, Head(out.tx))
  <2>1. chip' = ChipAfter(chip, Head(out.tx)) /\ AfterCommand = events \o r
    BY <1>4 DEF Exchange, AfterCommand
  <2>2. r = Replies(chip, Head(out.tx))
    OBVIOUS
  <2> HIDE DEF r
  <2>3. QED
    BY <1>1, <1>2, <1>4, <2>1, <2>2, TurnCommand
<1>5. QED
  BY <1>3, <1>4

LEMMA PollTurn ==
  ASSUME TurnInv, poll
  PROVE  TurnInv'
<1>1. /\ Exchange /\ OutShape(out) /\ IsQueue(events) /\ NoFailure(events)
      /\ OutShape(Received)
  <2>1. Exchange /\ OutShape(out) /\ IsQueue(events) /\ NoFailure(events)
    BY PollExchanges DEF TurnInv, NoFailure
  <2>2. QED
    BY <2>1, ReceivedFacts
<1>2. /\ ChipShape(chip') /\ chip'.mode \in Modes
      /\ IsQueue(AfterCommand) /\ NoFailure(AfterCommand)
      /\ Turn(Received.tx, AfterCommand, chip')
      /\ LinkOrder(AfterCommand, chip')
  BY <1>1, TurnMid
<1>3. CASE events = << >>
  <2>1. events' = AfterCommand
    BY <1>1, <1>3, Exchanged
  <2>2. out' = Received /\ central' = central /\ subscribed' = subscribed
    BY <1>3, DriverSees
  <2>3. LinkOrder(events, chip)'
    BY <1>2, <2>1, <2>2 DEF LinkOrder
  <2>4. Turn(out'.tx, events', chip') /\ OutShape(out')
    BY <1>1, <1>2, <2>1, <2>2
  <2>5. NoFailure(events') /\ IsQueue(events')
    BY <1>2, <2>1
  <2>6. QED
    BY <1>2, <2>3, <2>4, <2>5 DEF TurnInv, NoFailure
<1>4. CASE events # << >>
  <2>1. /\ AfterCommand # << >> /\ Head(AfterCommand) = Head(events)
        /\ events' = Rest(AfterCommand)
    BY <1>1, <1>4, Exchanged
  <2>2. Head(events).type # "HwError"
    <3>1. 1 \in DOMAIN events /\ Head(events) = events[1]
      BY <1>1, <1>4, RestIndex
    <3>2. QED
      BY <1>1, <3>1 DEF NoFailure
  <2>3. Replied(Received, out', Head(events))
    BY <1>1, <1>4, <2>2, PollReplied
  <2>4. Turn(out'.tx, events', chip')
    BY <1>1, <1>2, <2>1, <2>3, TurnRest
  <2>5. Starter(Head(events)) => chip'.mode = "standby"
    <3>1. 1 \in DOMAIN AfterCommand /\ Head(AfterCommand) = AfterCommand[1]
      BY <1>2, <2>1, RestIndex
    <3>2. QED
      BY <1>2, <2>1, <3>1 DEF Turn
  <2>6. LinkOrder(events, chip)'
    <3>1. /\ IsConnected(Head(events)) => central' /\ subscribed' = subscribed
          /\ IsDisconnected(Head(events)) => ~central' /\ subscribed' = {}
          /\ Head(events).type = "PipeStatus" => central' = central
          /\ ~IsConnected(Head(events)) /\ ~IsDisconnected(Head(events))
             /\ Head(events).type # "PipeStatus"
               => UNCHANGED <<central, subscribed>>
      BY <1>4, DriverSees
    <3>2. QED
      BY <1>2, <2>1, <2>5, <3>1, LinkRest
  <2>7. NoFailure(events') /\ IsQueue(events')
    <3>1. \A i \in DOMAIN Rest(AfterCommand) :
            i + 1 \in DOMAIN AfterCommand /\ Rest(AfterCommand)[i] = AfterCommand[i + 1]
      BY <1>2, RestIndex
    <3>2. IsQueue(Rest(AfterCommand))
      BY <1>2, RestIndex
    <3>3. QED
      BY <1>2, <2>1, <3>1, <3>2 DEF NoFailure
  <2>8. OutShape(out')
    BY <2>3 DEF Replied, Grows
  <2>9. QED
    BY <1>2, <2>4, <2>6, <2>7, <2>8 DEF TurnInv, NoFailure
<1>5. QED
  BY <1>3, <1>4

(* A step of the sketch: it sends what a call may, and nothing else.       *)
LEMMA ActsTurn ==
  ASSUME TurnInv, Acts(out, out', "any"), UNCHANGED <<chip, events, central, subscribed>>
  PROVE  TurnInv'
<1>1. /\ Acts(out, out', "any") /\ chip' = chip /\ events' = events
      /\ central' = central /\ subscribed' = subscribed
  OBVIOUS
<1>2. OutShape(out') /\ Grows(out, out')
  BY <1>1, ActsShape
<1>3. /\ DOMAIN out.tx = 1 .. Len(out.tx) /\ DOMAIN out'.tx = 1 .. Len(out'.tx)
      /\ Len(out.tx) \in Nat /\ Len(out'.tx) \in Nat
      /\ \A i \in 1 .. Len(out.tx) : out'.tx[i] = out.tx[i]
  BY <1>2, QueueFacts DEF TurnInv, Grows, OutShape
<1>4. \A i \in DOMAIN out'.tx :
        Control(out'.tx[i]) => i \in DOMAIN out.tx /\ out'.tx[i] = out.tx[i]
  BY <1>1, <1>3 DEF Acts, New
<1>5. Turn(out'.tx, events', chip')
  BY <1>1, <1>4 DEF TurnInv, Turn
<1>6. LinkOrder(events, chip)'
  BY <1>1 DEF TurnInv, LinkOrder
<1>7. QED
  BY <1>1, <1>2, <1>5, <1>6 DEF TurnInv

LEMMA CallTurn ==
  ASSUME TurnInv, Call
  PROVE  TurnInv' /\ Acts(out, out', "any")
<1>1. /\ Acts(out, out', "any") /\ chip' = chip /\ events' = events
      /\ central' = central /\ subscribed' = subscribed
  <2>1. OutShape(out)
    BY DEF TurnInv
  <2>2. QED
    BY <2>1, CalledActs, AnyFits DEF Call
<1>2. QED
  BY <1>1, ActsTurn

(* A chip that is not idle has the turn.                                   *)
LEMMA BusyChip ==
  ASSUME TurnInv, chip.mode # "standby"
  PROVE  NoControl(out.tx) /\ NoStarter(events)
BY DEF TurnInv, Turn, NoControl, NoStarter

LEMMA TurnEmitted ==
  ASSUME TurnInv, chip.mode # "standby", NEW e, Emits(e),
         ChipShape(chip'), chip'.mode \in Modes, e.type # "HwError",
         Starter(e) => chip'.mode = "standby",
         \/ /\ ~OfLink(e) /\ ~IsConnected(e) /\ ~IsDisconnected(e)
            /\ Linked(chip') <=> Linked(chip)
         \/ OfLink(e) /\ Linked(chip) /\ Linked(chip')
         \/ IsConnected(e) /\ Linked(chip') /\ ~Linked(chip)
         \/ IsDisconnected(e) /\ ~Linked(chip')
  PROVE  TurnInv'
<1> DEFINE n == chip'
<1>1. /\ events' = Append(events, e) /\ out' = out
      /\ central' = central /\ subscribed' = subscribed
  BY DEF Emits, sketch
<1>2. /\ OutShape(out) /\ IsQueue(events) /\ NoFailure(events)
      /\ Turn(out.tx, events, chip) /\ LinkOrder(events, chip)
      /\ NoControl(out.tx) /\ NoStarter(events)
  BY BusyChip DEF TurnInv, NoFailure
<1>3. Turn(out.tx, events, n)
  BY <1>2, TurnMode
<1>4. Turn(out.tx, Append(events, e), n)
  <2>1. Starter(e) => n.mode = "standby" /\ NoControl(out.tx) /\ NoStarter(events)
    BY <1>2
  <2> HIDE DEF n
  <2>2. QED
    BY <1>2, <1>3, <2>1, TurnAppend
<1>5. LinkOrder(Append(events, e), n)
  <2>1. \/ /\ ~OfLink(e) /\ ~IsConnected(e) /\ ~IsDisconnected(e)
           /\ Linked(n) <=> Linked(chip)
        \/ OfLink(e) /\ Linked(chip) /\ Linked(n) /\ NoStarter(events)
        \/ /\ IsConnected(e) /\ Linked(n) /\ ~Linked(chip)
           /\ NoStarter(events)
        \/ IsDisconnected(e) /\ ~Linked(n) /\ NoStarter(events)
    BY <1>2
  <2> HIDE DEF n
  <2>2. QED
    BY <1>2, <2>1, LinkAppend
<1>6. NoFailure(Append(events, e)) /\ IsQueue(Append(events, e))
  BY <1>2, FailureAppend
<1>7. LinkOrder(events, chip)'
  BY <1>1, <1>5 DEF LinkOrder
<1>8. QED
  BY <1>1, <1>2, <1>4, <1>6, <1>7 DEF TurnInv, NoFailure

(* What the peer and the chip do without a failure of the hardware.        *)
Undisturbed ==
  \/ PeerConnects \/ PeerSetsPipes \/ PeerSends \/ PeerTakesData
  \/ PeerRefuses \/ PeerBonds \/ LinkEnds

LEMMA PeerTurn ==
  ASSUME TurnInv, Undisturbed
  PROVE  TurnInv'
<1> USE DEF OfLink, IsConnected, IsDisconnected, Starter, Linked, Modes, Advertising,
            Connectable
<1>1. ChipShape(chip) /\ chip.mode \in Modes
  BY DEF TurnInv
<1>2. CASE PeerConnects
  <2>1. ChipShape(chip') /\ chip'.mode = "connected"
    BY <1>1, <1>2 DEF PeerConnects, ChipShape
  <2>2. QED
    BY <1>2, <2>1, TurnEmitted DEF PeerConnects
<1>3. CASE PeerSetsPipes
  <2>1. PICK pipes, closed :
          /\ chip' = [chip EXCEPT !.open = pipes]
          /\ Emits([type |-> "PipeStatus", open |-> pipes, closed |-> closed])
    BY <1>3 DEF PeerSetsPipes
  <2>2. ChipShape(chip') /\ chip'.mode = chip.mode /\ chip.mode = "connected"
    BY <1>1, <1>3, <2>1 DEF PeerSetsPipes, ChipShape
  <2>3. QED
    BY <2>1, <2>2, TurnEmitted
<1>4. CASE PeerSends
  <2>1. PICK p, u :
          /\ chip' = [chip EXCEPT !.unacked = u]
          /\ Emits([type |-> "DataReceived", pipe |-> p])
    BY <1>4 DEF PeerSends
  <2>2. ChipShape(chip') /\ chip'.mode = chip.mode /\ chip.mode = "connected"
    BY <1>1, <1>4, <2>1 DEF PeerSends, ChipShape
  <2>3. QED
    BY <2>1, <2>2, TurnEmitted
<1>5. CASE PeerTakesData
  <2>1. ChipShape(chip') /\ chip'.mode = chip.mode /\ chip.mode = "connected"
    BY <1>1, <1>5 DEF PeerTakesData, ChipShape
  <2>2. QED
    BY <1>5, <2>1, TurnEmitted DEF PeerTakesData
<1>6. CASE PeerRefuses
  BY <1>1, <1>6, TurnEmitted DEF PeerRefuses
<1>7. CASE PeerBonds
  <2>1. PICK success, b, t :
          /\ chip' = [chip EXCEPT !.bonded = b, !.toSave = t]
          /\ Emits([type |-> "BondStatus", success |-> success])
    BY <1>7 DEF PeerBonds
  <2>2. ChipShape(chip') /\ chip'.mode = chip.mode /\ chip.mode = "connected"
    BY <1>1, <1>7, <2>1 DEF PeerBonds, ChipShape
  <2>3. QED
    BY <2>1, <2>2, TurnEmitted
<1>8. CASE LinkEnds
  <2>1. ChipShape(chip') /\ chip'.mode = "standby" /\ chip.mode # "standby"
    BY <1>1, <1>8 DEF LinkEnds, Unlinked, ChipShape
  <2>2. QED
    BY <1>8, <2>1, TurnEmitted DEF LinkEnds
<1>9. QED
  BY <1>2, <1>3, <1>4, <1>5, <1>6, <1>7, <1>8 DEF Undisturbed

LEMMA ChipTurn ==
  ASSUME TurnInv, ~HwErrors, Chip
  PROVE  TurnInv'
BY PeerTurn DEF Chip, ChipFails, Undisturbed

(* A driver and a chip that begin() leaves.                                *)
Fresh ==
  /\ \E head : out = Begun(head)
  /\ sequenceNo = 0 /\ stored \in {0, Chunks} /\ subscribed = {} /\ central = FALSE
  /\ chip = SetUp
  /\ events = << [type |-> "DeviceStarted", hwError |-> FALSE] >>

LEMMA InitFresh == Init => Fresh
BY DEF Init, Fresh

LEMMA FreshTurn == Fresh => TurnInv
<1> SUFFICES ASSUME Fresh PROVE TurnInv
  OBVIOUS
<1>1. /\ ChipShape(chip) /\ chip.mode = "standby" /\ ~central /\ subscribed = {}
      /\ chip.mode \in Modes
  BY DEF Fresh, SetUp, ChipShape, Modes
<1>2. IsQueue(events) /\ DOMAIN events = {1} /\ events[1].type = "DeviceStarted"
  BY SingleFacts DEF Fresh
<1>3. DOMAIN out.tx = {1} /\ out.tx[1] = <<"info", 0>>
  BY BegunFacts DEF Fresh
<1>4. OutShape(out)
  BY BegunFacts DEF Fresh
<1>5. ~Control(<<"info", 0>>)
  BY DEF Control, Advertising, Connectable
<1>6. Turn(out.tx, events, chip)
  BY <1>1, <1>2, <1>3, <1>5 DEF Turn
<1>7. LinkOrder(events, chip)
  BY <1>1, <1>2 DEF LinkOrder, OfLink, IsConnected, IsDisconnected, Linked
<1>8. QED
  BY <1>1, <1>2, <1>4, <1>6, <1>7 DEF TurnInv

LEMMA InitTurn == Init => TurnInv
BY InitFresh, FreshTurn

LEMMA StepTurn == TurnInv /\ ~HwErrors /\ [Next]_vars => TurnInv'
<1> SUFFICES ASSUME TurnInv, ~HwErrors, [Next]_vars PROVE TurnInv'
  OBVIOUS
<1>1. CASE UNCHANGED vars
  BY <1>1 DEF vars, sketch, TurnInv, LinkOrder
<1>2. QED
  BY <1>1, CallTurn, PollTurn, ChipTurn DEF Next, Overrun

------------------------------------------------------------------------------
(* The timing of a link is asked for by the one pipe status event that     *)
(* finds the flag unset, and the request reaches the chip before the       *)
(* command that leads to the next link.                                    *)
Timing(tx, ev, k, changed) ==
  /\ \A i, j \in DOMAIN tx : IsTiming(tx[i]) /\ Control(tx[j]) => i < j
  /\ \A i, j \in DOMAIN tx : IsTiming(tx[i]) /\ IsTiming(tx[j]) => i = j
  /\ \A i \in DOMAIN tx : IsTiming(tx[i]) =>
       changed /\ k.timings = 0 /\ k.mode \notin Advertising
  /\ \A i \in DOMAIN tx, j \in DOMAIN ev : ~(IsTiming(tx[i]) /\ IsConnected(ev[j]))
  /\ \A j \in DOMAIN ev : IsConnected(ev[j]) => k.timings = 0
  /\ k.timings \in {0, 1}
  /\ k.timings = 1 => changed

TimingInv == TurnInv /\ Timing(out.tx, events, chip, timingChanged)

LEMMA TimingAppend ==
  ASSUME NEW tx, NEW ev, IsQueue(ev), NEW k, NEW n, NEW changed,
         Timing(tx, ev, k, changed), NEW e,
         n.mode \in Advertising => k.mode \in Advertising,
         IsConnected(e) => n.timings = 0 /\ k.mode \in Advertising,
         ~IsConnected(e) => n.timings = k.timings
  PROVE  Timing(tx, Append(ev, e), n, changed)
<1> DEFINE a == Append(ev, e)
<1>1. /\ DOMAIN a = 1 .. Len(ev) + 1 /\ a[Len(ev) + 1] = e
      /\ \A i \in 1 .. Len(ev) : a[i] = ev[i]
      /\ DOMAIN ev = 1 .. Len(ev) /\ Len(ev) \in Nat
  BY AppendFacts, QueueFacts
<1> SUFFICES Timing(tx, a, n, changed)
  OBVIOUS
<1> HIDE DEF a
<1>2. \A j \in DOMAIN a : (j = Len(ev) + 1 /\ a[j] = e) \/ (j \in DOMAIN ev /\ a[j] = ev[j])
  BY <1>1
<1>3. CASE IsConnected(e)
  <2>1. \A i \in DOMAIN tx : ~IsTiming(tx[i])
    BY <1>3 DEF Timing
  <2>2. n.timings = 0
    BY <1>3
  <2>3. QED
    BY <2>1, <2>2 DEF Timing
<1>4. CASE ~IsConnected(e)
  <2>1. n.timings = k.timings
    BY <1>4
  <2>2. \A j \in DOMAIN a : IsConnected(a[j]) => j \in DOMAIN ev /\ IsConnected(ev[j])
    BY <1>2, <1>4
  <2>3. QED
    BY <2>1, <2>2 DEF Timing
<1>5. QED
  BY <1>3, <1>4

LEMMA TimingPop ==
  ASSUME NEW tx, IsQueue(tx), NEW ev, NEW k, NEW changed, Timing(tx, ev, k, changed)
  PROVE  /\ Timing(Rest(tx), ev, k, changed)
         /\ tx # << >> /\ (Control(Head(tx)) \/ IsTiming(Head(tx))) =>
              \A i \in DOMAIN Rest(tx) : ~IsTiming(Rest(tx)[i])
         /\ tx # << >> /\ IsTiming(Head(tx)) =>
              /\ changed /\ k.timings = 0
              /\ \A j \in DOMAIN ev : ~IsConnected(ev[j])
<1> DEFINE r == Rest(tx)
<1>1. /\ \A i \in DOMAIN r : i \in Nat /\ i > 0 /\ i + 1 \in DOMAIN tx /\ r[i] = tx[i + 1]
      /\ tx # << >> => 1 \in DOMAIN tx /\ Head(tx) = tx[1]
  BY RestIndex
<1> HIDE DEF r
<1>2. \A i \in DOMAIN r :
        i + 1 \in DOMAIN tx /\ r[i] = tx[i + 1] /\ i + 1 # 1 /\ ~(i + 1 < 1)
  BY <1>1
<1>3. \A i, j \in DOMAIN r : (i + 1 < j + 1 => i < j) /\ (i + 1 = j + 1 => i = j)
  BY <1>1
<1>4. Timing(r, ev, k, changed)
  <2>1. ASSUME NEW i \in DOMAIN r, NEW j \in DOMAIN r, IsTiming(r[i]), Control(r[j])
        PROVE  i < j
    <3>1. i + 1 < j + 1
      BY <1>2, <2>1 DEF Timing
    <3>2. QED
      BY <1>3, <3>1
  <2>2. ASSUME NEW i \in DOMAIN r, NEW j \in DOMAIN r, IsTiming(r[i]), IsTiming(r[j])
        PROVE  i = j
    <3>1. i + 1 = j + 1
      BY <1>2, <2>2 DEF Timing
    <3>2. QED
      BY <1>3, <3>1
  <2>3. QED
    BY <1>2, <2>1, <2>2 DEF Timing
<1>5. ASSUME tx # << >>, Control(Head(tx)) \/ IsTiming(Head(tx)), NEW i \in DOMAIN r,
             IsTiming(r[i])
      PROVE  FALSE
  <2>1. i + 1 < 1 \/ i + 1 = 1
    BY <1>1, <1>2, <1>5 DEF Timing
  <2>2. QED
    BY <1>2, <2>1
<1>6. tx # << >> /\ IsTiming(Head(tx)) =>
        /\ changed /\ k.timings = 0
        /\ \A j \in DOMAIN ev : ~IsConnected(ev[j])
  BY <1>1 DEF Timing
<1>7. QED
  BY <1>4, <1>5, <1>6 DEF r

LEMMA TimingCommand ==
  ASSUME NEW tx, IsQueue(tx), tx # << >>, NEW ev, IsQueue(ev), NEW k, ChipShape(k),
         NEW changed, Timing(tx, ev, k, changed)
  PROVE  Timing(Rest(tx), ev \o Replies(k, Head(tx)), ChipAfter(k, Head(tx)), changed)
<1> DEFINE c == Head(tx)
           n == ChipAfter(k, c)
           r == Replies(k, c)
           a == ev \o r
           rest == Rest(tx)
<1> SUFFICES Timing(rest, a, n, changed)
  OBVIOUS
<1>0. n = ChipAfter(k, c) /\ r = Replies(k, c) /\ a = ev \o r /\ c = Head(tx) /\ rest = Rest(tx)
  OBVIOUS
<1> HIDE DEF c, n, r, a, rest
<1>1. /\ Timing(rest, ev, k, changed)
      /\ Control(c) \/ IsTiming(c) => \A i \in DOMAIN rest : ~IsTiming(rest[i])
      /\ IsTiming(c) => /\ changed /\ k.timings = 0
                        /\ \A j \in DOMAIN ev : ~IsConnected(ev[j])
  BY <1>0, TimingPop
<1>2. ASSUME r = << >> PROVE a = ev
  BY <1>0, <1>2, ConcatCases
<1>3. ASSUME NEW e, r = << e >>, ~IsConnected(e), n.timings = k.timings,
             n.mode \in Advertising => k.mode \in Advertising
      PROVE  Timing(rest, a, n, changed)
  <2>1. a = Append(ev, e)
    BY <1>0, <1>3, ConcatCases
  <2>2. Timing(rest, Append(ev, e), n, changed)
    BY <1>1, <1>3, TimingAppend
  <2>3. QED
    BY <2>1, <2>2
<1>4. CASE Advertised(k, c, n, r)
  <2>1. Control(c) /\ r = << >> /\ n.timings = k.timings
    BY <1>4 DEF Advertised, Control, SameLink
  <2>2. QED
    BY <1>1, <1>2, <2>1 DEF Timing
<1>5. CASE Fetched(k, c, n, r)
  <2> DEFINE e == [type |-> "DataRead", seqNo |-> k.read + 1,
                   complete |-> k.read + 1 = Chunks]
  <2>1. r = << e >> /\ n.timings = k.timings /\ n.mode = k.mode
    BY <1>5 DEF Fetched, SameLink
  <2>2. ~IsConnected(e)
    BY DEF IsConnected
  <2> HIDE DEF e
  <2>3. QED
    BY <1>3, <2>1, <2>2
<1>6. CASE Written(k, c, n, r)
  <2> DEFINE e == [type |-> "DataWritten", complete |-> k.restored + 1 = Chunks]
  <2>1. r = << e >> /\ n.timings = k.timings /\ n.mode = k.mode
    BY <1>6 DEF Written, SameLink
  <2>2. ~IsConnected(e)
    BY DEF IsConnected
  <2> HIDE DEF e
  <2>3. QED
    BY <1>3, <2>1, <2>2
<1>7. CASE Buffered(k, c, n, r) \/ Other(k, c, n, r)
  <2>1. r = << >> /\ n.timings = k.timings /\ (n.mode = k.mode \/ n.mode = "closing")
    BY <1>7 DEF Buffered, Other, SameLink
  <2>2. n.mode \in Advertising => k.mode \in Advertising
    BY <2>1 DEF Advertising, Connectable
  <2>3. QED
    BY <1>1, <1>2, <2>1, <2>2 DEF Timing
<1>8. CASE Declined(k, c, n, r)
  <2> DEFINE e == [type |-> "PipeError", peer |-> FALSE]
  <2>1. n = k /\ r = << e >> /\ ~IsConnected(e)
    BY <1>8 DEF Declined, IsConnected
  <2> HIDE DEF e
  <2>2. QED
    BY <1>3, <2>1
<1>9. CASE Timed(k, c, n, r)
  <2>1. IsTiming(c) /\ r = << >> /\ n.timings = k.timings + 1
    BY <1>9 DEF Timed
  <2>2. n.timings = 1
    BY <1>1, <2>1
  <2>3. QED
    BY <1>1, <1>2, <2>1, <2>2 DEF Timing
<1>10. \/ Advertised(k, c, n, r) \/ Fetched(k, c, n, r) \/ Written(k, c, n, r)
       \/ Buffered(k, c, n, r) \/ Declined(k, c, n, r) \/ Timed(k, c, n, r)
       \/ Other(k, c, n, r)
  BY <1>0, CommandCases
<1>11. QED
  BY <1>4, <1>5, <1>6, <1>7, <1>8, <1>9, <1>10

(* While the driver believes in a link, no command asks for the next one.  *)
LEMMA CentralTurn ==
  ASSUME NEW tx, NEW ev, NEW k, Turn(tx, ev, k), LinkOrder(ev, k), central
  PROVE  /\ NoControl(tx) /\ k.mode \notin Advertising
         /\ \A j \in DOMAIN ev : ~IsConnected(ev[j])
<1>1. Linked(k) \/ \E i \in DOMAIN ev : Starter(ev[i]) /\ k.mode = "standby"
  BY DEF LinkOrder, Turn, Starter, IsDisconnected
<1>2. NoControl(tx) /\ k.mode \notin Advertising
  BY <1>1 DEF Turn, NoControl, Linked, Advertising, Connectable
<1>3. QED
  BY <1>2 DEF LinkOrder

LEMMA OfLinkHead ==
  ASSUME NEW ev, IsQueue(ev), ev # << >>, NEW k, LinkOrder(ev, k), OfLink(Head(ev))
  PROVE  central
<1>1. 1 \in DOMAIN ev /\ Head(ev) = ev[1] /\ \A j \in DOMAIN ev : j \in Nat /\ ~(j < 1)
  BY RestIndex
<1>2. QED
  BY <1>1 DEF LinkOrder

LEMMA TimingRest ==
  ASSUME NEW o, OutShape(o), NEW n, NEW ev, IsQueue(ev), ev # << >>,
         NEW k, Turn(o.tx, ev, k), LinkOrder(ev, k),
         Timing(o.tx, ev, k, timingChanged), Replied(o, n, Head(ev)),
         IsConnected(Head(ev)) => ~timingChanged',
         ~IsConnected(Head(ev)) => (timingChanged => timingChanged')
  PROVE  Timing(n.tx, Rest(ev), k, timingChanged')
<1> DEFINE r == Rest(ev)
           tx == o.tx
           ux == n.tx
           t == Len(o.tx) + 1
<1>1. /\ \A i \in DOMAIN r : i + 1 \in DOMAIN ev /\ r[i] = ev[i + 1]
      /\ 1 \in DOMAIN ev /\ Head(ev) = ev[1]
  BY RestIndex
<1>2. /\ DOMAIN tx = 1 .. Len(tx) /\ DOMAIN ux = 1 .. Len(ux)
      /\ Len(tx) \in Nat /\ Len(ux) \in Nat /\ t = Len(tx) + 1 /\ Len(tx) <= Len(ux)
      /\ \A i \in 1 .. Len(tx) : ux[i] = tx[i]
  BY QueueFacts DEF Replied, Grows, OutShape
<1>3. \A i \in DOMAIN ux :
        \/ i \in New(o, n) /\ i > Len(tx)
        \/ i \in DOMAIN tx /\ ux[i] = tx[i] /\ i < Len(ux) + 1 /\ i < t
  BY <1>2 DEF New
<1>4. /\ \A i \in New(o, n) : Control(ux[i]) => Starter(Head(ev)) /\ i = Len(ux)
      /\ \A i \in New(o, n) : IsTiming(ux[i]) =>
           Head(ev).type = "PipeStatus" /\ i = t /\ ~timingChanged /\ timingChanged'
      /\ \A i \in New(o, n) : i \in DOMAIN ux /\ i > Len(tx)
  BY <1>2 DEF Replied, New
<1>5. \A i \in DOMAIN ux : i \in Nat /\ i <= Len(ux)
  BY <1>2
<1>6. Timing(tx, ev, k, timingChanged) /\ Turn(tx, ev, k)
  OBVIOUS
<1> SUFFICES Timing(ux, r, k, timingChanged')
  OBVIOUS
<1> HIDE DEF r, tx, ux, t
<1>7. \A j \in DOMAIN r : IsConnected(r[j]) => \E i \in DOMAIN ev : IsConnected(ev[i])
  BY <1>1
<1>8. CASE \E i \in New(o, n) : IsTiming(ux[i])
  <2>1. Head(ev).type = "PipeStatus" /\ ~timingChanged /\ timingChanged'
    BY <1>4, <1>8
  <2>2. OfLink(Head(ev)) /\ ~Starter(Head(ev))
    BY <2>1 DEF OfLink, Starter
  <2>3. /\ NoControl(tx) /\ k.mode \notin Advertising
        /\ \A j \in DOMAIN ev : ~IsConnected(ev[j])
    BY <1>6, <2>2, OfLinkHead, CentralTurn
  <2>4. k.timings = 0 /\ \A i \in DOMAIN tx : ~IsTiming(tx[i])
    BY <1>6, <2>1 DEF Timing
  <2>5. \A i \in DOMAIN ux : ~Control(ux[i])
    BY <1>3, <1>4, <2>2, <2>3 DEF NoControl
  <2>6. \A i, j \in DOMAIN ux : IsTiming(ux[i]) /\ IsTiming(ux[j]) => i = j
    BY <1>3, <1>4, <2>4
  <2>7. QED
    BY <1>7, <2>1, <2>3, <2>4, <2>5, <2>6 DEF Timing
<1>9. CASE \A i \in New(o, n) : ~IsTiming(ux[i])
  <2>1. \A i \in DOMAIN ux :
          IsTiming(ux[i]) => i \in DOMAIN tx /\ IsTiming(tx[i]) /\ i <= Len(tx)
    BY <1>2, <1>3, <1>9
  <2>2. ASSUME NEW i \in DOMAIN ux, NEW j \in DOMAIN ux, IsTiming(ux[i]), Control(ux[j])
        PROVE  i < j
    <3>1. CASE j \in DOMAIN tx /\ ux[j] = tx[j]
      BY <1>6, <2>1, <2>2, <3>1 DEF Timing
    <3>2. CASE j > Len(tx)
      BY <1>2, <1>5, <2>1, <2>2, <3>2
    <3>3. QED
      BY <1>3, <3>1, <3>2
  <2>3. \A i, j \in DOMAIN ux : IsTiming(ux[i]) /\ IsTiming(ux[j]) => i = j
    BY <1>6, <2>1 DEF Timing
  <2>4. CASE IsConnected(Head(ev))
    <3>1. k.timings = 0 /\ \A i \in DOMAIN tx : ~IsTiming(tx[i])
      BY <1>1, <1>6, <2>4 DEF Timing
    <3>2. \A i \in DOMAIN ux : ~IsTiming(ux[i])
      BY <2>1, <3>1
    <3>3. QED
      BY <3>1, <3>2 DEF Timing
  <2>5. CASE ~IsConnected(Head(ev))
    <3>1. timingChanged => timingChanged'
      BY <2>5
    <3>2. /\ \A i \in DOMAIN ux : IsTiming(ux[i]) =>
               timingChanged' /\ k.timings = 0 /\ k.mode \notin Advertising
          /\ k.timings \in {0, 1} /\ (k.timings = 1 => timingChanged')
      BY <1>6, <2>1, <3>1 DEF Timing
    <3>3. /\ \A i \in DOMAIN ux, j \in DOMAIN r : ~(IsTiming(ux[i]) /\ IsConnected(r[j]))
          /\ \A j \in DOMAIN r : IsConnected(r[j]) => k.timings = 0
      BY <1>6, <1>7, <2>1 DEF Timing
    <3>4. QED
      BY <2>2, <2>3, <3>2, <3>3 DEF Timing
  <2>6. QED
    BY <2>4, <2>5
<1>10. QED
  BY <1>8, <1>9

(* A poll in two steps: what holds once the chip has obeyed, and what the  *)
(* handler adds.                                                           *)
LEMMA PollSteps ==
  ASSUME TurnInv, poll
  PROVE  /\ OutShape(out) /\ OutShape(Received) /\ IsQueue(events) /\ ChipShape(chip)
         /\ IsQueue(out.tx) /\ Received.tx = Rest(out.tx) /\ Exchange
         /\ IsQueue(AfterCommand)
         /\ Turn(Received.tx, AfterCommand, chip')
         /\ LinkOrder(AfterCommand, chip')
         /\ events = << >> => out' = Received /\ events' = AfterCommand
         /\ events # << >> =>
              /\ AfterCommand # << >> /\ Head(AfterCommand) = Head(events)
              /\ events' = Rest(AfterCommand)
              /\ Head(events).type # "HwError"
              /\ Replied(Received, out', Head(events))
         /\ out.tx = << >> =>
              /\ AfterCommand = events /\ chip' = chip /\ Rest(out.tx) = out.tx
         /\ out.tx # << >> =>
              /\ AfterCommand = events \o Replies(chip, Head(out.tx))
              /\ chip' = ChipAfter(chip, Head(out.tx))
<1>1. /\ Exchange /\ OutShape(out) /\ IsQueue(events) /\ NoFailure(events)
      /\ IsQueue(out.tx) /\ ChipShape(chip)
  BY PollExchanges DEF TurnInv, NoFailure, OutShape
<1>2. OutShape(Received) /\ Received.tx = Rest(out.tx)
  BY <1>1, ReceivedFacts
<1>3. /\ IsQueue(AfterCommand)
      /\ Turn(Received.tx, AfterCommand, chip')
      /\ LinkOrder(AfterCommand, chip')
  BY <1>1, TurnMid
<1>4. events = << >> => out' = Received /\ events' = AfterCommand
  BY <1>1, Exchanged, DriverSees
<1>5. ASSUME events # << >>
      PROVE  /\ AfterCommand # << >> /\ Head(AfterCommand) = Head(events)
             /\ events' = Rest(AfterCommand)
             /\ Head(events).type # "HwError"
             /\ Replied(Received, out', Head(events))
  <2>1. /\ AfterCommand # << >> /\ Head(AfterCommand) = Head(events)
        /\ events' = Rest(AfterCommand)
    BY <1>1, <1>5, Exchanged
  <2>2. 1 \in DOMAIN events /\ Head(events) = events[1]
    BY <1>1, <1>5, RestIndex
  <2>3. Head(events).type # "HwError"
    BY <1>1, <2>2 DEF NoFailure
  <2>4. Replied(Received, out', Head(events))
    BY <1>1, <1>5, <2>3, PollReplied
  <2>5. QED
    BY <2>1, <2>3, <2>4
<1>6. out.tx = << >> =>
        /\ AfterCommand = events /\ chip' = chip /\ Rest(out.tx) = out.tx
  BY <1>1 DEF Exchange, AfterCommand, Rest
<1>7. out.tx # << >> =>
        /\ AfterCommand = events \o Replies(chip, Head(out.tx))
        /\ chip' = ChipAfter(chip, Head(out.tx))
  BY <1>1 DEF Exchange, AfterCommand
<1>8. QED
  BY <1>1, <1>2, <1>3, <1>4, <1>5, <1>6, <1>7

LEMMA PollTiming ==
  ASSUME TimingInv, poll
  PROVE  TimingInv'
<1>1. TurnInv /\ TurnInv' /\ Timing(out.tx, events, chip, timingChanged)
  BY PollTurn DEF TimingInv
<1>2. Timing(Received.tx, AfterCommand, chip', timingChanged)
  <2>1. CASE out.tx = << >>
    BY <1>1, <2>1, PollSteps
  <2>2. CASE out.tx # << >>
    BY <1>1, <2>2, PollSteps, TimingCommand
  <2>3. QED
    BY <2>1, <2>2
<1>3. CASE events = << >>
  <2>1. out' = Received /\ events' = AfterCommand /\ timingChanged' = timingChanged
    BY <1>1, <1>3, PollSteps, DriverSees DEF link
  <2>2. QED
    BY <1>1, <1>2, <2>1 DEF TimingInv
<1>4. CASE events # << >>
  <2>1. /\ IsConnected(Head(events)) => ~timingChanged'
        /\ ~IsConnected(Head(events)) => (timingChanged => timingChanged')
    BY <1>4, DriverSees
  <2>2. Timing(out'.tx, Rest(AfterCommand), chip', timingChanged')
    BY <1>1, <1>2, <1>4, <2>1, PollSteps, TimingRest
  <2>3. QED
    BY <1>1, <1>4, <2>2, PollSteps DEF TimingInv
<1>5. QED
  BY <1>3, <1>4

LEMMA CallTiming ==
  ASSUME TimingInv, Call
  PROVE  TimingInv'
<1>1. TurnInv' /\ Acts(out, out', "any")
  BY CallTurn DEF TimingInv
<1>2. chip' = chip /\ events' = events /\ timingChanged' = timingChanged
  BY DEF Call, link
<1>3. /\ DOMAIN out.tx = 1 .. Len(out.tx) /\ DOMAIN out'.tx = 1 .. Len(out'.tx)
      /\ Len(out.tx) \in Nat /\ Len(out'.tx) \in Nat
      /\ \A i \in 1 .. Len(out.tx) : out'.tx[i] = out.tx[i]
  BY <1>1, QueueFacts DEF TimingInv, TurnInv, Acts, Grows, OutShape
<1>4. \A i \in DOMAIN out'.tx : Control(out'.tx[i]) \/ IsTiming(out'.tx[i]) =>
        i \in DOMAIN out.tx /\ out'.tx[i] = out.tx[i]
  BY <1>1, <1>3 DEF Acts, New
<1>5. Timing(out'.tx, events, chip, timingChanged)
  BY <1>4 DEF TimingInv, Timing
<1>6. QED
  BY <1>1, <1>2, <1>5 DEF TimingInv

LEMMA TimingEmitted ==
  ASSUME TimingInv, TurnInv', NEW e, Emits(e),
         chip'.mode \in Advertising => chip.mode \in Advertising,
         IsConnected(e) => chip'.timings = 0 /\ chip.mode \in Advertising,
         ~IsConnected(e) => chip'.timings = chip.timings
  PROVE  TimingInv'
<1>1. events' = Append(events, e) /\ out' = out /\ timingChanged' = timingChanged
  BY DEF Emits, link
<1>2. IsQueue(events) /\ Timing(out.tx, events, chip, timingChanged)
  BY DEF TimingInv, TurnInv
<1>3. Timing(out.tx, Append(events, e), chip', timingChanged)
  BY <1>2, TimingAppend
<1>4. QED
  BY <1>1, <1>3 DEF TimingInv

LEMMA ChipTiming ==
  ASSUME TimingInv, ~HwErrors, Chip
  PROVE  TimingInv'
<1> USE DEF IsConnected
<1>1. ChipShape(chip) /\ TurnInv'
  BY ChipTurn DEF TimingInv, TurnInv
<1>2. CASE PeerConnects
  <2>1. chip'.timings = 0 /\ chip'.mode = "connected" /\ chip.mode \in Advertising
    BY <1>1, <1>2 DEF PeerConnects, ChipShape, Advertising
  <2>2. QED
    BY <1>1, <1>2, <2>1, TimingEmitted DEF PeerConnects
<1>3. CASE PeerSetsPipes
  <2>1. PICK pipes, closed :
          /\ chip' = [chip EXCEPT !.open = pipes]
          /\ Emits([type |-> "PipeStatus", open |-> pipes, closed |-> closed])
    BY <1>3 DEF PeerSetsPipes
  <2>2. chip'.timings = chip.timings /\ chip'.mode = chip.mode
    BY <1>1, <2>1 DEF ChipShape
  <2>3. QED
    BY <1>1, <2>1, <2>2, TimingEmitted
<1>4. CASE PeerSends
  <2>1. PICK p, u :
          /\ chip' = [chip EXCEPT !.unacked = u]
          /\ Emits([type |-> "DataReceived", pipe |-> p])
    BY <1>4 DEF PeerSends
  <2>2. chip'.timings = chip.timings /\ chip'.mode = chip.mode
    BY <1>1, <2>1 DEF ChipShape
  <2>3. QED
    BY <1>1, <2>1, <2>2, TimingEmitted
<1>5. CASE PeerTakesData
  <2>1. chip'.timings = chip.timings /\ chip'.mode = chip.mode
    BY <1>1, <1>5 DEF PeerTakesData, ChipShape
  <2>2. QED
    BY <1>1, <1>5, <2>1, TimingEmitted DEF PeerTakesData
<1>6. CASE PeerRefuses
  BY <1>1, <1>6, TimingEmitted DEF PeerRefuses
<1>7. CASE PeerBonds
  <2>1. PICK success, b, t :
          /\ chip' = [chip EXCEPT !.bonded = b, !.toSave = t]
          /\ Emits([type |-> "BondStatus", success |-> success])
    BY <1>7 DEF PeerBonds
  <2>2. chip'.timings = chip.timings /\ chip'.mode = chip.mode
    BY <1>1, <2>1 DEF ChipShape
  <2>3. QED
    BY <1>1, <2>1, <2>2, TimingEmitted
<1>8. CASE LinkEnds
  <2>1. chip'.timings = chip.timings /\ chip'.mode = "standby"
    BY <1>1, <1>8 DEF LinkEnds, Unlinked, ChipShape
  <2>2. chip'.mode \notin Advertising
    BY <2>1 DEF Advertising, Connectable
  <2>3. QED
    BY <1>1, <1>8, <2>1, <2>2, TimingEmitted DEF LinkEnds
<1>9. ~ChipFails
  BY DEF ChipFails
<1>10. QED
  BY <1>2, <1>3, <1>4, <1>5, <1>6, <1>7, <1>8, <1>9 DEF Chip

LEMMA InitTiming == Init => TimingInv
<1> SUFFICES ASSUME Init PROVE TimingInv
  OBVIOUS
<1>1. chip.timings = 0 /\ DOMAIN events = {1} /\ ~IsConnected(events[1])
  BY SingleFacts DEF Init, SetUp, IsConnected
<1>2. DOMAIN out.tx = {1} /\ ~IsTiming(out.tx[1])
  BY BegunFacts DEF Init, IsTiming
<1>3. QED
  BY <1>1, <1>2, InitTurn DEF TimingInv, Timing

LEMMA StepTiming == TimingInv /\ ~HwErrors /\ [Next]_vars => TimingInv'
<1> SUFFICES ASSUME TimingInv, ~HwErrors, [Next]_vars PROVE TimingInv'
  OBVIOUS
<1>1. CASE UNCHANGED vars
  <2>1. TurnInv'
    BY <1>1, StepTurn DEF TimingInv
  <2>2. QED
    BY <1>1, <2>1 DEF vars, link, TimingInv
<1>2. QED
  BY <1>1, CallTiming, PollTiming, ChipTiming DEF Next, Overrun

(* A link's timing is asked to be changed at most once, whatever pipe      *)
(* status events come and however late the commands of the last link reach *)
(* the chip: none is ever so late as to count for the next link.  Until a  *)
(* command is overrun; and a hardware error in the middle of a link would  *)
(* restart the count.                                                      *)
THEOREM TimingOnceAlways == ASSUME ~HwErrors PROVE Spec => []TimingOncePerLink
<1>1. TimingInv => TimingOncePerLink
  BY DEF TimingInv, Timing, TimingOncePerLink
<1>2. Init => TimingInv
  BY InitTiming
<1>3. TimingInv /\ [Next]_vars => TimingInv'
  BY StepTiming
<1>4. QED
  BY <1>1, <1>2, <1>3, PTL DEF Spec

------------------------------------------------------------------------------
(* The bonding data are whole when the chip leaves standby, and the one    *)
(* command or event that has the turn says how far they were written back  *)
(* or read.                                                                *)
Whole(k, seq, data) ==
  /\ data \in {0, Chunks} /\ k.restored \in {0, Chunks}
  /\ seq > 0 => k.restored = Chunks

Bonding(tx, ev, k, seq, data) ==
  /\ seq \in Nat /\ k.restored \in Nat /\ k.read \in 0 .. Chunks - 1
  /\ k.mode # "standby" => Whole(k, seq, data) /\ k.read = 0
  /\ \A i \in DOMAIN tx :
       /\ tx[i][1] \in Advertising => Whole(k, seq, data) /\ k.read = 0
       /\ tx[i][1] = "writeDynamic" => k.restored = seq - 1 /\ data = Chunks /\ k.read = 0
       /\ tx[i][1] = "readDynamic" =>
            k.restored \in {0, Chunks} /\ (seq > 0 => k.restored = Chunks)
  /\ \A j \in DOMAIN ev :
       /\ ev[j].type = "DeviceStarted" =>
            /\ Whole(k, seq, data) /\ k.read = 0 /\ k.restored = 0 /\ seq = 0
            /\ ~ev[j].hwError
       /\ ev[j].type = "Disconnected" => Whole(k, seq, data) /\ k.read = 0
       /\ ev[j].type = "DataWritten" =>
            /\ k.restored = seq /\ data = Chunks /\ k.read = 0
            /\ ev[j].complete => k.restored = Chunks
       /\ ev[j].type = "DataRead" =>
            /\ k.restored \in {0, Chunks} /\ (seq > 0 => k.restored = Chunks)
            /\ ev[j].complete => ev[j].seqNo = Chunks /\ k.read = 0

BondingInv == TurnInv /\ Bonding(out.tx, events, chip, sequenceNo, stored)

LEMMA NextRead ==
  ASSUME NEW x \in 0 .. Chunks - 1
  PROVE  /\ (x + 1) % Chunks \in 0 .. Chunks - 1
         /\ x + 1 = Chunks => (x + 1) % Chunks = 0
<1>1. Chunks \in Nat /\ Chunks > 0
  BY ChunksAssumption
<1>2. CASE x + 1 = Chunks
  <2>1. Chunks % Chunks = 0
    BY <1>1
  <2>2. QED
    BY <1>1, <1>2, <2>1
<1>3. CASE x + 1 # Chunks
  <2>1. x + 1 \in 0 .. Chunks - 1
    BY <1>1, <1>3
  <2>2. (x + 1) % Chunks = x + 1
    BY <1>1, <2>1
  <2>3. QED
    BY <1>3, <2>1, <2>2
<1>4. QED
  BY <1>2, <1>3

(* A command that is not about the data, or an event that is not, changes  *)
(* nothing.                                                                *)
LEMMA BondingKept ==
  ASSUME NEW tx, NEW ux, NEW ev, NEW fv, NEW k, NEW n, NEW seq, NEW data,
         Bonding(tx, ev, k, seq, data), SameData(k, n),
         n.mode # "standby" => k.mode # "standby",
         \A i \in DOMAIN ux : Control(ux[i]) => \E j \in DOMAIN tx : ux[i] = tx[j],
         \A i \in DOMAIN fv : Starter(fv[i]) =>
           (\E j \in DOMAIN ev : fv[i] = ev[j])
             \/ (fv[i].type = "Disconnected" /\ k.mode # "standby")
  PROVE  Bonding(ux, fv, n, seq, data)
<1>1. n.read = k.read /\ n.restored = k.restored
  BY DEF SameData
<1>2. Whole(n, seq, data) <=> Whole(k, seq, data)
  BY <1>1 DEF Whole
<1>3. ASSUME NEW i \in DOMAIN ux
      PROVE  /\ ux[i][1] \in Advertising => Whole(n, seq, data) /\ n.read = 0
             /\ ux[i][1] = "writeDynamic" =>
                  n.restored = seq - 1 /\ data = Chunks /\ n.read = 0
             /\ ux[i][1] = "readDynamic" =>
                  n.restored \in {0, Chunks} /\ (seq > 0 => n.restored = Chunks)
  <2>1. CASE Control(ux[i])
    <3>1. PICK j \in DOMAIN tx : ux[i] = tx[j]
      BY <1>3, <2>1
    <3>2. QED
      BY <1>1, <1>2, <3>1 DEF Bonding
  <2>2. CASE ~Control(ux[i])
    BY <2>2 DEF Control
  <2>3. QED
    BY <2>1, <2>2
<1>4. ASSUME NEW i \in DOMAIN fv
      PROVE  /\ fv[i].type = "DeviceStarted" =>
                  /\ Whole(n, seq, data) /\ n.read = 0 /\ n.restored = 0 /\ seq = 0
                  /\ ~fv[i].hwError
             /\ fv[i].type = "Disconnected" => Whole(n, seq, data) /\ n.read = 0
             /\ fv[i].type = "DataWritten" =>
                  /\ n.restored = seq /\ data = Chunks /\ n.read = 0
                  /\ fv[i].complete => n.restored = Chunks
             /\ fv[i].type = "DataRead" =>
                  /\ n.restored \in {0, Chunks} /\ (seq > 0 => n.restored = Chunks)
                  /\ fv[i].complete => fv[i].seqNo = Chunks /\ n.read = 0
  <2>1. CASE Starter(fv[i])
    <3>1. CASE \E j \in DOMAIN ev : fv[i] = ev[j]
      <4>1. PICK j \in DOMAIN ev : fv[i] = ev[j]
        BY <3>1
      <4>2. QED
        BY <1>1, <1>2, <4>1 DEF Bonding
    <3>2. CASE fv[i].type = "Disconnected" /\ k.mode # "standby"
      BY <1>1, <1>2, <3>2 DEF Bonding
    <3>3. QED
      BY <1>4, <2>1, <3>1, <3>2
  <2>2. CASE ~Starter(fv[i])
    BY <2>2 DEF Starter
  <2>3. QED
    BY <2>1, <2>2
<1>5. /\ seq \in Nat /\ n.restored \in Nat /\ n.read \in 0 .. Chunks - 1
      /\ n.mode # "standby" => Whole(n, seq, data) /\ n.read = 0
  BY <1>1, <1>2 DEF Bonding
<1>6. QED
  BY <1>3, <1>4, <1>5 DEF Bonding

LEMMA BondingCommand ==
  ASSUME NEW tx, IsQueue(tx), tx # << >>, NEW ev, IsQueue(ev), NEW k, ChipShape(k),
         NEW seq, NEW data, Turn(tx, ev, k), Bonding(tx, ev, k, seq, data)
  PROVE  Bonding(Rest(tx), ev \o Replies(k, Head(tx)), ChipAfter(k, Head(tx)), seq, data)
<1> DEFINE c == Head(tx)
           n == ChipAfter(k, c)
           r == Replies(k, c)
           a == ev \o r
           rest == Rest(tx)
<1> SUFFICES Bonding(rest, a, n, seq, data)
  OBVIOUS
<1>0. n = ChipAfter(k, c) /\ r = Replies(k, c) /\ a = ev \o r /\ c = Head(tx) /\ rest = Rest(tx)
  OBVIOUS
<1> HIDE DEF c, n, r, a, rest
<1>1. /\ Turn(rest, ev, k)
      /\ Control(c) => NoControl(rest) /\ NoStarter(ev) /\ k.mode = "standby"
  BY <1>0, TurnPop
<1>2. /\ \A i \in DOMAIN rest : i + 1 \in DOMAIN tx /\ rest[i] = tx[i + 1]
      /\ 1 \in DOMAIN tx /\ c = tx[1]
  BY <1>0, RestIndex
<1>3. ASSUME r = << >> PROVE a = ev
  BY <1>0, <1>3, ConcatCases
<1>4. ASSUME NEW e, r = << e >>
      PROVE  \A i \in DOMAIN a : a[i] = e \/ (i \in DOMAIN ev /\ a[i] = ev[i])
  <2>1. a = Append(ev, e)
    BY <1>0, <1>4, ConcatCases
  <2>2. /\ DOMAIN a = 1 .. Len(ev) + 1 /\ a[Len(ev) + 1] = e
        /\ \A i \in 1 .. Len(ev) : a[i] = ev[i]
        /\ DOMAIN ev = 1 .. Len(ev) /\ Len(ev) \in Nat
    BY <2>1, AppendFacts, QueueFacts
  <2>3. QED
    BY <2>2
<1>5. CASE Advertised(k, c, n, r)
  <2>1. /\ Control(c) /\ c[1] \in Advertising /\ r = << >>
        /\ n.read = k.read /\ n.restored = k.restored
    BY <1>5 DEF Advertised, Control, SameData
  <2>2. Whole(k, seq, data) /\ k.read = 0
    BY <1>2, <2>1 DEF Bonding
  <2>3. Whole(n, seq, data) /\ n.read = 0
    BY <2>1, <2>2 DEF Whole
  <2>4. /\ \A i \in DOMAIN rest : ~Control(rest[i])
        /\ \A j \in DOMAIN a : ~Starter(a[j])
    BY <1>1, <1>3, <2>1 DEF NoControl, NoStarter
  <2>5. seq \in Nat /\ n.restored \in Nat /\ n.read \in 0 .. Chunks - 1
    BY <2>1 DEF Bonding
  <2>6. QED
    BY <2>3, <2>4, <2>5 DEF Bonding, Control, Starter
<1>6. CASE Fetched(k, c, n, r)
  <2> DEFINE e == [type |-> "DataRead", seqNo |-> k.read + 1,
                   complete |-> k.read + 1 = Chunks]
  <2>1. /\ Control(c) /\ c[1] = "readDynamic" /\ r = << e >> /\ n.mode = "standby"
        /\ n.read = (k.read + 1) % Chunks /\ n.restored = k.restored
    BY <1>6 DEF Fetched, Control
  <2>2. /\ e.type = "DataRead" /\ e.seqNo = k.read + 1
        /\ e.complete <=> k.read + 1 = Chunks
    OBVIOUS
  <2> HIDE DEF e
  <2>3. /\ n.restored \in {0, Chunks} /\ (seq > 0 => n.restored = Chunks)
        /\ seq \in Nat /\ n.restored \in Nat
    BY <1>2, <2>1 DEF Bonding
  <2>4. /\ n.read \in 0 .. Chunks - 1
        /\ e.complete => e.seqNo = Chunks /\ n.read = 0
    <3>1. k.read \in 0 .. Chunks - 1
      BY DEF Bonding
    <3>2. QED
      BY <2>1, <2>2, <3>1, NextRead
  <2>5. /\ \A i \in DOMAIN rest : ~Control(rest[i])
        /\ \A j \in DOMAIN a : a[j] = e \/ ~Starter(a[j])
    BY <1>1, <1>4, <2>1 DEF NoControl, NoStarter
  <2>6. QED
    BY <2>1, <2>2, <2>3, <2>4, <2>5 DEF Bonding, Control, Starter
<1>7. CASE Written(k, c, n, r)
  <2> DEFINE e == [type |-> "DataWritten", complete |-> k.restored + 1 = Chunks]
  <2>1. /\ Control(c) /\ c[1] = "writeDynamic" /\ r = << e >> /\ n.mode = "standby"
        /\ n.read = k.read /\ n.restored = k.restored + 1
    BY <1>7 DEF Written, Control
  <2>2. e.type = "DataWritten" /\ (e.complete => k.restored + 1 = Chunks)
    OBVIOUS
  <2> HIDE DEF e
  <2>3. /\ k.restored = seq - 1 /\ data = Chunks /\ n.read = 0
        /\ seq \in Nat /\ k.restored \in Nat /\ n.read \in 0 .. Chunks - 1
    BY <1>2, <2>1 DEF Bonding
  <2>4. n.restored = seq /\ n.restored \in Nat
    BY <2>1, <2>3
  <2>5. /\ \A i \in DOMAIN rest : ~Control(rest[i])
        /\ \A j \in DOMAIN a : a[j] = e \/ ~Starter(a[j])
    BY <1>1, <1>4, <2>1 DEF NoControl, NoStarter
  <2>6. QED
    BY <2>1, <2>2, <2>3, <2>4, <2>5 DEF Bonding, Control, Starter
<1>8. CASE Buffered(k, c, n, r) \/ Timed(k, c, n, r) \/ Other(k, c, n, r)
  <2>1. /\ r = << >> /\ SameData(k, n)
        /\ n.mode # "standby" => k.mode # "standby"
    BY <1>8 DEF Buffered, Timed, Other
  <2>2. a = ev
    BY <1>3, <2>1
  <2>3. QED
    BY <1>2, <2>1, <2>2, BondingKept
<1>9. CASE Declined(k, c, n, r)
  <2> DEFINE e == [type |-> "PipeError", peer |-> FALSE]
  <2>1. n = k /\ r = << e >> /\ ~Starter(e)
    BY <1>9 DEF Declined, Starter
  <2> HIDE DEF e
  <2>2. SameData(k, n)
    BY <2>1 DEF SameData
  <2>3. \A i \in DOMAIN a : Starter(a[i]) => \E j \in DOMAIN ev : a[i] = ev[j]
    BY <1>4, <2>1
  <2>4. QED
    BY <1>2, <2>1, <2>2, <2>3, BondingKept
<1>10. \/ Advertised(k, c, n, r) \/ Fetched(k, c, n, r) \/ Written(k, c, n, r)
       \/ Buffered(k, c, n, r) \/ Declined(k, c, n, r) \/ Timed(k, c, n, r)
       \/ Other(k, c, n, r)
  BY <1>0, CommandCases
<1>11. QED
  BY <1>5, <1>6, <1>7, <1>8, <1>9, <1>10

(* The control command a starter is answered with.                         *)
Asks(o, n, ops) == \A i \in New(o, n) : Control(n.tx[i]) => n.tx[i][1] \in ops

LEMMA SentAsks ==
  ASSUME NEW o, OutShape(o), NEW n, NEW how, Acts(o, n, how)
  PROVE  /\ \A cmd : Asks(o, Sent(n, cmd), {cmd[1]})
         /\ \A b : Asks(o, startAdvertising(n, b), Advertising)
<1>1. OutShape(n) /\ Grows(o, n)
  BY ActsShape
<1>2. ASSUME NEW cmd
      PROVE  \A i \in New(o, Sent(n, cmd)) :
               Control(Sent(n, cmd).tx[i]) => Sent(n, cmd).tx[i] = cmd
  <2> DEFINE q == Sent(n, cmd)
  <2>1. /\ Grows(n, q)
        /\ \A i \in New(n, q) : q.tx[i] = cmd
    BY <1>1, SentFacts
  <2> HIDE DEF q
  <2>2. Len(o.tx) \in Nat /\ Len(n.tx) \in Nat /\ Len(q.tx) \in Nat
    BY <1>1, <2>1, QueueFacts DEF Grows, OutShape
  <2>3. \A i \in New(o, q) : i \in New(n, q) \/ (i \in New(o, n) /\ q.tx[i] = n.tx[i])
    BY <1>1, <2>1, <2>2 DEF New, Grows
  <2>4. \A i \in New(o, n) : ~Control(n.tx[i])
    BY DEF Acts
  <2>5. \A i \in New(o, q) : Control(q.tx[i]) => q.tx[i] = cmd
    BY <2>1, <2>3, <2>4
  <2>6. QED
    BY <2>5 DEF q
<1>3. \A cmd : Asks(o, Sent(n, cmd), {cmd[1]})
  BY <1>2 DEF Asks
<1>4. ASSUME NEW b PROVE Asks(o, startAdvertising(n, b), Advertising)
  <2>1. PICK cmd : cmd[1] \in Advertising /\ startAdvertising(n, b) = Sent(n, cmd)
    BY AdvertisingIsControl
  <2>2. QED
    BY <1>2, <2>1 DEF Asks
<1>5. QED
  BY <1>3, <1>4

LEMMA SameAsks ==
  ASSUME NEW o, NEW q, q.tx = o.tx, NEW n, NEW ops, Asks(q, n, ops)
  PROVE  Asks(o, n, ops)
BY DEF Asks, New

LEMMA Answers ==
  ASSUME OutShape(out), poll, events # << >>, Head(events).type # "HwError",
         Head(events).type = "DeviceStarted" => ~Head(events).hwError
  PROVE  /\ Head(events).type \in {"DeviceStarted", "Disconnected", "DataWritten"}
              => stored' = stored
         /\ Head(events).type = "DeviceStarted" =>
              \/ hasData /\ sequenceNo' = 1 /\ Asks(Received, out', {"writeDynamic"})
              \/ ~hasData /\ sequenceNo' = sequenceNo /\ Asks(Received, out', Advertising)
         /\ Head(events).type = "Disconnected" =>
              /\ sequenceNo' = sequenceNo
              /\ storeDynamicData => Asks(Received, out', {"readDynamic"})
              /\ ~storeDynamicData => Asks(Received, out', Advertising)
         /\ Head(events).type = "DataRead" =>
              /\ sequenceNo' = sequenceNo /\ stored' = Head(events).seqNo
              /\ \/ Head(events).complete /\ Asks(Received, out', Advertising)
                 \/ ~Head(events).complete /\ Asks(Received, out', {"readDynamic"})
         /\ Head(events).type = "DataWritten" =>
              \/ /\ Head(events).complete /\ sequenceNo' = sequenceNo
                 /\ Asks(Received, out', Advertising)
              \/ /\ ~Head(events).complete /\ sequenceNo' = sequenceNo + 1
                 /\ Asks(Received, out', {"writeDynamic"})
         /\ ~Starter(Head(events)) => UNCHANGED <<sequenceNo, stored>>
<1>1. OutShape(Received) /\ Acts(Received, Received, "any")
  <2>1. OutShape(Received)
    BY ReceivedFacts
  <2>2. QED
    BY <2>1, FieldActs
<1>2. /\ \A b : Asks(Received, startAdvertising(Received, b), Advertising)
      /\ \A op, p : Asks(Received, Sent(Received, <<op, p>>), {op})
  <2>1. \A cmd : Asks(Received, Sent(Received, cmd), {cmd[1]})
    BY <1>1, SentAsks
  <2>2. \A op, p : <<op, p>>[1] = op
    OBVIOUS
  <2>3. \A op, p : Asks(Received, Sent(Received, <<op, p>>), {op})
    <3> TAKE op, p
    <3>1. Asks(Received, Sent(Received, <<op, p>>), {<<op, p>>[1]})
      BY <2>1
    <3>2. QED
      BY <3>1
  <2>4. QED
    BY <1>1, <2>3, SentAsks
<1> USE DEF Gets, Starter, bonding
<1>3. CASE NoEvent
  BY <1>3 DEF NoEvent
<1>4. CASE DeviceStarted
  BY <1>2, <1>4 DEF DeviceStarted
<1>5. CASE DataRead
  BY <1>2, <1>5 DEF DataRead
<1>6. CASE DataWritten
  BY <1>2, <1>6 DEF DataWritten
<1>7. CASE Connected
  BY <1>7 DEF Connected
<1>8. CASE PipeStatus
  BY <1>8 DEF PipeStatus
<1>9. CASE Disconnected
  <2> DEFINE updated == lib_aci_event_get(Received)
  <2>1. PICK o \in AfterUnlink(updated) :
          out' = IF storeDynamicData THEN Sent(o, <<"readDynamic", 0>>)
                 ELSE startAdvertising(o, hasData)
    BY <1>9 DEF Disconnected
  <2>2. OutShape(updated) /\ updated.tx = Received.tx
    BY <1>1, EventGetFacts
  <2> HIDE DEF updated
  <2>3. \E flags, subs : o \in AfterHandler("Disconnected", updated, flags, subs)
    BY DEF AfterUnlink
  <2>4. Acts(updated, o, "any")
    BY <2>2, <2>3, HandlerActs, AnyFits
  <2>5. Asks(updated, startAdvertising(o, hasData), Advertising)
    BY <2>2, <2>4, SentAsks
  <2>6. Asks(updated, Sent(o, <<"readDynamic", 0>>), {"readDynamic"})
    <3>1. Asks(updated, Sent(o, <<"readDynamic", 0>>), {<<"readDynamic", 0>>[1]})
      BY <2>2, <2>4, SentAsks
    <3>2. QED
      BY <3>1
  <2>7. /\ storeDynamicData => Asks(Received, out', {"readDynamic"})
        /\ ~storeDynamicData => Asks(Received, out', Advertising)
    BY <2>1, <2>2, <2>5, <2>6, SameAsks
  <2>8. Head(events).type = "Disconnected" /\ UNCHANGED <<sequenceNo, stored>>
    BY <1>9 DEF Disconnected
  <2>9. QED
    BY <2>7, <2>8
<1>10. CASE BondStatus
  BY <1>10 DEF BondStatus
<1>11. CASE DataReceived
  BY <1>11 DEF DataReceived
<1>12. CASE DataCredit
  BY <1>12 DEF DataCredit
<1>13. CASE PipeError
  BY <1>13 DEF PipeError
<1>14. CASE HwError
  BY <1>14 DEF HwError
<1>15. QED
  BY <1>3, <1>4, <1>5, <1>6, <1>7, <1>8, <1>9, <1>10, <1>11, <1>12, <1>13, <1>14 DEF poll

(* Once the chip has obeyed the command of a poll.                         *)
LEMMA BondingMid ==
  ASSUME BondingInv, poll
  PROVE  Bonding(Received.tx, AfterCommand, chip', sequenceNo, stored)
<1>1. TurnInv /\ Bonding(out.tx, events, chip, sequenceNo, stored)
  BY DEF BondingInv
<1>2. CASE out.tx = << >>
  BY <1>1, <1>2, PollSteps
<1>3. CASE out.tx # << >>
  BY <1>1, <1>3, PollSteps, BondingCommand DEF TurnInv
<1>4. QED
  BY <1>2, <1>3

LEMMA PollBonding ==
  ASSUME BondingInv, poll
  PROVE  BondingInv'
<1> DEFINE tx == Received.tx
           ev == AfterCommand
           k == chip'
           e == Head(events)
<1>1. TurnInv /\ TurnInv' /\ Bonding(out.tx, events, chip, sequenceNo, stored)
  BY PollTurn DEF BondingInv
<1>2. Bonding(tx, ev, k, sequenceNo, stored)
  BY BondingMid
<1>3. CASE events = << >>
  <2>1. /\ out' = Received /\ events' = AfterCommand
        /\ sequenceNo' = sequenceNo /\ stored' = stored
    BY <1>1, <1>3, PollSteps, DriverSees DEF bonding
  <2>2. QED
    BY <1>1, <1>2, <2>1 DEF BondingInv
<1>4. CASE events # << >>
  <2>1. /\ OutShape(out) /\ OutShape(Received) /\ IsQueue(ev) /\ ev # << >>
        /\ Head(ev) = e /\ events' = Rest(ev) /\ e.type # "HwError"
        /\ Replied(Received, out', e) /\ Turn(tx, ev, k)
    BY <1>1, <1>4, PollSteps
  <2>2. OutShape(out')
    BY <2>1 DEF Replied, Grows
  <2>3. /\ 1 \in DOMAIN ev /\ e = ev[1]
        /\ \A i \in DOMAIN events' : i \in Nat /\ i > 0 /\ i + 1 \in DOMAIN ev
                                     /\ events'[i] = ev[i + 1]
    BY <2>1, RestIndex
  <2>4. \A i \in DOMAIN out'.tx :
          i \in New(Received, out') \/ (i \in DOMAIN tx /\ out'.tx[i] = tx[i])
    BY <2>1, <2>2, QueueFacts DEF New, Replied, Grows, OutShape
  <2>5. e.type = "DeviceStarted" => ~e.hwError
    BY <1>2, <2>3 DEF Bonding
  <2>6. CASE ~Starter(e)
    <3>1. sequenceNo' = sequenceNo /\ stored' = stored
      BY <1>4, <2>1, <2>5, <2>6, Answers
    <3>2. \A i \in DOMAIN out'.tx : Control(out'.tx[i]) => \E j \in DOMAIN tx : out'.tx[i] = tx[j]
      BY <2>1, <2>4, <2>6 DEF Replied
    <3>3. \A i \in DOMAIN events' : \E j \in DOMAIN ev : events'[i] = ev[j]
      BY <2>3
    <3>4. SameData(k, k) /\ (k.mode # "standby" => k.mode # "standby")
      BY DEF SameData
    <3> HIDE DEF tx, ev, k
    <3>5. Bonding(out'.tx, events', k, sequenceNo, stored)
      BY <1>2, <3>2, <3>3, <3>4, BondingKept
    <3>6. QED
      BY <1>1, <3>1, <3>5 DEF BondingInv, k
  <2>7. CASE Starter(e)
    <3>1. \A j \in DOMAIN events' : ~Starter(events'[j])
      <4> SUFFICES ASSUME NEW j \in DOMAIN events', Starter(events'[j]) PROVE FALSE
        OBVIOUS
      <4>1. j + 1 \in DOMAIN ev /\ Starter(ev[j + 1]) /\ j \in Nat /\ j > 0
        BY <2>3
      <4>2. j + 1 = 1
        BY <2>1, <2>3, <2>7, <4>1 DEF Turn
      <4>3. QED
        BY <4>1, <4>2
    <3>2. k.mode = "standby" /\ \A i \in DOMAIN tx : ~Control(tx[i])
      BY <2>1, <2>3, <2>7 DEF Turn
    <3>3. \A i \in DOMAIN out'.tx : Control(out'.tx[i]) => i \in New(Received, out')
      BY <2>4, <3>2
    <3>4. ASSUME NEW ops, Asks(Received, out', ops), NEW i \in DOMAIN out'.tx,
                 Control(out'.tx[i])
          PROVE  out'.tx[i][1] \in ops
      BY <3>3, <3>4 DEF Asks
    <3>5. ASSUME NEW seq, NEW data,
                 seq \in Nat,
                 \/ Asks(Received, out', Advertising) /\ Whole(k, seq, data) /\ k.read = 0
                 \/ /\ Asks(Received, out', {"writeDynamic"})
                    /\ k.restored = seq - 1 /\ data = Chunks /\ k.read = 0
                 \/ /\ Asks(Received, out', {"readDynamic"})
                    /\ k.restored \in {0, Chunks} /\ (seq > 0 => k.restored = Chunks)
          PROVE  Bonding(out'.tx, events', k, seq, data)
      <4>1. "writeDynamic" \notin Advertising /\ "readDynamic" \notin Advertising
        BY DEF Advertising, Connectable
      <4>2. \A i \in DOMAIN out'.tx :
              /\ out'.tx[i][1] \in Advertising => Whole(k, seq, data) /\ k.read = 0
              /\ out'.tx[i][1] = "writeDynamic" =>
                   k.restored = seq - 1 /\ data = Chunks /\ k.read = 0
              /\ out'.tx[i][1] = "readDynamic" =>
                   k.restored \in {0, Chunks} /\ (seq > 0 => k.restored = Chunks)
        <5>1. CASE Asks(Received, out', Advertising) /\ Whole(k, seq, data) /\ k.read = 0
          BY <3>4, <4>1, <5>1 DEF Control
        <5>2. CASE /\ Asks(Received, out', {"writeDynamic"})
                   /\ k.restored = seq - 1 /\ data = Chunks /\ k.read = 0
          BY <3>4, <4>1, <5>2 DEF Control
        <5>3. CASE /\ Asks(Received, out', {"readDynamic"})
                   /\ k.restored \in {0, Chunks} /\ (seq > 0 => k.restored = Chunks)
          BY <3>4, <4>1, <5>3 DEF Control
        <5>4. QED
          BY <3>5, <5>1, <5>2, <5>3
      <4>3. k.restored \in Nat /\ k.read \in 0 .. Chunks - 1
        BY <1>2 DEF Bonding
      <4>4. QED
        BY <3>1, <3>2, <3>5, <4>2, <4>3 DEF Bonding, Starter
    <3>6. Bonding(out'.tx, events', k, sequenceNo', stored')
      <4>1. sequenceNo \in Nat
        BY <1>2 DEF Bonding
      <4>2. CASE e.type = "DeviceStarted"
        <5>1. /\ Whole(k, sequenceNo, stored) /\ k.read = 0 /\ k.restored = 0
              /\ sequenceNo = 0 /\ stored' = stored
          BY <1>2, <1>4, <2>1, <2>3, <2>5, <4>2, Answers DEF Bonding
        <5>2. CASE hasData /\ sequenceNo' = 1 /\ Asks(Received, out', {"writeDynamic"})
          <6>1. stored' = Chunks /\ k.restored = sequenceNo' - 1
            BY <5>1, <5>2 DEF Whole, hasData
          <6>2. QED
            BY <3>5, <5>1, <5>2, <6>1
        <5>3. CASE ~hasData /\ sequenceNo' = sequenceNo /\ Asks(Received, out', Advertising)
          BY <3>5, <4>1, <5>1, <5>3
        <5>4. QED
          BY <1>4, <2>1, <2>5, <4>2, <5>2, <5>3, Answers
      <4>3. CASE e.type = "Disconnected"
        <5>1. /\ Whole(k, sequenceNo, stored) /\ k.read = 0
              /\ sequenceNo' = sequenceNo /\ stored' = stored
              /\ Asks(Received, out', {"readDynamic"}) \/ Asks(Received, out', Advertising)
          BY <1>2, <1>4, <2>1, <2>3, <4>3, Answers DEF Bonding
        <5>2. k.restored \in {0, Chunks} /\ (sequenceNo > 0 => k.restored = Chunks)
          BY <5>1 DEF Whole
        <5>3. QED
          BY <3>5, <4>1, <5>1, <5>2
      <4>4. CASE e.type = "DataRead"
        <5>1. /\ k.restored \in {0, Chunks} /\ (sequenceNo > 0 => k.restored = Chunks)
              /\ e.complete => e.seqNo = Chunks /\ k.read = 0
          BY <1>2, <2>3, <4>4 DEF Bonding
        <5>2. /\ sequenceNo' = sequenceNo /\ stored' = e.seqNo
              /\ \/ e.complete /\ Asks(Received, out', Advertising)
                 \/ Asks(Received, out', {"readDynamic"})
          BY <1>4, <2>1, <4>4, Answers
        <5>3. CASE e.complete /\ Asks(Received, out', Advertising)
          <6>1. Whole(k, sequenceNo', stored') /\ k.read = 0
            BY <5>1, <5>2, <5>3 DEF Whole
          <6>2. QED
            BY <3>5, <4>1, <5>2, <5>3, <6>1
        <5>4. CASE Asks(Received, out', {"readDynamic"})
          BY <3>5, <4>1, <5>1, <5>2, <5>4
        <5>5. QED
          BY <5>2, <5>3, <5>4
      <4>5. CASE e.type = "DataWritten"
        <5>1. /\ k.restored = sequenceNo /\ stored = Chunks /\ k.read = 0
              /\ e.complete => k.restored = Chunks
          BY <1>2, <2>3, <4>5 DEF Bonding
        <5>2. /\ stored' = stored
              /\ \/ /\ e.complete /\ sequenceNo' = sequenceNo
                    /\ Asks(Received, out', Advertising)
                 \/ sequenceNo' = sequenceNo + 1 /\ Asks(Received, out', {"writeDynamic"})
          BY <1>4, <2>1, <4>5, Answers
        <5>3. CASE e.complete /\ sequenceNo' = sequenceNo /\ Asks(Received, out', Advertising)
          <6>1. Whole(k, sequenceNo', stored')
            BY <5>1, <5>2, <5>3 DEF Whole
          <6>2. QED
            BY <3>5, <4>1, <5>1, <5>3, <6>1
        <5>4. CASE sequenceNo' = sequenceNo + 1 /\ Asks(Received, out', {"writeDynamic"})
          <6>1. k.restored = sequenceNo' - 1 /\ sequenceNo' \in Nat
            BY <4>1, <5>1, <5>4
          <6>2. QED
            BY <3>5, <5>1, <5>2, <5>4, <6>1
        <5>5. QED
          BY <5>2, <5>3, <5>4
      <4>6. QED
        BY <2>7, <4>2, <4>3, <4>4, <4>5 DEF Starter
    <3>7. QED
      BY <1>1, <3>6 DEF BondingInv
  <2>8. QED
    BY <2>6, <2>7
<1>5. QED
  BY <1>3, <1>4

LEMMA ActsBonding ==
  ASSUME BondingInv, Acts(out, out', "any"),
         UNCHANGED <<chip, events, central, subscribed, sequenceNo, stored>>
  PROVE  /\ BondingInv'
         /\ \A i \in DOMAIN out'.tx :
              Control(out'.tx[i]) => \E j \in DOMAIN out.tx : out'.tx[i] = out.tx[j]
<1>1. TurnInv'
  BY ActsTurn DEF BondingInv
<1>2. chip' = chip /\ events' = events /\ sequenceNo' = sequenceNo /\ stored' = stored
  OBVIOUS
<1>3. /\ DOMAIN out.tx = 1 .. Len(out.tx) /\ DOMAIN out'.tx = 1 .. Len(out'.tx)
      /\ Len(out.tx) \in Nat /\ Len(out'.tx) \in Nat
      /\ \A i \in 1 .. Len(out.tx) : out'.tx[i] = out.tx[i]
  BY <1>1, QueueFacts DEF BondingInv, TurnInv, Acts, Grows, OutShape
<1>4. \A i \in DOMAIN out'.tx : Control(out'.tx[i]) => \E j \in DOMAIN out.tx : out'.tx[i] = out.tx[j]
  BY <1>1, <1>3 DEF Acts, New
<1>5. /\ SameData(chip, chip) /\ (chip.mode # "standby" => chip.mode # "standby")
      /\ \A i \in DOMAIN events : \E j \in DOMAIN events : events[i] = events[j]
  BY DEF SameData
<1>6. Bonding(out'.tx, events, chip, sequenceNo, stored)
  BY <1>4, <1>5, BondingKept DEF BondingInv
<1>7. QED
  BY <1>1, <1>2, <1>4, <1>6 DEF BondingInv

LEMMA CallBonding ==
  ASSUME BondingInv, Call
  PROVE  BondingInv'
<1>1. Acts(out, out', "any")
  BY CallTurn DEF BondingInv
<1>2. UNCHANGED <<chip, events, central, subscribed, sequenceNo, stored>>
  BY DEF Call, bonding
<1>3. QED
  BY <1>1, <1>2, ActsBonding

LEMMA BondingEmitted ==
  ASSUME BondingInv, TurnInv', NEW e, Emits(e), chip.mode # "standby",
         SameData(chip, chip'), Starter(e) => e.type = "Disconnected"
  PROVE  BondingInv'
<1>1. /\ events' = Append(events, e) /\ out' = out
      /\ sequenceNo' = sequenceNo /\ stored' = stored
  BY DEF Emits, bonding
<1>2. IsQueue(events) /\ Bonding(out.tx, events, chip, sequenceNo, stored)
  BY DEF BondingInv, TurnInv
<1>3. /\ DOMAIN events' = 1 .. Len(events) + 1 /\ events'[Len(events) + 1] = e
      /\ \A i \in 1 .. Len(events) : events'[i] = events[i]
      /\ DOMAIN events = 1 .. Len(events) /\ Len(events) \in Nat
  BY <1>1, <1>2, AppendFacts, QueueFacts
<1>4. \A i \in DOMAIN events' : events'[i] = e \/ \E j \in DOMAIN events : events'[i] = events[j]
  BY <1>3
<1>5. \A i \in DOMAIN events' : Starter(events'[i]) =>
        \/ \E j \in DOMAIN events : events'[i] = events[j]
        \/ events'[i].type = "Disconnected" /\ chip.mode # "standby"
  BY <1>4
<1>6. \A i \in DOMAIN out.tx : Control(out.tx[i]) => \E j \in DOMAIN out.tx : out.tx[i] = out.tx[j]
  OBVIOUS
<1>7. Bonding(out.tx, events', chip', sequenceNo, stored)
  BY <1>2, <1>5, <1>6, BondingKept
<1>8. QED
  BY <1>1, <1>7 DEF BondingInv

LEMMA PeerBonding ==
  ASSUME BondingInv, Undisturbed
  PROVE  BondingInv'
<1> USE DEF Starter, SameData, Connectable
<1>1. ChipShape(chip) /\ TurnInv'
  BY PeerTurn DEF BondingInv, TurnInv
<1>2. CASE PeerConnects
  <2>1. SameData(chip, chip') /\ chip.mode # "standby"
    BY <1>1, <1>2 DEF PeerConnects, ChipShape
  <2>2. QED
    BY <1>1, <1>2, <2>1, BondingEmitted DEF PeerConnects
<1>3. CASE PeerSetsPipes
  <2>1. PICK pipes, closed :
          /\ chip' = [chip EXCEPT !.open = pipes]
          /\ Emits([type |-> "PipeStatus", open |-> pipes, closed |-> closed])
    BY <1>3 DEF PeerSetsPipes
  <2>2. SameData(chip, chip') /\ chip.mode # "standby"
    BY <1>1, <1>3, <2>1 DEF PeerSetsPipes, ChipShape
  <2>3. QED
    BY <1>1, <2>1, <2>2, BondingEmitted
<1>4. CASE PeerSends
  <2>1. PICK p, u :
          /\ chip' = [chip EXCEPT !.unacked = u]
          /\ Emits([type |-> "DataReceived", pipe |-> p])
    BY <1>4 DEF PeerSends
  <2>2. SameData(chip, chip') /\ chip.mode # "standby"
    BY <1>1, <1>4, <2>1 DEF PeerSends, ChipShape
  <2>3. QED
    BY <1>1, <2>1, <2>2, BondingEmitted
<1>5. CASE PeerTakesData
  <2>1. SameData(chip, chip') /\ chip.mode # "standby"
    BY <1>1, <1>5 DEF PeerTakesData, ChipShape
  <2>2. QED
    BY <1>1, <1>5, <2>1, BondingEmitted DEF PeerTakesData
<1>6. CASE PeerRefuses
  BY <1>1, <1>6, BondingEmitted DEF PeerRefuses
<1>7. CASE PeerBonds
  <2>1. PICK success, b, t :
          /\ chip' = [chip EXCEPT !.bonded = b, !.toSave = t]
          /\ Emits([type |-> "BondStatus", success |-> success])
    BY <1>7 DEF PeerBonds
  <2>2. SameData(chip, chip') /\ chip.mode # "standby"
    BY <1>1, <1>7, <2>1 DEF PeerBonds, ChipShape
  <2>3. QED
    BY <1>1, <2>1, <2>2, BondingEmitted
<1>8. CASE LinkEnds
  <2>1. SameData(chip, chip') /\ chip.mode # "standby"
    BY <1>1, <1>8 DEF LinkEnds, Unlinked, ChipShape
  <2>2. QED
    BY <1>1, <1>8, <2>1, BondingEmitted DEF LinkEnds
<1>9. QED
  BY <1>2, <1>3, <1>4, <1>5, <1>6, <1>7, <1>8 DEF Undisturbed

LEMMA ChipBonding ==
  ASSUME BondingInv, ~HwErrors, Chip
  PROVE  BondingInv'
BY PeerBonding DEF Chip, ChipFails, Undisturbed

LEMMA FreshBonding == Fresh => BondingInv
<1> SUFFICES ASSUME Fresh PROVE BondingInv
  OBVIOUS
<1>1. /\ chip.read = 0 /\ chip.restored = 0 /\ chip.mode = "standby"
      /\ sequenceNo = 0 /\ stored \in {0, Chunks}
  BY DEF Fresh, SetUp
<1>2. /\ DOMAIN events = {1} /\ events[1] = [type |-> "DeviceStarted", hwError |-> FALSE]
      /\ events[1].type = "DeviceStarted" /\ ~events[1].hwError
  BY SingleFacts DEF Fresh
<1>3. DOMAIN out.tx = {1} /\ out.tx[1] = <<"info", 0>>
  BY BegunFacts DEF Fresh
<1>4. ~Control(out.tx[1])
  BY <1>3 DEF Control, Advertising, Connectable
<1>5. Whole(chip, sequenceNo, stored) /\ 0 \in 0 .. Chunks - 1
  BY <1>1, ChunksAssumption DEF Whole
<1>6. Bonding(out.tx, events, chip, sequenceNo, stored)
  BY <1>1, <1>2, <1>3, <1>4, <1>5 DEF Bonding, Control
<1>7. QED
  BY <1>6, FreshTurn DEF BondingInv

LEMMA InitBonding == Init => BondingInv
BY InitFresh, FreshBonding

LEMMA StepBonding == BondingInv /\ ~HwErrors /\ [Next]_vars => BondingInv'
<1> SUFFICES ASSUME BondingInv, ~HwErrors, [Next]_vars PROVE BondingInv'
  OBVIOUS
<1>1. CASE UNCHANGED vars
  <2>1. TurnInv'
    BY <1>1, StepTurn DEF BondingInv
  <2>2. QED
    BY <1>1, <2>1 DEF vars, bonding, BondingInv
<1>2. QED
  BY <1>1, CallBonding, PollBonding, ChipBonding DEF Next, Overrun

(* The chip does not advertise between two messages of its bonding data,   *)
(* whatever the number of messages: they were all written back, or all     *)
(* read, also when handlers fill the queue so that the chain of commands   *)
(* breaks off: until they fill it where it is not seen to be full.         *)
THEOREM BondingDataAlways == ASSUME ~HwErrors PROVE Spec => []BondingDataWhole
<1>1. BondingInv => BondingDataWhole
  BY DEF BondingInv, Bonding, Whole, BondingDataWhole, Advertising, Connectable
<1>2. Init => BondingInv
  BY InitBonding
<1>3. BondingInv /\ [Next]_vars => BondingInv'
  BY StepBonding
<1>4. QED
  BY <1>1, <1>2, <1>3, PTL DEF Spec

------------------------------------------------------------------------------
(* Credit goes from the driver into packets, from packets into the chip's  *)
(* buffers and comes back as events; what belongs to one link has come     *)
(* back before the event that starts the next.                             *)
Flow(tx, ev, k) ==
  /\ \A i, j \in DOMAIN tx : IsData(tx[i]) /\ Control(tx[j]) => i < j
  /\ \A i \in DOMAIN tx : IsData(tx[i]) => k.mode \notin Advertising
  /\ \A i \in DOMAIN tx, j \in DOMAIN ev : ~(IsData(tx[i]) /\ IsConnected(ev[j]))
  /\ k.inFlight \in Nat
  /\ ~Linked(k) => k.inFlight = 0
  /\ \A j \in DOMAIN ev : IsConnected(ev[j]) => k.inFlight = 0
  /\ \A i, j \in DOMAIN ev : IsConnected(ev[j]) /\ Returns(ev[i]) => i < j
  /\ \A j \in DOMAIN ev : ev[j].type = "DataCredit" => ev[j].credit = 1

Balance(tx, ev, k) == Packets(tx) + k.inFlight + Returned(ev)

CreditInv ==
  /\ TurnInv /\ Flow(out.tx, events, chip) /\ out.credit \in Nat
  /\ central => out.credit + Balance(out.tx, events, chip) <= Credits

(* Remote characteristics are written without spending credit.             *)
NoWrites == \A a \in LoopCalls \cup HandlerCalls : a[1] # "write"

LEMMA FlowAppend ==
  ASSUME NEW tx, NEW ev, IsQueue(ev), NEW k, NEW n, Flow(tx, ev, k), NEW e,
         n.mode \in Advertising => k.mode \in Advertising,
         n.inFlight \in Nat, ~Linked(n) => n.inFlight = 0,
         IsConnected(e) => n.inFlight = 0 /\ k.mode \in Advertising,
         k.inFlight = 0 => n.inFlight = 0,
         Returns(e) => \A j \in DOMAIN ev : ~IsConnected(ev[j]),
         e.type = "DataCredit" => e.credit = 1
  PROVE  Flow(tx, Append(ev, e), n)
<1> DEFINE a == Append(ev, e)
           l == Len(ev) + 1
<1>1. /\ DOMAIN a = 1 .. Len(ev) + 1 /\ a[Len(ev) + 1] = e
      /\ \A i \in 1 .. Len(ev) : a[i] = ev[i]
      /\ DOMAIN ev = 1 .. Len(ev) /\ Len(ev) \in Nat
  BY AppendFacts, QueueFacts
<1> SUFFICES Flow(tx, a, n)
  OBVIOUS
<1> HIDE DEF a
<1>2. \A j \in DOMAIN a : (j = l /\ a[j] = e) \/ (j \in DOMAIN ev /\ a[j] = ev[j] /\ j < l)
  BY <1>1
<1> HIDE DEF l
<1>3. ~(IsConnected(e) /\ Returns(e))
  BY DEF IsConnected, Returns
<1>4. /\ \A i, j \in DOMAIN tx : IsData(tx[i]) /\ Control(tx[j]) => i < j
      /\ \A i \in DOMAIN tx : IsData(tx[i]) => n.mode \notin Advertising
  BY DEF Flow
<1>5. \A i \in DOMAIN tx, j \in DOMAIN a : ~(IsData(tx[i]) /\ IsConnected(a[j]))
  BY <1>2 DEF Flow
<1>6. \A j \in DOMAIN a : IsConnected(a[j]) => n.inFlight = 0
  BY <1>2 DEF Flow
<1>7. \A i, j \in DOMAIN a : IsConnected(a[j]) /\ Returns(a[i]) => i < j
  BY <1>2, <1>3 DEF Flow
<1>8. \A j \in DOMAIN a : a[j].type = "DataCredit" => a[j].credit = 1
  BY <1>2 DEF Flow
<1>9. QED
  BY <1>4, <1>5, <1>6, <1>7, <1>8 DEF Flow

LEMMA FlowPop ==
  ASSUME NEW tx, IsQueue(tx), NEW ev, NEW k, Flow(tx, ev, k)
  PROVE  /\ Flow(Rest(tx), ev, k)
         /\ tx # << >> /\ Control(Head(tx)) =>
              \A i \in DOMAIN Rest(tx) : ~IsData(Rest(tx)[i])
         /\ tx # << >> /\ IsData(Head(tx)) =>
              \A j \in DOMAIN ev : ~IsConnected(ev[j])
<1> DEFINE r == Rest(tx)
<1>1. /\ \A i \in DOMAIN r : i \in Nat /\ i > 0 /\ i + 1 \in DOMAIN tx /\ r[i] = tx[i + 1]
      /\ tx # << >> => 1 \in DOMAIN tx /\ Head(tx) = tx[1]
  BY RestIndex
<1> HIDE DEF r
<1>2. \A i \in DOMAIN r :
        i + 1 \in DOMAIN tx /\ r[i] = tx[i + 1] /\ i + 1 # 1 /\ ~(i + 1 < 1)
  BY <1>1
<1>3. \A i, j \in DOMAIN r : i + 1 < j + 1 => i < j
  BY <1>1
<1>4. Flow(r, ev, k)
  <2>1. ASSUME NEW i \in DOMAIN r, NEW j \in DOMAIN r, IsData(r[i]), Control(r[j])
        PROVE  i < j
    <3>1. i + 1 < j + 1
      BY <1>2, <2>1 DEF Flow
    <3>2. QED
      BY <1>3, <3>1
  <2>2. QED
    BY <1>2, <2>1 DEF Flow
<1>5. ASSUME tx # << >>, Control(Head(tx)), NEW i \in DOMAIN r, IsData(r[i])
      PROVE  FALSE
  <2>1. i + 1 < 1
    BY <1>1, <1>2, <1>5 DEF Flow
  <2>2. QED
    BY <1>2, <2>1
<1>6. tx # << >> /\ IsData(Head(tx)) => \A j \in DOMAIN ev : ~IsConnected(ev[j])
  BY <1>1 DEF Flow
<1>7. QED
  BY <1>4, <1>5, <1>6 DEF r

LEMMA FlowCommand ==
  ASSUME NEW tx, IsQueue(tx), tx # << >>, NEW ev, IsQueue(ev), NEW k, ChipShape(k),
         Flow(tx, ev, k)
  PROVE  /\ Flow(Rest(tx), ev \o Replies(k, Head(tx)), ChipAfter(k, Head(tx)))
         /\ Balance(Rest(tx), ev \o Replies(k, Head(tx)), ChipAfter(k, Head(tx)))
              = Balance(tx, ev, k)
<1> DEFINE c == Head(tx)
           n == ChipAfter(k, c)
           r == Replies(k, c)
           a == ev \o r
           rest == Rest(tx)
<1> SUFFICES Flow(rest, a, n) /\ Balance(rest, a, n) = Balance(tx, ev, k)
  OBVIOUS
<1>0. n = ChipAfter(k, c) /\ r = Replies(k, c) /\ a = ev \o r /\ c = Head(tx) /\ rest = Rest(tx)
  OBVIOUS
<1> HIDE DEF c, n, r, a, rest
<1>1. /\ Flow(rest, ev, k)
      /\ Control(c) => \A i \in DOMAIN rest : ~IsData(rest[i])
      /\ IsData(c) => \A j \in DOMAIN ev : ~IsConnected(ev[j])
  BY <1>0, FlowPop
<1>2. /\ Packets(rest) = IF IsData(c) THEN Packets(tx) - 1 ELSE Packets(tx)
      /\ Packets(tx) \in Nat /\ Packets(rest) \in Nat /\ Returned(ev) \in Nat
  <2>1. IsQueue(rest) /\ c = tx[1]
    BY <1>0, RestIndex
  <2>2. QED
    BY <1>0, <2>1, CountFacts
<1>3. k.inFlight \in Nat /\ (~Linked(k) => k.inFlight = 0)
  BY DEF Flow
<1>4. ASSUME r = << >> PROVE a = ev
  BY <1>0, <1>4, ConcatCases
<1>5. ASSUME NEW e, r = << e >>, ~IsConnected(e), n.inFlight = k.inFlight,
             Linked(n) <=> Linked(k),
             n.mode \in Advertising => k.mode \in Advertising,
             Returns(e) => IsData(c), e.type # "DataCredit"
      PROVE  /\ Flow(rest, a, n)
             /\ Returned(a) = IF Returns(e) THEN Returned(ev) + 1 ELSE Returned(ev)
  <2>1. a = Append(ev, e)
    BY <1>0, <1>5, ConcatCases
  <2>2. Flow(rest, Append(ev, e), n)
    BY <1>1, <1>3, <1>5, FlowAppend
  <2>3. Returned(Append(ev, e)) = IF Returns(e) THEN Returned(ev) + 1 ELSE Returned(ev)
    BY CountFacts
  <2>4. QED
    BY <2>1, <2>2, <2>3
<1>6. CASE Advertised(k, c, n, r)
  <2>1. /\ Control(c) /\ ~IsData(c) /\ r = << >> /\ n.inFlight = k.inFlight
        /\ ~Linked(k) /\ ~Linked(n)
    BY <1>6 DEF Advertised, Control, SameLink, IsData, Linked, Advertising, Connectable
  <2>2. Flow(rest, ev, n)
    BY <1>1, <2>1 DEF Flow
  <2>3. QED
    BY <1>2, <1>4, <2>1, <2>2 DEF Balance
<1>7. CASE Fetched(k, c, n, r)
  <2> DEFINE e == [type |-> "DataRead", seqNo |-> k.read + 1,
                   complete |-> k.read + 1 = Chunks]
  <2>1. ~IsData(c) /\ r = << e >> /\ n.inFlight = k.inFlight /\ n.mode = k.mode
    BY <1>7 DEF Fetched, SameLink, IsData
  <2>2. ~IsConnected(e) /\ ~Returns(e) /\ e.type # "DataCredit"
    BY DEF IsConnected, Returns
  <2> HIDE DEF e
  <2>3. Flow(rest, a, n) /\ Returned(a) = Returned(ev)
    BY <1>5, <2>1, <2>2 DEF Linked
  <2>4. QED
    BY <1>2, <2>1, <2>3 DEF Balance
<1>8. CASE Written(k, c, n, r)
  <2> DEFINE e == [type |-> "DataWritten", complete |-> k.restored + 1 = Chunks]
  <2>1. ~IsData(c) /\ r = << e >> /\ n.inFlight = k.inFlight /\ n.mode = k.mode
    BY <1>8 DEF Written, SameLink, IsData
  <2>2. ~IsConnected(e) /\ ~Returns(e) /\ e.type # "DataCredit"
    BY DEF IsConnected, Returns
  <2> HIDE DEF e
  <2>3. Flow(rest, a, n) /\ Returned(a) = Returned(ev)
    BY <1>5, <2>1, <2>2 DEF Linked
  <2>4. QED
    BY <1>2, <2>1, <2>3 DEF Balance
<1>9. CASE Buffered(k, c, n, r)
  <2>1. /\ IsData(c) /\ r = << >> /\ n.inFlight = k.inFlight + 1
        /\ n.mode = "connected"
    BY <1>9 DEF Buffered
  <2>2. Linked(n) /\ n.mode \notin Advertising /\ n.inFlight \in Nat
    BY <1>3, <2>1 DEF Linked, Advertising, Connectable
  <2>3. Flow(rest, ev, n)
    BY <1>1, <2>1, <2>2 DEF Flow
  <2>4. Balance(rest, ev, n) = Balance(tx, ev, k)
    BY <1>2, <1>3, <2>1 DEF Balance
  <2>5. QED
    BY <1>4, <2>1, <2>3, <2>4
<1>10. CASE Declined(k, c, n, r)
  <2> DEFINE e == [type |-> "PipeError", peer |-> FALSE]
  <2>1. n = k /\ r = << e >> /\ IsData(c)
    BY <1>10 DEF Declined
  <2>2. ~IsConnected(e) /\ Returns(e) /\ e.type # "DataCredit"
    BY DEF IsConnected, Returns
  <2> HIDE DEF e
  <2>3. Flow(rest, a, n) /\ Returned(a) = Returned(ev) + 1
    BY <1>5, <2>1, <2>2
  <2>4. QED
    BY <1>2, <1>3, <2>1, <2>3 DEF Balance
<1>11. CASE Timed(k, c, n, r) \/ Other(k, c, n, r)
  <2>1. /\ ~IsData(c) /\ r = << >> /\ n.inFlight = k.inFlight
        /\ n.mode = k.mode \/ (k.mode = "connected" /\ n.mode = "closing")
    BY <1>11 DEF Timed, Other, SameLink, IsData, IsTiming
  <2>2. /\ Linked(n) <=> Linked(k)
        /\ n.mode \in Advertising => k.mode \in Advertising
    BY <2>1 DEF Linked, Advertising, Connectable
  <2>3. Flow(rest, ev, n)
    BY <1>1, <2>1, <2>2 DEF Flow
  <2>4. QED
    BY <1>2, <1>4, <2>1, <2>3 DEF Balance
<1>12. \/ Advertised(k, c, n, r) \/ Fetched(k, c, n, r) \/ Written(k, c, n, r)
       \/ Buffered(k, c, n, r) \/ Declined(k, c, n, r) \/ Timed(k, c, n, r)
       \/ Other(k, c, n, r)
  BY <1>0, CommandCases
<1>13. QED
  BY <1>6, <1>7, <1>8, <1>9, <1>10, <1>11, <1>12

(* A step that makes up no credit, and one that sends no data.             *)
Spends(o, n) ==
  o.credit \in Nat => n.credit \in Nat /\ n.credit + Packets(n.tx) <= o.credit + Packets(o.tx)

NoData(o, n) == \A i \in New(o, n) : ~IsData(n.tx[i])

LEMMA ControlNotData == \A cmd : Control(cmd) => ~IsData(cmd)
BY DEF Control, IsData, Advertising, Connectable

LEMMA SentSpends ==
  ASSUME NEW o, OutShape(o), NEW cmd, ~IsData(cmd)
  PROVE  /\ Spends(o, Sent(o, cmd)) /\ NoData(o, Sent(o, cmd))
         /\ Packets(Sent(o, cmd).tx) = Packets(o.tx)
<1>1. Packets(o.tx) \in Nat
  BY CountFacts DEF OutShape
<1>2. /\ Sent(o, cmd).credit = o.credit
      /\ Packets(Sent(o, cmd).tx) = Packets(o.tx)
      /\ \A i \in New(o, Sent(o, cmd)) : Sent(o, cmd).tx[i] = cmd
  BY SentFacts
<1>3. QED
  BY <1>1, <1>2 DEF Spends, NoData

LEMMA ActsSpends ==
  ASSUME NEW o, NEW n
  PROVE  /\ Acts(o, n, "spend") => Spends(o, n) /\ OutShape(n)
         /\ Acts(o, n, "silent") => Spends(o, n) /\ NoData(o, n) /\ OutShape(n)
BY DEF Acts, Spends, NoData, Grows

LEMMA SpendsTwice ==
  ASSUME NEW o, NEW n, NEW q, OutShape(o), OutShape(n), OutShape(q),
         Spends(o, n), Spends(n, q)
  PROVE  Spends(o, q)
<1>1. Packets(o.tx) \in Nat /\ Packets(n.tx) \in Nat /\ Packets(q.tx) \in Nat
  BY CountFacts DEF OutShape
<1>2. QED
  BY <1>1 DEF Spends

(* What a poll does to the credit, by the event it handles.                *)
LEMMA PollSpends ==
  ASSUME OutShape(out), poll, events # << >>, Head(events).type # "HwError",
         NoWrites, Careful, IsConnected(Head(events)) => subscribed = {},
         Head(events).type = "DataCredit" => Head(events).credit = 1,
         out.credit \in Nat
  PROVE  /\ out'.credit \in Nat
         /\ OfLink(Head(events)) \/ IsDisconnected(Head(events)) \/ NoData(Received, out')
         /\ IsConnected(Head(events)) => out'.credit = Credits
         /\ \/ IsConnected(Head(events)) \/ IsDisconnected(Head(events))
            \/ Returns(Head(events)) \/ Spends(Received, out')
         /\ Returns(Head(events)) =>
              /\ Packets(out'.tx) = Packets(Received.tx)
              /\ out'.credit = (out.credit + 1) % 256
<1> DEFINE e == Head(events)
           R == Received
<1>0. e = Head(events) /\ R = Received
  OBVIOUS
<1>1. /\ OutShape(R) /\ R.credit = out.credit /\ R.credit \in Nat
      /\ Spends(R, R) /\ NoData(R, R) /\ Packets(R.tx) \in Nat
  <2>1. OutShape(R)
    BY ReceivedFacts
  <2>2. R.credit = out.credit
    BY DEF Received, OutShape
  <2>3. Acts(R, R, "silent") /\ Packets(R.tx) \in Nat
    BY <2>1, FieldActs, CountFacts DEF OutShape
  <2>4. QED
    BY <2>1, <2>2, <2>3, ActsSpends
<1>2. ASSUME NEW cmd, ~IsData(cmd)
      PROVE  Spends(R, Sent(R, cmd)) /\ NoData(R, Sent(R, cmd))
  BY <1>1, <1>2, SentSpends
<1>3. \A b : Spends(R, startAdvertising(R, b)) /\ NoData(R, startAdvertising(R, b))
  <2> TAKE b
  <2>1. PICK cmd : Control(cmd) /\ \A o : startAdvertising(o, b) = Sent(o, cmd)
    BY AdvertisingIsControl
  <2>2. QED
    BY <1>2, <2>1, ControlNotData
<1>4. \A subs : \A a \in Allowed(HandlerCalls, subs) : Fits(a, "spend")
  BY DEF Allowed, NoWrites, Fits
<1>5. ASSUME R.credit \in Nat, Spends(R, out') PROVE out'.credit \in Nat
  BY <1>5 DEF Spends
<1> HIDE DEF R, e
<1>6. ASSUME Spends(R, out'), NoData(R, out'), ~IsConnected(e), ~Returns(e)
      PROVE  /\ out'.credit \in Nat
             /\ OfLink(e) \/ IsDisconnected(e) \/ NoData(R, out')
             /\ IsConnected(e) => out'.credit = Credits
             /\ IsConnected(e) \/ IsDisconnected(e) \/ Returns(e) \/ Spends(R, out')
             /\ Returns(e) => /\ Packets(out'.tx) = Packets(R.tx)
                              /\ out'.credit = (out.credit + 1) % 256
  BY <1>1, <1>5, <1>6
<1>7. ASSUME Spends(R, out'), OfLink(e)
      PROVE  /\ out'.credit \in Nat
             /\ OfLink(e) \/ IsDisconnected(e) \/ NoData(R, out')
             /\ IsConnected(e) => out'.credit = Credits
             /\ IsConnected(e) \/ IsDisconnected(e) \/ Returns(e) \/ Spends(R, out')
             /\ Returns(e) => /\ Packets(out'.tx) = Packets(R.tx)
                              /\ out'.credit = (out.credit + 1) % 256
  BY <1>1, <1>5, <1>7 DEF OfLink, IsConnected, Returns
<1>8. ASSUME out' = [R EXCEPT !.credit = (R.credit + 1) % 256], ~IsConnected(e), Returns(e)
      PROVE  /\ out'.credit \in Nat
             /\ OfLink(e) \/ IsDisconnected(e) \/ NoData(R, out')
             /\ IsConnected(e) => out'.credit = Credits
             /\ IsConnected(e) \/ IsDisconnected(e) \/ Returns(e) \/ Spends(R, out')
             /\ Returns(e) => /\ Packets(out'.tx) = Packets(R.tx)
                              /\ out'.credit = (out.credit + 1) % 256
  <2>1. out'.tx = R.tx /\ out'.credit = (R.credit + 1) % 256
    BY <1>1, <1>8 DEF OutShape
  <2>2. NoData(R, out')
    BY <1>1, <2>1 DEF NoData, New
  <2>3. (R.credit + 1) % 256 \in Nat
    BY <1>1
  <2>4. QED
    BY <1>1, <1>8, <2>1, <2>2, <2>3
<1> SUFFICES /\ out'.credit \in Nat
             /\ OfLink(e) \/ IsDisconnected(e) \/ NoData(R, out')
             /\ IsConnected(e) => out'.credit = Credits
             /\ IsConnected(e) \/ IsDisconnected(e) \/ Returns(e) \/ Spends(R, out')
             /\ Returns(e) => /\ Packets(out'.tx) = Packets(R.tx)
                              /\ out'.credit = (out.credit + 1) % 256
  BY <1>0
<1>9. CASE NoEvent
  BY <1>9 DEF NoEvent
<1>10. CASE DeviceStarted
  <2>1. ~IsConnected(e) /\ ~Returns(e)
    BY <1>0, <1>10 DEF DeviceStarted, Gets, IsConnected, Returns
  <2>2. ~IsData(<<"writeDynamic", 1>>)
    BY DEF IsData
  <2>3. Spends(R, out') /\ NoData(R, out')
    BY <1>0, <1>1, <1>2, <1>3, <1>10, <2>2 DEF DeviceStarted
  <2>4. QED
    BY <1>6, <2>1, <2>3
<1>11. CASE DataRead
  <2>1. ~IsConnected(e) /\ ~Returns(e)
    BY <1>0, <1>11 DEF DataRead, Gets, IsConnected, Returns
  <2>2. ~IsData(<<"readDynamic", 0>>)
    BY DEF IsData
  <2>3. Spends(R, out') /\ NoData(R, out')
    BY <1>0, <1>2, <1>3, <1>11, <2>2 DEF DataRead
  <2>4. QED
    BY <1>6, <2>1, <2>3
<1>12. CASE DataWritten
  <2>1. ~IsConnected(e) /\ ~Returns(e)
    BY <1>0, <1>12 DEF DataWritten, Gets, IsConnected, Returns
  <2>2. \A s : ~IsData(<<"writeDynamic", s>>)
    BY DEF IsData
  <2>3. Spends(R, out') /\ NoData(R, out')
    BY <1>0, <1>2, <1>3, <1>12, <2>2 DEF DataWritten
  <2>4. QED
    BY <1>6, <2>1, <2>3
<1>13. CASE Connected
  <2>1. PICK o \in AfterHandler("Connected", R, txOpen, subscribed) :
          out' = [o EXCEPT !.credit = Credits]
    BY <1>0, <1>13 DEF Connected
  <2>2. IsConnected(e) /\ ~Returns(e)
    BY <1>0, <1>13 DEF Connected, Gets, IsConnected, Returns
  <2>3. \A a \in Allowed(HandlerCalls, subscribed) : Fits(a, "silent")
    BY <1>0, <2>2 DEF Allowed, NoWrites, Fits
  <2>4. Acts(R, o, "silent")
    BY <1>1, <2>3, HandlerActs
  <2>5. OutShape(o) /\ NoData(R, o)
    BY <2>4, ActsSpends
  <2>6. out'.credit = Credits /\ out'.tx = o.tx
    BY <2>1, <2>5 DEF OutShape
  <2>7. NoData(R, out') /\ Credits \in Nat
    <3>1. New(R, out') = New(R, o)
      BY <2>6 DEF New
    <3>2. NoData(R, out')
      BY <2>5, <2>6, <3>1 DEF NoData
    <3>3. QED
      BY <3>2, CreditsAssumption
  <2>8. QED
    BY <2>2, <2>6, <2>7
<1>14. CASE PipeStatus
  <2> DEFINE pipes == Head(events).open
             updated == lib_aci_event_get(Received)
             o == IF Retimed(pipes) THEN Sent(updated, <<"timing", 0>>) ELSE updated
  <2>1. out' \in AfterPipes(o)
    BY <1>14, PipesLeave
  <2>2. e.type = "PipeStatus"
    BY <1>0, <1>14 DEF PipeStatus, Gets
  <2>3. OutShape(updated) /\ updated.tx = R.tx /\ updated.credit = R.credit
    BY <1>0, <1>1, <2>2, EventGetFacts
  <2> HIDE DEF updated
  <2>4. Spends(R, updated)
    BY <1>1, <2>3 DEF Spends
  <2>5. ~IsData(<<"timing", 0>>)
    BY DEF IsData
  <2>6. Spends(updated, o) /\ OutShape(o)
    <3>1. Spends(updated, Sent(updated, <<"timing", 0>>)) /\ OutShape(Sent(updated, <<"timing", 0>>))
      BY <2>3, <2>5, SentSpends, SentGrows DEF Grows
    <3>2. Spends(updated, updated)
      BY <1>1, <2>3 DEF Spends
    <3>3. QED
      BY <2>3, <3>1, <3>2
  <2> HIDE DEF o, pipes
  <2>7. out' = o \/ \E flags, subs : out' \in AfterHandler("PipeStatus", o, flags, subs)
    BY <2>1 DEF AfterPipes
  <2>8. Acts(o, out', "spend")
    BY <1>4, <2>6, <2>7, HandlerActs, FieldActs
  <2>9. Spends(R, out')
    BY <1>1, <2>3, <2>4, <2>6, <2>8, ActsSpends, SpendsTwice
  <2>10. OfLink(e)
    BY <2>2 DEF OfLink
  <2>11. QED
    BY <1>7, <2>9, <2>10
<1>15. CASE Disconnected
  <2> DEFINE updated == lib_aci_event_get(Received)
  <2>1. PICK o \in AfterUnlink(updated) :
          out' = IF storeDynamicData THEN Sent(o, <<"readDynamic", 0>>)
                 ELSE startAdvertising(o, hasData)
    BY <1>15 DEF Disconnected
  <2>2. IsDisconnected(e) /\ ~IsConnected(e) /\ ~Returns(e) /\ Head(events).type = "Disconnected"
    BY <1>0, <1>15 DEF Disconnected, Gets, IsDisconnected, IsConnected, Returns
  <2>3. OutShape(updated) /\ updated.credit \in Nat
    <3>1. updated = [R EXCEPT !.open = {}, !.closed = {}, !.credit = Credits]
      BY <1>0, <2>2 DEF lib_aci_event_get
    <3>2. OutShape(updated)
      BY <1>0, <1>1, EventGetFacts
    <3> HIDE DEF updated
    <3>3. updated.credit = Credits
      BY <1>1, <3>1 DEF OutShape
    <3>4. QED
      BY <3>2, <3>3, CreditsAssumption
  <2> HIDE DEF updated
  <2>4. \E flags, subs : o \in AfterHandler("Disconnected", updated, flags, subs)
    BY DEF AfterUnlink
  <2>5. Acts(updated, o, "spend")
    BY <1>4, <2>3, <2>4, HandlerActs
  <2>6. OutShape(o) /\ o.credit \in Nat
    BY <2>3, <2>5, ActsSpends DEF Spends
  <2>7. \A b : startAdvertising(o, b).credit = o.credit
    BY <2>6, SentFacts DEF startAdvertising
  <2>8. out'.credit \in Nat
    BY <2>1, <2>6, <2>7, SentFacts
  <2>9. QED
    BY <2>2, <2>8
<1>16. CASE BondStatus
  <2>1. \/ out' = R
        \/ out' \in AfterHandler("Bonded", R, txOpen, subscribed)
    BY <1>0, <1>16 DEF BondStatus
  <2>2. Acts(R, out', "spend")
    BY <1>1, <1>4, <2>1, HandlerActs, FieldActs
  <2>3. Spends(R, out') /\ OfLink(e)
    BY <1>0, <1>16, <2>2, ActsSpends DEF OfLink, BondStatus, Gets
  <2>4. QED
    BY <1>7, <2>3
<1>17. CASE DataReceived
  <2>1. Acts(R, out', "spend")
    BY <1>0, <1>4, <1>17, DataReceivedActs
  <2>2. Spends(R, out') /\ OfLink(e)
    BY <1>0, <1>17, <2>1, ActsSpends DEF OfLink, DataReceived, Gets
  <2>3. QED
    BY <1>7, <2>2
<1>18. CASE DataCredit
  <2>1. Returns(e) /\ ~IsConnected(e) /\ Head(events).credit = 1
    BY <1>0, <1>18 DEF DataCredit, Gets, Returns, IsConnected
  <2>2. out' = [R EXCEPT !.credit = (R.credit + 1) % 256]
    BY <1>0, <1>18, <2>1 DEF DataCredit, Credited
  <2>3. QED
    BY <1>8, <2>1, <2>2
<1>19. CASE PipeError
  <2>1. ~IsConnected(e) /\ (Returns(e) <=> ~e.peer)
    BY <1>0, <1>19 DEF PipeError, Gets, Returns, IsConnected
  <2>2. CASE ~e.peer
    <3>1. out' = [R EXCEPT !.credit = (R.credit + 1) % 256]
      BY <1>0, <1>19, <2>2 DEF PipeError, Credited
    <3>2. QED
      BY <1>8, <2>1, <2>2, <3>1
  <2>3. CASE e.peer
    <3>1. ~IsData(<<"bondRequest", 0>>)
      BY DEF IsData
    <3>2. Spends(R, out') /\ NoData(R, out')
      BY <1>0, <1>1, <1>2, <1>19, <2>3, <3>1 DEF PipeError
    <3>3. QED
      BY <1>6, <2>1, <2>3, <3>2
  <2>4. QED
    BY <2>2, <2>3
<1>20. ~HwError
  BY DEF HwError, Gets
<1>21. QED
  BY <1>9, <1>10, <1>11, <1>12, <1>13, <1>14, <1>15, <1>16, <1>17, <1>18, <1>19,
     <1>20 DEF poll

(* The driver takes the event at the head; its handler may send data on    *)
(* the link, or while it ends.                                             *)
LEMMA FlowRest ==
  ASSUME NEW o, OutShape(o), NEW n, NEW ev, IsQueue(ev), ev # << >>,
         NEW k, Turn(o.tx, ev, k), LinkOrder(ev, k), Flow(o.tx, ev, k),
         Replied(o, n, Head(ev)),
         OfLink(Head(ev)) \/ IsDisconnected(Head(ev)) \/ NoData(o, n)
  PROVE  /\ Flow(n.tx, Rest(ev), k)
         /\ IsConnected(Head(ev)) =>
              /\ Packets(n.tx) = 0 /\ k.inFlight = 0 /\ Returned(Rest(ev)) = 0
<1> DEFINE r == Rest(ev)
           tx == o.tx
           ux == n.tx
           e == Head(ev)
<1>1. /\ \A i \in DOMAIN r : i \in Nat /\ i > 0 /\ i + 1 \in DOMAIN ev /\ r[i] = ev[i + 1]
      /\ 1 \in DOMAIN ev /\ e = ev[1]
      /\ \A j \in DOMAIN ev : j \in Nat /\ ~(j < 1)
      /\ IsQueue(r)
  BY RestIndex
<1>2. /\ DOMAIN tx = 1 .. Len(tx) /\ DOMAIN ux = 1 .. Len(ux)
      /\ Len(tx) \in Nat /\ Len(ux) \in Nat
      /\ \A i \in 1 .. Len(tx) : ux[i] = tx[i]
      /\ IsQueue(ux)
  BY QueueFacts DEF Replied, Grows, OutShape
<1>3. /\ \A i \in DOMAIN ux :
           \/ i \in New(o, n)
           \/ i \in DOMAIN tx /\ ux[i] = tx[i]
      /\ \A i \in DOMAIN ux : i \in Nat /\ i <= Len(ux)
  BY <1>2 DEF New
<1>4. /\ \A i \in New(o, n) : Control(ux[i]) => i = Len(ux)
      /\ OfLink(e) \/ IsDisconnected(e) \/ \A i \in New(o, n) : ~IsData(ux[i])
  BY DEF Replied, NoData
<1>5. Turn(tx, ev, k) /\ LinkOrder(ev, k) /\ Flow(tx, ev, k)
  OBVIOUS
<1> SUFFICES /\ Flow(ux, r, k)
             /\ IsConnected(e) =>
                  Packets(ux) = 0 /\ k.inFlight = 0 /\ Returned(r) = 0
  OBVIOUS
<1>6. IsQueue(ev) /\ ev # << >> /\ e = Head(ev)
  OBVIOUS
<1> HIDE DEF r, tx, ux, e
<1>7. ASSUME OfLink(e) \/ IsDisconnected(e)
      PROVE  /\ NoControl(tx) /\ k.mode \notin Advertising
             /\ \A j \in DOMAIN r : ~IsConnected(r[j])
  <2>1. CASE OfLink(e)
    <3>1. central
      BY <1>5, <1>6, <2>1, OfLinkHead
    <3>2. NoControl(tx) /\ k.mode \notin Advertising /\ \A j \in DOMAIN ev : ~IsConnected(ev[j])
      BY <1>5, <3>1, CentralTurn
    <3>3. QED
      BY <1>1, <3>2
  <2>2. CASE IsDisconnected(e)
    <3>1. Starter(e)
      BY <2>2 DEF IsDisconnected, Starter
    <3>2. NoControl(tx) /\ k.mode = "standby"
      BY <1>1, <1>5, <3>1 DEF Turn, NoControl
    <3>3. \A j \in DOMAIN ev : ~IsConnected(ev[j])
      BY <1>1, <1>5, <2>2 DEF LinkOrder
    <3>4. QED
      BY <1>1, <3>2, <3>3 DEF Advertising, Connectable
  <2>3. QED
    BY <1>7, <2>1, <2>2
<1>8. ASSUME NEW i \in DOMAIN ux, NEW j \in DOMAIN ux, IsData(ux[i]), Control(ux[j])
      PROVE  i < j
  <2>1. i # j /\ i \in Nat /\ j \in Nat /\ i <= Len(ux) /\ Len(ux) \in Nat
    BY <1>2, <1>3, <1>8, ControlNotData
  <2>2. CASE j \in New(o, n)
    BY <1>4, <1>8, <2>1, <2>2
  <2>3. CASE j \in DOMAIN tx /\ ux[j] = tx[j] /\ i \in New(o, n)
    BY <1>4, <1>7, <1>8, <2>3 DEF NoControl
  <2>4. CASE j \in DOMAIN tx /\ ux[j] = tx[j] /\ i \in DOMAIN tx /\ ux[i] = tx[i]
    BY <1>5, <1>8, <2>4 DEF Flow
  <2>5. QED
    BY <1>3, <2>2, <2>3, <2>4
<1>9. ASSUME NEW i \in DOMAIN ux, IsData(ux[i])
      PROVE  /\ k.mode \notin Advertising
             /\ \A j \in DOMAIN r : ~IsConnected(r[j])
  <2>1. CASE i \in New(o, n)
    BY <1>4, <1>7, <1>9, <2>1
  <2>2. CASE i \in DOMAIN tx /\ ux[i] = tx[i]
    BY <1>1, <1>5, <1>9, <2>2 DEF Flow
  <2>3. QED
    BY <1>3, <2>1, <2>2
<1>10. \A i, j \in DOMAIN r : IsConnected(r[j]) /\ Returns(r[i]) => i < j
  <2> SUFFICES ASSUME NEW i \in DOMAIN r, NEW j \in DOMAIN r,
                      IsConnected(r[j]), Returns(r[i])
               PROVE  i < j
    OBVIOUS
  <2>1. i + 1 < j + 1
    BY <1>1, <1>5 DEF Flow
  <2>2. QED
    BY <1>1, <2>1
<1>11. Flow(ux, r, k)
  BY <1>1, <1>5, <1>8, <1>9, <1>10 DEF Flow
<1>12. ASSUME IsConnected(e)
       PROVE  Packets(ux) = 0 /\ k.inFlight = 0 /\ Returned(r) = 0
  <2>1. ~OfLink(e) /\ ~IsDisconnected(e)
    BY <1>12 DEF IsConnected, OfLink, IsDisconnected
  <2>2. k.inFlight = 0 /\ \A i \in DOMAIN tx : ~IsData(tx[i])
    BY <1>1, <1>5, <1>12 DEF Flow
  <2>3. \A i \in DOMAIN ux : ~IsData(ux[i])
    BY <1>3, <1>4, <2>1, <2>2
  <2>4. \A i \in DOMAIN r : ~Returns(r[i])
    <3> SUFFICES ASSUME NEW i \in DOMAIN r, Returns(r[i]) PROVE FALSE
      OBVIOUS
    <3>1. i + 1 < 1
      BY <1>1, <1>5, <1>12 DEF Flow
    <3>2. QED
      BY <1>1, <3>1
  <2>5. QED
    BY <1>1, <1>2, <2>2, <2>3, <2>4, CountFacts
<1>13. QED
  BY <1>11, <1>12

LEMMA PollCredit ==
  ASSUME CreditInv, poll, NoWrites, Careful
  PROVE  CreditInv'
<1> DEFINE tx == Received.tx
           ev == AfterCommand
           k == chip'
           e == Head(events)
<1>1. /\ TurnInv /\ TurnInv' /\ Flow(out.tx, events, chip) /\ out.credit \in Nat
      /\ central => out.credit + Balance(out.tx, events, chip) <= Credits
  BY PollTurn DEF CreditInv
<1>2. /\ OutShape(out) /\ OutShape(Received) /\ IsQueue(events) /\ ChipShape(chip)
      /\ IsQueue(out.tx) /\ Received.tx = Rest(out.tx) /\ IsQueue(ev)
      /\ Turn(tx, ev, k) /\ LinkOrder(ev, k)
  BY <1>1, PollSteps
<1>3. Flow(tx, ev, k) /\ Balance(tx, ev, k) = Balance(out.tx, events, chip)
  <2>1. CASE out.tx = << >>
    <3>1. tx = out.tx /\ ev = events /\ k = chip
      BY <1>1, <2>1, PollSteps
    <3>2. QED
      BY <1>1, <3>1
  <2>2. CASE out.tx # << >>
    <3>1. /\ tx = Rest(out.tx) /\ ev = events \o Replies(chip, Head(out.tx))
          /\ k = ChipAfter(chip, Head(out.tx))
      BY <1>1, <2>2, PollSteps
    <3>2. QED
      BY <1>1, <1>2, <2>2, <3>1, FlowCommand
  <2>3. QED
    BY <2>1, <2>2
<1>4. Packets(tx) \in Nat /\ Returned(ev) \in Nat /\ k.inFlight \in Nat /\ Credits \in 1 .. 255
  BY <1>2, <1>3, CountFacts, CreditsAssumption DEF OutShape, Flow
<1>5. CASE events = << >>
  <2>1. out' = Received /\ events' = ev /\ central' = central
    BY <1>1, <1>5, PollSteps, DriverSees
  <2>2. Received.credit = out.credit
    BY <1>2 DEF Received, OutShape
  <2>3. QED
    BY <1>1, <1>3, <2>1, <2>2 DEF CreditInv
<1>6. CASE events # << >>
  <2>1. /\ ev # << >> /\ Head(ev) = e /\ events' = Rest(ev)
        /\ e.type # "HwError" /\ Replied(Received, out', e)
    BY <1>1, <1>6, PollSteps
  <2>2. 1 \in DOMAIN ev /\ e = ev[1] /\ 1 \in DOMAIN events /\ e = events[1]
    BY <1>2, <1>6, <2>1, RestIndex
  <2>3. /\ e.type = "DataCredit" => e.credit = 1
        /\ IsConnected(e) => subscribed = {}
    BY <1>1, <2>2 DEF Flow, TurnInv, LinkOrder
  <2>4. /\ out'.credit \in Nat
        /\ OfLink(e) \/ IsDisconnected(e) \/ NoData(Received, out')
        /\ IsConnected(e) => out'.credit = Credits
        /\ \/ IsConnected(e) \/ IsDisconnected(e) \/ Returns(e)
           \/ Spends(Received, out')
        /\ Returns(e) => /\ Packets(out'.tx) = Packets(tx)
                         /\ out'.credit = (out.credit + 1) % 256
    BY <1>1, <1>2, <1>6, <2>1, <2>3, PollSpends
  <2>5. /\ IsConnected(e) => central'
        /\ IsDisconnected(e) => ~central'
        /\ ~IsConnected(e) /\ ~IsDisconnected(e) => central' = central
    BY <1>6, DriverSees
  <2>6. Received.credit = out.credit
    BY <1>2 DEF Received, OutShape
  <2> DEFINE r == Rest(ev)
             ux == out'.tx
  <2>7. /\ Flow(ux, r, k)
        /\ IsConnected(e) => Packets(ux) = 0 /\ k.inFlight = 0 /\ Returned(r) = 0
    BY <1>2, <1>3, <2>1, <2>4, FlowRest
  <2>8. /\ Returned(r) = IF Returns(e) THEN Returned(ev) - 1 ELSE Returned(ev)
        /\ Returned(r) \in Nat /\ Packets(ux) \in Nat
    <3>1. IsQueue(r)
      BY <1>2, RestIndex
    <3>2. IsQueue(ux)
      BY <2>1 DEF Replied, Grows, OutShape
    <3>3. QED
      BY <1>2, <2>1, <2>2, <3>1, <3>2, CountFacts
  <2>9. ux = out'.tx /\ r = events' /\ k = chip'
    BY <2>1
  <2> HIDE DEF tx, ev, k, e, r, ux
  <2>10. central' => out'.credit + Balance(ux, r, k) <= Credits
    <3>1. CASE IsConnected(e)
      BY <1>4, <2>4, <2>7, <3>1 DEF Balance
    <3>2. CASE Returns(e)
      <4>1. ~IsConnected(e) /\ ~IsDisconnected(e)
        BY <3>2 DEF Returns, IsConnected, IsDisconnected
      <4>2. CASE central
        <5>1. out.credit + (Packets(tx) + k.inFlight + Returned(ev)) <= Credits
          BY <1>1, <1>3, <4>2 DEF Balance
        <5>2. Returned(ev) >= 1
          BY <1>4, <2>8, <3>2
        <5>3. out.credit + 1 <= 255
          BY <1>1, <1>4, <5>1, <5>2
        <5>4. (out.credit + 1) % 256 = out.credit + 1
          BY <1>1, <5>3
        <5>5. out'.credit = out.credit + 1
          BY <2>4, <3>2, <5>4
        <5>6. Packets(ux) = Packets(tx) /\ Returned(r) = Returned(ev) - 1
          BY <2>4, <2>8, <2>9, <3>2
        <5>7. QED
          BY <1>1, <1>4, <5>1, <5>5, <5>6 DEF Balance
      <4>3. QED
        BY <2>5, <4>1, <4>2
    <3>3. CASE IsDisconnected(e)
      BY <2>5, <3>3
    <3>4. CASE Spends(Received, out') /\ ~IsConnected(e) /\ ~IsDisconnected(e) /\ ~Returns(e)
      <4>1. central' = central
        BY <2>5, <3>4
      <4>2. out'.credit + Packets(ux) <= out.credit + Packets(tx)
        BY <1>1, <2>6, <2>9, <3>4 DEF Spends, tx
      <4>3. central => out.credit + (Packets(tx) + k.inFlight + Returned(ev)) <= Credits
        BY <1>1, <1>3 DEF Balance
      <4>4. Returned(r) = Returned(ev)
        BY <2>8, <3>4
      <4>5. QED
        BY <1>1, <1>4, <2>4, <2>8, <4>1, <4>2, <4>3, <4>4 DEF Balance
    <3>5. QED
      BY <2>4, <3>1, <3>2, <3>3, <3>4
  <2>11. QED
    BY <1>1, <2>4, <2>7, <2>9, <2>10 DEF CreditInv
<1>7. QED
  BY <1>5, <1>6

LEMMA CallCredit ==
  ASSUME CreditInv, Call, NoWrites, Careful
  PROVE  CreditInv'
<1>1. /\ TurnInv /\ TurnInv' /\ Flow(out.tx, events, chip) /\ out.credit \in Nat
      /\ central => out.credit + Balance(out.tx, events, chip) <= Credits
  BY CallTurn DEF CreditInv
<1>2. PICK a \in Allowed(LoopCalls, subscribed) : out' = Called(out, txOpen, a)
  BY DEF Call
<1>3. chip' = chip /\ events' = events /\ central' = central
  BY DEF Call, sketch
<1>4. /\ OutShape(out) /\ IsQueue(out.tx) /\ IsQueue(events)
      /\ Turn(out.tx, events, chip) /\ LinkOrder(events, chip)
      /\ Packets(out.tx) \in Nat /\ Returned(events) \in Nat /\ chip.inFlight \in Nat
  BY <1>1, CountFacts DEF TurnInv, OutShape, Flow
<1>5. Acts(out, out', "spend")
  <2>1. Fits(a, "spend")
    BY <1>2 DEF Allowed, NoWrites, Fits
  <2>2. QED
    BY <1>2, <1>4, <2>1, CalledActs
<1>6. central \/ NoData(out, out')
  <2>1. ASSUME ~central PROVE NoData(out, out')
    <3>1. subscribed = {}
      BY <1>4, <2>1 DEF LinkOrder
    <3>2. Fits(a, "silent")
      BY <1>2, <3>1 DEF Allowed, NoWrites, Fits
    <3>3. QED
      BY <1>2, <1>4, <3>2, CalledActs, ActsSpends
  <2>2. QED
    BY <2>1
<1>7. /\ out'.credit \in Nat
      /\ out'.credit + Packets(out'.tx) <= out.credit + Packets(out.tx)
      /\ Packets(out'.tx) \in Nat
  <2>1. OutShape(out')
    BY <1>5, ActsShape
  <2>2. QED
    BY <1>1, <1>5, <2>1, CountFacts DEF Acts, OutShape
<1>8. /\ \A i \in DOMAIN out'.tx :
           i \in New(out, out') \/ (i \in DOMAIN out.tx /\ out'.tx[i] = out.tx[i])
      /\ \A i \in New(out, out') : ~Control(out'.tx[i])
  <2>1. /\ DOMAIN out.tx = 1 .. Len(out.tx) /\ DOMAIN out'.tx = 1 .. Len(out'.tx)
        /\ Len(out.tx) \in Nat /\ Len(out'.tx) \in Nat
        /\ \A i \in 1 .. Len(out.tx) : out'.tx[i] = out.tx[i]
    BY <1>1, <1>5, QueueFacts DEF TurnInv, Acts, Grows, OutShape
  <2>2. QED
    BY <1>5, <2>1 DEF Acts, New
<1>9. Flow(out'.tx, events, chip)
  <2>1. CASE central
    <3>1. /\ NoControl(out.tx) /\ chip.mode \notin Advertising
          /\ \A j \in DOMAIN events : ~IsConnected(events[j])
      BY <1>4, <2>1, CentralTurn
    <3>2. \A i \in DOMAIN out'.tx : ~Control(out'.tx[i])
      BY <1>8, <3>1 DEF NoControl
    <3>3. QED
      BY <1>1, <3>1, <3>2 DEF Flow
  <2>2. CASE NoData(out, out')
    <3>1. \A i \in DOMAIN out'.tx : IsData(out'.tx[i]) =>
            i \in DOMAIN out.tx /\ IsData(out.tx[i])
      BY <1>8, <2>2 DEF NoData
    <3>2. \A i \in DOMAIN out'.tx : Control(out'.tx[i]) =>
            i \in DOMAIN out.tx /\ Control(out.tx[i])
      BY <1>8
    <3>3. QED
      BY <1>1, <3>1, <3>2 DEF Flow
  <2>3. QED
    BY <1>6, <2>1, <2>2
<1>10. central => out'.credit + Balance(out'.tx, events, chip) <= Credits
  BY <1>1, <1>4, <1>7, CreditsAssumption DEF Balance
<1>11. QED
  BY <1>1, <1>3, <1>7, <1>9, <1>10 DEF CreditInv

LEMMA CreditEmitted ==
  ASSUME CreditInv, TurnInv', NEW e, Emits(e), chip.mode # "standby",
         chip'.mode \in Advertising => chip.mode \in Advertising,
         chip'.inFlight \in Nat, ~Linked(chip') => chip'.inFlight = 0,
         IsConnected(e) => chip'.inFlight = 0 /\ chip.mode \in Advertising,
         chip.inFlight = 0 => chip'.inFlight = 0,
         Returns(e) => chip.mode = "connected" /\ chip'.inFlight + 1 <= chip.inFlight,
         ~Returns(e) => chip'.inFlight <= chip.inFlight,
         e.type = "DataCredit" => e.credit = 1
  PROVE  CreditInv'
<1>1. events' = Append(events, e) /\ out' = out /\ central' = central
  BY DEF Emits, sketch
<1>2. /\ TurnInv /\ Flow(out.tx, events, chip) /\ out.credit \in Nat
      /\ central => out.credit + Balance(out.tx, events, chip) <= Credits
  BY DEF CreditInv
<1>3. /\ IsQueue(out.tx) /\ IsQueue(events) /\ chip.inFlight \in Nat
      /\ Packets(out.tx) \in Nat /\ Returned(events) \in Nat
      /\ Returned(Append(events, e))
           = IF Returns(e) THEN Returned(events) + 1 ELSE Returned(events)
  BY <1>2, CountFacts DEF TurnInv, OutShape, Flow
<1>4. Returns(e) => \A j \in DOMAIN events : ~IsConnected(events[j])
  <2>1. ASSUME Returns(e), NEW j \in DOMAIN events, IsConnected(events[j]) PROVE FALSE
    <3>1. chip.inFlight = 0
      BY <1>2, <2>1 DEF Flow
    <3>2. QED
      BY <1>3, <2>1, <3>1
  <2>2. QED
    BY <2>1
<1>5. Flow(out.tx, Append(events, e), chip')
  BY <1>2, <1>3, <1>4, FlowAppend
<1>6. Balance(out.tx, Append(events, e), chip') <= Balance(out.tx, events, chip)
  BY <1>3 DEF Balance
<1>7. /\ Balance(out.tx, Append(events, e), chip') \in Nat
      /\ Balance(out.tx, events, chip) \in Nat
  BY <1>3 DEF Balance
<1>8. central => out.credit + Balance(out.tx, Append(events, e), chip') <= Credits
  BY <1>2, <1>6, <1>7, CreditsAssumption
<1>9. QED
  BY <1>1, <1>2, <1>5, <1>8 DEF CreditInv

LEMMA ChipCredit ==
  ASSUME CreditInv, ~HwErrors, Chip
  PROVE  CreditInv'
<1> USE DEF IsConnected, Returns, Linked, Advertising, Connectable
<1>1. /\ ChipShape(chip) /\ TurnInv' /\ chip.inFlight \in Nat
      /\ ~Linked(chip) => chip.inFlight = 0
  BY ChipTurn DEF CreditInv, TurnInv, Flow
<1>2. CASE PeerConnects
  <2>1. /\ chip'.inFlight = chip.inFlight /\ chip'.mode = "connected"
        /\ chip.mode \in Connectable
    BY <1>1, <1>2 DEF PeerConnects, ChipShape
  <2>2. QED
    BY <1>1, <1>2, <2>1, CreditEmitted DEF PeerConnects
<1>3. CASE PeerSetsPipes
  <2>1. PICK pipes, closed :
          /\ chip' = [chip EXCEPT !.open = pipes]
          /\ Emits([type |-> "PipeStatus", open |-> pipes, closed |-> closed])
    BY <1>3 DEF PeerSetsPipes
  <2>2. chip'.inFlight = chip.inFlight /\ chip'.mode = chip.mode /\ chip.mode = "connected"
    BY <1>1, <1>3, <2>1 DEF PeerSetsPipes, ChipShape
  <2>3. QED
    BY <1>1, <2>1, <2>2, CreditEmitted
<1>4. CASE PeerSends
  <2>1. PICK p, u :
          /\ chip' = [chip EXCEPT !.unacked = u]
          /\ Emits([type |-> "DataReceived", pipe |-> p])
    BY <1>4 DEF PeerSends
  <2>2. chip'.inFlight = chip.inFlight /\ chip'.mode = chip.mode /\ chip.mode = "connected"
    BY <1>1, <1>4, <2>1 DEF PeerSends, ChipShape
  <2>3. QED
    BY <1>1, <2>1, <2>2, CreditEmitted
<1>5. CASE PeerTakesData
  <2>1. /\ chip'.inFlight = chip.inFlight - 1 /\ chip'.mode = chip.mode
        /\ chip.mode = "connected" /\ chip.inFlight > 0
    BY <1>1, <1>5 DEF PeerTakesData, ChipShape
  <2>2. chip'.inFlight \in Nat /\ chip'.inFlight + 1 <= chip.inFlight /\ chip.inFlight # 0
    BY <1>1, <2>1
  <2>3. QED
    BY <1>1, <1>5, <2>1, <2>2, CreditEmitted DEF PeerTakesData
<1>6. CASE PeerRefuses
  BY <1>1, <1>6, CreditEmitted DEF PeerRefuses
<1>7. CASE PeerBonds
  <2>1. PICK success, b, t :
          /\ chip' = [chip EXCEPT !.bonded = b, !.toSave = t]
          /\ Emits([type |-> "BondStatus", success |-> success])
    BY <1>7 DEF PeerBonds
  <2>2. chip'.inFlight = chip.inFlight /\ chip'.mode = chip.mode /\ chip.mode = "connected"
    BY <1>1, <1>7, <2>1 DEF PeerBonds, ChipShape
  <2>3. QED
    BY <1>1, <2>1, <2>2, CreditEmitted
<1>8. CASE LinkEnds
  <2>1. chip'.inFlight = 0 /\ chip'.mode = "standby" /\ chip.mode # "standby"
    BY <1>1, <1>8 DEF LinkEnds, Unlinked, ChipShape
  <2>2. QED
    BY <1>1, <1>8, <2>1, CreditEmitted DEF LinkEnds
<1>9. ~ChipFails
  BY DEF ChipFails
<1>10. QED
  BY <1>2, <1>3, <1>4, <1>5, <1>6, <1>7, <1>8, <1>9 DEF Chip

LEMMA InitCredit == Init => CreditInv
<1> SUFFICES ASSUME Init PROVE CreditInv
  OBVIOUS
<1>1. /\ DOMAIN events = {1} /\ events[1].type = "DeviceStarted"
      /\ DOMAIN out.tx = {1} /\ out.tx[1] = <<"info", 0>> /\ out.credit = 0
      /\ ~central /\ chip.inFlight = 0
  BY SingleFacts, BegunFacts DEF Init, SetUp
<1>2. ~IsData(out.tx[1]) /\ ~IsConnected(events[1])
  BY <1>1 DEF IsData, IsConnected
<1>3. Flow(out.tx, events, chip)
  BY <1>1, <1>2 DEF Flow
<1>4. QED
  BY <1>1, <1>3, InitTurn DEF CreditInv

LEMMA StepCredit ==
  CreditInv /\ ~HwErrors /\ NoWrites /\ Careful /\ [Next]_vars => CreditInv'
<1> SUFFICES ASSUME CreditInv, ~HwErrors, NoWrites, Careful, [Next]_vars PROVE CreditInv'
  OBVIOUS
<1>1. CASE UNCHANGED vars
  <2>1. TurnInv'
    BY <1>1, StepTurn DEF CreditInv
  <2>2. QED
    BY <1>1, <2>1 DEF vars, sketch, CreditInv
<1>2. QED
  BY <1>1, CallCredit, PollCredit, ChipCredit DEF Next, Overrun

(* Credit is never made up on a link: what the driver may still send, what *)
(* is on its way to the chip, what the chip buffers and what is on its way *)
(* back never exceed the chip's buffers, across reconnections too, until a *)
(* command is overrun, since the one that takes its place is sent twice.   *)
(* For sketches that set values only while a peer is subscribed and leave  *)
(* remote characteristics alone, which are written without spending any.   *)
THEOREM CreditConservedAlways ==
  ASSUME ~HwErrors, NoWrites, Careful PROVE Spec => []CreditConserved
<1>1. CreditInv => CreditConserved
  <2> SUFFICES ASSUME CreditInv PROVE CreditConserved
    OBVIOUS
  <2>1. Cardinality(Commands("data")) = Packets(out.tx)
    BY DEF Commands, Packets, IsData
  <2>2. Outstanding = Packets(out.tx) + chip.inFlight + Returned(events)
    BY <2>1 DEF Outstanding, EventsWith, Returned, Returns
  <2>3. QED
    BY <2>2 DEF CreditInv, Balance, CreditConserved
<1>2. Init => CreditInv
  BY InitCredit
<1>3. CreditInv /\ [Next]_vars => CreditInv'
  BY StepCredit
<1>4. QED
  BY <1>1, <1>2, <1>3, PTL DEF Spec

------------------------------------------------------------------------------
(* The first bond is to be saved: the event that tells is still to come,   *)
(* or the driver has marked it, or its data are being read.                *)
IsBondStatus(e) == e.type = "BondStatus"

Told(ev, believed) ==
  /\ ~believed
  /\ \E i \in DOMAIN ev :
       /\ IsBondStatus(ev[i]) /\ ev[i].success
       /\ \A j \in DOMAIN ev :
            IsBondStatus(ev[j]) => j = i \/ (j < i /\ ~ev[j].success)

Marked(ev, mark, linked) ==
  mark /\ linked /\ \A j \in DOMAIN ev : ~IsBondStatus(ev[j])

Reading(tx, ev, k) ==
  /\ k.mode = "standby"
  /\ \A i \in DOMAIN tx : Control(tx[i]) => tx[i][1] = "readDynamic"
  /\ \A j \in DOMAIN ev : Starter(ev[j]) => ev[j].type = "DataRead" /\ ~ev[j].complete

FirstBond(tx, ev, k, believed, mark, linked) ==
  /\ ~k.bonded => ~believed /\ \A i \in DOMAIN ev : IsBondStatus(ev[i]) => ~ev[i].success
  /\ k.toSave => Told(ev, believed) \/ Marked(ev, mark, linked) \/ Reading(tx, ev, k)

FirstBondInv ==
  BondingInv /\ FirstBond(out.tx, events, chip, bonded, storeDynamicData, central)

LEMMA AppendElements ==
  ASSUME NEW ev, IsQueue(ev), NEW e
  PROVE  /\ IsQueue(Append(ev, e))
         /\ Len(ev) + 1 \in DOMAIN Append(ev, e) /\ Append(ev, e)[Len(ev) + 1] = e
         /\ \A j \in DOMAIN Append(ev, e) :
              \/ j = Len(ev) + 1 /\ Append(ev, e)[j] = e
              \/ j \in DOMAIN ev /\ Append(ev, e)[j] = ev[j]
         /\ \A j \in DOMAIN ev :
              j \in DOMAIN Append(ev, e) /\ Append(ev, e)[j] = ev[j] /\ j < Len(ev) + 1
<1> DEFINE a == Append(ev, e)
<1>1. /\ DOMAIN a = 1 .. Len(ev) + 1 /\ a[Len(ev) + 1] = e /\ IsQueue(a)
      /\ \A i \in 1 .. Len(ev) : a[i] = ev[i]
      /\ DOMAIN ev = 1 .. Len(ev) /\ Len(ev) \in Nat
  BY AppendFacts, QueueFacts
<1> SUFFICES /\ IsQueue(a)
             /\ Len(ev) + 1 \in DOMAIN a /\ a[Len(ev) + 1] = e
             /\ \A j \in DOMAIN a :
                  \/ j = Len(ev) + 1 /\ a[j] = e
                  \/ j \in DOMAIN ev /\ a[j] = ev[j]
             /\ \A j \in DOMAIN ev : j \in DOMAIN a /\ a[j] = ev[j] /\ j < Len(ev) + 1
  OBVIOUS
<1> HIDE DEF a
<1>2. QED
  BY <1>1

(* An event that does not tell of a bond changes nothing.                  *)
LEMMA SavingAppend ==
  ASSUME NEW ev, IsQueue(ev), NEW e, ~IsBondStatus(e), NEW believed, NEW mark, NEW linked
  PROVE  /\ Told(ev, believed) => Told(Append(ev, e), believed)
         /\ Marked(ev, mark, linked) => Marked(Append(ev, e), mark, linked)
         /\ (\A i \in DOMAIN ev : IsBondStatus(ev[i]) => ~ev[i].success) =>
              \A i \in DOMAIN Append(ev, e) :
                IsBondStatus(Append(ev, e)[i]) => ~Append(ev, e)[i].success
<1> DEFINE a == Append(ev, e)
<1>1. /\ \A j \in DOMAIN a : a[j] = e \/ (j \in DOMAIN ev /\ a[j] = ev[j])
      /\ \A j \in DOMAIN ev : j \in DOMAIN a /\ a[j] = ev[j]
  BY AppendElements
<1> SUFFICES /\ Told(ev, believed) => Told(a, believed)
             /\ Marked(ev, mark, linked) => Marked(a, mark, linked)
             /\ (\A i \in DOMAIN ev : IsBondStatus(ev[i]) => ~ev[i].success) =>
                  \A i \in DOMAIN a : IsBondStatus(a[i]) => ~a[i].success
  OBVIOUS
<1> HIDE DEF a
<1>2. \A j \in DOMAIN a : IsBondStatus(a[j]) => j \in DOMAIN ev /\ a[j] = ev[j]
  BY <1>1
<1>3. Told(ev, believed) => Told(a, believed)
  BY <1>1, <1>2 DEF Told
<1>4. Marked(ev, mark, linked) => Marked(a, mark, linked)
  BY <1>2 DEF Marked
<1>5. QED
  BY <1>2, <1>3, <1>4

LEMMA CommandSaves ==
  ASSUME NEW k, ChipShape(k), NEW c
  PROVE  /\ ~ChipAfter(k, c).bonded => ~k.bonded
         /\ ChipAfter(k, c).toSave => k.toSave
         /\ ChipAfter(k, c).toSave /\ c[1] = "readDynamic" /\ k.mode = "standby" =>
              k.read + 1 # Chunks
<1> USE DEF ChipShape
<1>1. CASE c[1] = "readDynamic" /\ k.mode = "standby"
  <2>1. ChipAfter(k, c) = [k EXCEPT !.read = (@ + 1) % Chunks,
                                    !.toSave = @ /\ k.read + 1 # Chunks]
    BY <1>1 DEF ChipAfter, Advertising, Connectable
  <2>2. /\ ChipAfter(k, c).bonded = k.bonded
        /\ ChipAfter(k, c).toSave = (k.toSave /\ k.read + 1 # Chunks)
    BY <2>1
  <2>3. QED
    BY <2>2
<1>2. CASE ~(c[1] = "readDynamic" /\ k.mode = "standby")
  <2>1. ChipAfter(k, c).bonded = k.bonded /\ ChipAfter(k, c).toSave = k.toSave
    BY <1>2 DEF ChipAfter, Advertising, Connectable
  <2>2. QED
    BY <1>2, <2>1
<1>3. QED
  BY <1>1, <1>2

LEMMA SavingCommand ==
  ASSUME NEW tx, IsQueue(tx), tx # << >>, NEW ev, IsQueue(ev), NEW k, ChipShape(k),
         NEW believed, NEW mark, NEW linked, FirstBond(tx, ev, k, believed, mark, linked)
  PROVE  FirstBond(Rest(tx), ev \o Replies(k, Head(tx)), ChipAfter(k, Head(tx)),
                believed, mark, linked)
<1> DEFINE c == Head(tx)
           n == ChipAfter(k, c)
           r == Replies(k, c)
           a == ev \o r
           rest == Rest(tx)
<1> SUFFICES FirstBond(rest, a, n, believed, mark, linked)
  OBVIOUS
<1>0. n = ChipAfter(k, c) /\ r = Replies(k, c) /\ a = ev \o r /\ c = Head(tx) /\ rest = Rest(tx)
  OBVIOUS
<1> HIDE DEF c, n, r, a, rest
<1>1. /\ \A i \in DOMAIN rest : i + 1 \in DOMAIN tx /\ rest[i] = tx[i + 1]
      /\ 1 \in DOMAIN tx /\ c = tx[1]
  BY <1>0, RestIndex
<1>2. /\ ~n.bonded => ~k.bonded
      /\ n.toSave => k.toSave
      /\ n.toSave /\ c[1] = "readDynamic" /\ k.mode = "standby" => k.read + 1 # Chunks
  BY <1>0, CommandSaves
<1>3. ASSUME k.mode = "standby", Control(c) => c[1] = "readDynamic", n.toSave
      PROVE  /\ n.mode = "standby"
             /\ \A e : r = << e >> /\ Starter(e) => e.type = "DataRead" /\ ~e.complete
  <2> USE <1>3 DEF Control, Starter, Advertising, Connectable
  <2>1. CASE Advertised(k, c, n, r)
    BY <2>1 DEF Advertised
  <2>2. CASE Fetched(k, c, n, r)
    <3> DEFINE d == [type |-> "DataRead", seqNo |-> k.read + 1,
                     complete |-> k.read + 1 = Chunks]
    <3>1. n.mode = "standby" /\ r = << d >> /\ k.read + 1 # Chunks
      BY <1>2, <2>2 DEF Fetched
    <3>2. d.type = "DataRead" /\ ~d.complete
      BY <3>1
    <3> HIDE DEF d
    <3>3. \A e : << d >> = << e >> => e = d
      BY SingleFacts
    <3>4. QED
      BY <3>1, <3>2, <3>3
  <2>3. CASE Written(k, c, n, r)
    BY <2>3 DEF Written
  <2>4. CASE Buffered(k, c, n, r) \/ Timed(k, c, n, r)
    BY <2>4 DEF Buffered, Timed
  <2>5. CASE Declined(k, c, n, r)
    <3> DEFINE d == [type |-> "PipeError", peer |-> FALSE]
    <3>1. n = k /\ r = << d >> /\ ~Starter(d)
      BY <2>5 DEF Declined
    <3> HIDE DEF d
    <3>2. \A e : << d >> = << e >> => e = d
      BY SingleFacts
    <3>3. QED
      BY <3>1, <3>2
  <2>6. CASE Other(k, c, n, r)
    <3>1. n.mode = "standby" /\ r = << >>
      BY <2>6 DEF Other
    <3>2. \A e : << >> # << e >>
      BY SingleFacts
    <3>3. QED
      BY <3>1, <3>2
  <2>7. QED
    BY <1>0, <2>1, <2>2, <2>3, <2>4, <2>5, <2>6, CommandCases
<1>4. ASSUME Reading(tx, ev, k), n.toSave, r = << >> \/ \E e : r = << e >>
      PROVE  Reading(rest, a, n)
  <2>1. Control(c) => c[1] = "readDynamic"
    BY <1>1, <1>4 DEF Reading
  <2>2. /\ n.mode = "standby"
        /\ \A e : r = << e >> /\ Starter(e) => e.type = "DataRead" /\ ~e.complete
    BY <1>3, <1>4, <2>1 DEF Reading
  <2>3. \A i \in DOMAIN rest : Control(rest[i]) => rest[i][1] = "readDynamic"
    BY <1>1, <1>4 DEF Reading
  <2>4. CASE r = << >>
    <3>1. a = ev
      BY <1>0, <2>4, ConcatCases
    <3>2. QED
      BY <1>4, <2>2, <2>3, <3>1 DEF Reading
  <2>5. CASE \E e : r = << e >>
    <3>1. PICK e : r = << e >>
      BY <2>5
    <3>2. a = Append(ev, e)
      BY <1>0, <3>1, ConcatCases
    <3>3. \A j \in DOMAIN a : a[j] = e \/ \E i \in DOMAIN ev : a[j] = ev[i]
      BY <3>2, AppendElements
    <3>4. QED
      BY <1>4, <2>2, <2>3, <3>1, <3>3 DEF Reading
  <2>6. QED
    BY <1>4, <2>4, <2>5
<1>5. r = << >> \/ \E e : r = << e >> /\ ~IsBondStatus(e)
  BY <1>0 DEF Replies, IsBondStatus
<1>6. /\ Told(ev, believed) => Told(a, believed)
      /\ Marked(ev, mark, linked) => Marked(a, mark, linked)
      /\ (\A i \in DOMAIN ev : IsBondStatus(ev[i]) => ~ev[i].success) =>
           \A i \in DOMAIN a : IsBondStatus(a[i]) => ~a[i].success
  <2>1. CASE r = << >>
    <3>1. a = ev
      BY <1>0, <2>1, ConcatCases
    <3>2. QED
      BY <3>1
  <2>2. CASE \E e : r = << e >> /\ ~IsBondStatus(e)
    <3>1. PICK e : r = << e >> /\ ~IsBondStatus(e)
      BY <2>2
    <3>2. a = Append(ev, e)
      BY <1>0, <3>1, ConcatCases
    <3>3. QED
      BY <3>1, <3>2, SavingAppend
  <2>3. QED
    BY <1>5, <2>1, <2>2
<1>7. ~n.bonded => ~believed /\ \A i \in DOMAIN a : IsBondStatus(a[i]) => ~a[i].success
  BY <1>2, <1>6 DEF FirstBond
<1>8. n.toSave => Told(a, believed) \/ Marked(a, mark, linked) \/ Reading(rest, a, n)
  BY <1>2, <1>4, <1>5, <1>6 DEF FirstBond
<1>9. QED
  BY <1>7, <1>8 DEF FirstBond

(* What the driver keeps of the bond.                                      *)
LEMMA DriverMarks ==
  ASSUME poll
  PROVE  /\ events = << >> => bonded' = bonded /\ storeDynamicData' = storeDynamicData
         /\ events # << >> /\ IsBondStatus(Head(events)) /\ Head(events).success =>
              bonded' /\ (~bonded => storeDynamicData')
         /\ events # << >> /\ IsBondStatus(Head(events)) /\ ~Head(events).success => ~bonded'
         /\ events # << >> /\ IsBondStatus(Head(events)) =>
              (storeDynamicData' => Head(events).success)
         /\ events # << >> /\ IsDisconnected(Head(events)) => ~storeDynamicData'
         /\ events # << >> /\ ~IsBondStatus(Head(events)) => bonded' = bonded
         /\ events # << >> /\ ~IsBondStatus(Head(events)) /\ ~IsDisconnected(Head(events)) =>
              storeDynamicData' = storeDynamicData
<1> USE DEF IsBondStatus, IsDisconnected, Gets, bonding
<1>1. CASE NoEvent
  BY <1>1 DEF NoEvent
<1>2. CASE DeviceStarted
  BY <1>2 DEF DeviceStarted
<1>3. CASE DataRead
  BY <1>3 DEF DataRead
<1>4. CASE DataWritten
  BY <1>4 DEF DataWritten
<1>5. CASE Connected
  BY <1>5 DEF Connected
<1>6. CASE PipeStatus
  BY <1>6 DEF PipeStatus
<1>7. CASE Disconnected
  BY <1>7 DEF Disconnected
<1>8. CASE BondStatus
  BY <1>8 DEF BondStatus
<1>9. CASE DataReceived
  BY <1>9 DEF DataReceived
<1>10. CASE DataCredit
  BY <1>10 DEF DataCredit
<1>11. CASE PipeError
  BY <1>11 DEF PipeError
<1>12. CASE HwError
  BY <1>12 DEF HwError
<1>13. QED
  BY <1>1, <1>2, <1>3, <1>4, <1>5, <1>6, <1>7, <1>8, <1>9, <1>10, <1>11, <1>12 DEF poll

LEMMA PollSaving ==
  ASSUME FirstBondInv, poll
  PROVE  FirstBondInv'
<1> DEFINE tx == Received.tx
           ev == AfterCommand
           k == chip'
           e == Head(events)
           ux == out'.tx
           r == events'
<1>1. /\ BondingInv /\ TurnInv /\ BondingInv'
      /\ FirstBond(out.tx, events, chip, bonded, storeDynamicData, central)
  BY PollBonding DEF FirstBondInv, BondingInv
<1>2. /\ OutShape(out) /\ OutShape(Received) /\ IsQueue(events) /\ ChipShape(chip)
      /\ IsQueue(out.tx) /\ IsQueue(ev) /\ Turn(tx, ev, k) /\ LinkOrder(ev, k)
  BY <1>1, PollSteps
<1>3. FirstBond(tx, ev, k, bonded, storeDynamicData, central)
  <2>1. CASE out.tx = << >>
    <3>1. tx = out.tx /\ ev = events /\ k = chip
      BY <1>1, <2>1, PollSteps
    <3>2. QED
      BY <1>1, <3>1
  <2>2. CASE out.tx # << >>
    <3>1. /\ tx = Rest(out.tx) /\ ev = events \o Replies(chip, Head(out.tx))
          /\ k = ChipAfter(chip, Head(out.tx))
      BY <1>1, <2>2, PollSteps
    <3>2. QED
      BY <1>1, <1>2, <2>2, <3>1, SavingCommand
  <2>3. QED
    BY <2>1, <2>2
<1>4. CASE events = << >>
  <2>1. /\ out' = Received /\ events' = ev /\ central' = central
        /\ bonded' = bonded /\ storeDynamicData' = storeDynamicData
    BY <1>1, <1>4, PollSteps, DriverSees, DriverMarks
  <2>2. QED
    BY <1>1, <1>3, <2>1 DEF FirstBondInv
<1>5. CASE events # << >>
  <2>1. /\ ev # << >> /\ Head(ev) = e /\ r = Rest(ev)
        /\ e.type # "HwError" /\ Replied(Received, out', e)
    BY <1>1, <1>5, PollSteps
  <2>2. /\ 1 \in DOMAIN ev /\ e = ev[1]
        /\ \A i \in DOMAIN r : i \in Nat /\ i > 0 /\ i + 1 \in DOMAIN ev /\ r[i] = ev[i + 1]
        /\ \A j \in DOMAIN ev :
             j \in Nat /\ (j = 1 \/ (j > 1 /\ j - 1 \in DOMAIN r /\ r[j - 1] = ev[j]))
    BY <1>2, <2>1, RestIndex
  <2>3. /\ DOMAIN tx = 1 .. Len(tx) /\ DOMAIN ux = 1 .. Len(ux)
        /\ Len(tx) \in Nat /\ Len(ux) \in Nat
        /\ \A i \in 1 .. Len(tx) : ux[i] = tx[i]
    BY <1>2, <2>1, QueueFacts DEF Replied, Grows, OutShape
  <2>4. /\ \A i \in DOMAIN ux :
             i \in New(Received, out') \/ (i \in DOMAIN tx /\ ux[i] = tx[i])
        /\ \A i \in New(Received, out') : Control(ux[i]) => Starter(e)
    BY <2>1, <2>3 DEF New, Replied
  <2>5. /\ IsBondStatus(e) /\ e.success => bonded' /\ (~bonded => storeDynamicData')
        /\ IsBondStatus(e) /\ ~e.success => ~bonded'
        /\ ~IsBondStatus(e) => bonded' = bonded
        /\ ~IsBondStatus(e) /\ ~IsDisconnected(e) => storeDynamicData' = storeDynamicData
    BY <1>5, DriverMarks
  <2>6. /\ IsConnected(e) => central'
        /\ ~IsConnected(e) /\ ~IsDisconnected(e) => central' = central
    BY <1>5, DriverSees
  <2>7. /\ IsDisconnected(e) /\ storeDynamicData => Asks(Received, out', {"readDynamic"})
        /\ e.type = "DataRead" /\ ~e.complete => Asks(Received, out', {"readDynamic"})
    <3>1. 1 \in DOMAIN events /\ e = events[1]
      BY <1>2, <1>5, RestIndex
    <3>2. e.type = "DeviceStarted" => ~e.hwError
      BY <1>1, <3>1 DEF BondingInv, Bonding, Starter
    <3>3. QED
      BY <1>1, <1>2, <1>5, <2>1, <3>2, Answers DEF IsDisconnected
  <2>8. OfLink(e) => central
    BY <1>2, <2>1, OfLinkHead
  <2> HIDE DEF tx, ev, k, e, ux, r
  <2>9. ASSUME Told(ev, bonded) PROVE Told(r, bonded') \/ Marked(r, storeDynamicData', central')
    <3>1. PICK i \in DOMAIN ev :
            /\ IsBondStatus(ev[i]) /\ ev[i].success
            /\ \A j \in DOMAIN ev : IsBondStatus(ev[j]) => j = i \/ (j < i /\ ~ev[j].success)
      BY <2>9 DEF Told
    <3>2. CASE i = 1
      <4>1. IsBondStatus(e) /\ e.success /\ OfLink(e) /\ ~IsConnected(e) /\ ~IsDisconnected(e)
        BY <2>2, <3>1, <3>2 DEF IsBondStatus, OfLink, IsConnected, IsDisconnected
      <4>2. storeDynamicData' /\ central'
        BY <2>5, <2>6, <2>8, <2>9, <4>1 DEF Told
      <4>3. ASSUME NEW j \in DOMAIN r, IsBondStatus(r[j]) PROVE FALSE
        <5>1. j \in Nat /\ j > 0 /\ (j + 1 = 1 \/ j + 1 < 1)
          BY <2>2, <3>1, <3>2, <4>3
        <5>2. QED
          BY <5>1
      <4>4. QED
        BY <4>2, <4>3 DEF Marked
    <3>3. CASE i # 1
      <4>1. ~bonded'
        <5>1. CASE IsBondStatus(e)
          BY <2>2, <2>5, <3>1, <3>3, <5>1
        <5>2. CASE ~IsBondStatus(e)
          BY <2>5, <2>9, <5>2 DEF Told
        <5>3. QED
          BY <5>1, <5>2
      <4>2. i - 1 \in DOMAIN r /\ r[i - 1] = ev[i] /\ i \in Nat
        BY <2>2, <3>1, <3>3
      <4>3. ASSUME NEW j \in DOMAIN r, IsBondStatus(r[j])
            PROVE  j = i - 1 \/ (j < i - 1 /\ ~r[j].success)
        <5>1. j \in Nat /\ (j + 1 = i \/ (j + 1 < i /\ ~r[j].success))
          BY <2>2, <3>1, <4>3
        <5>2. QED
          BY <4>2, <5>1
      <4>4. QED
        BY <3>1, <4>1, <4>2, <4>3 DEF Told
    <3>4. QED
      BY <3>2, <3>3
  <2>10. ASSUME Marked(ev, storeDynamicData, central)
         PROVE  Marked(r, storeDynamicData', central') \/ Reading(ux, r, k)
    <3>1. ~IsBondStatus(e) /\ \A j \in DOMAIN r : ~IsBondStatus(r[j])
      BY <2>2, <2>10 DEF Marked
    <3>2. CASE ~IsDisconnected(e)
      <4>1. storeDynamicData' /\ central'
        BY <2>5, <2>6, <2>10, <3>1, <3>2 DEF Marked
      <4>2. QED
        BY <3>1, <4>1 DEF Marked
    <3>3. CASE IsDisconnected(e)
      <4>1. Starter(e)
        BY <3>3 DEF IsDisconnected, Starter
      <4>2. k.mode = "standby" /\ NoControl(tx)
        BY <1>2, <2>2, <4>1 DEF Turn, NoControl
      <4>3. ASSUME NEW j \in DOMAIN r, Starter(r[j]) PROVE FALSE
        <5>1. j \in Nat /\ j > 0 /\ j + 1 = 1
          BY <1>2, <2>2, <4>1, <4>3 DEF Turn
        <5>2. QED
          BY <5>1
      <4>4. \A i \in New(Received, out') : Control(ux[i]) => ux[i][1] = "readDynamic"
        BY <2>7, <2>10, <3>3 DEF Asks, Marked, ux
      <4>5. \A i \in DOMAIN ux : Control(ux[i]) => ux[i][1] = "readDynamic"
        BY <2>4, <4>2, <4>4 DEF NoControl
      <4>6. QED
        BY <4>2, <4>3, <4>5 DEF Reading
    <3>4. QED
      BY <3>2, <3>3
  <2>11. ASSUME Reading(tx, ev, k) PROVE Reading(ux, r, k)
    <3>1. \A i \in New(Received, out') : Control(ux[i]) => ux[i][1] = "readDynamic"
      <4>1. CASE Starter(e)
        <5>1. e.type = "DataRead" /\ ~e.complete
          BY <2>2, <2>11, <4>1 DEF Reading
        <5>2. QED
          BY <2>7, <5>1 DEF Asks, ux
      <4>2. CASE ~Starter(e)
        BY <2>4, <4>2
      <4>3. QED
        BY <4>1, <4>2
    <3>2. \A i \in DOMAIN ux : Control(ux[i]) => ux[i][1] = "readDynamic"
      BY <2>4, <2>11, <3>1 DEF Reading
    <3>3. QED
      BY <2>2, <2>11, <3>2 DEF Reading
  <2>12. ~k.bonded => ~bonded' /\ \A i \in DOMAIN r : IsBondStatus(r[i]) => ~r[i].success
    <3>1. ASSUME ~k.bonded PROVE ~bonded'
      <4>1. CASE IsBondStatus(e)
        BY <1>3, <2>2, <2>5, <3>1, <4>1 DEF FirstBond
      <4>2. CASE ~IsBondStatus(e)
        BY <1>3, <2>5, <3>1, <4>2 DEF FirstBond
      <4>3. QED
        BY <4>1, <4>2
    <3>2. QED
      BY <1>3, <2>2, <3>1 DEF FirstBond
  <2>13. FirstBond(ux, r, k, bonded', storeDynamicData', central')
    BY <1>3, <2>9, <2>10, <2>11, <2>12 DEF FirstBond
  <2>14. QED
    BY <1>1, <2>13 DEF FirstBondInv, ux, r, k
<1>6. QED
  BY <1>4, <1>5

LEMMA CallSaving ==
  ASSUME FirstBondInv, Call
  PROVE  FirstBondInv'
<1>1. BondingInv' /\ Acts(out, out', "any")
  BY CallBonding, CallTurn DEF FirstBondInv, BondingInv
<1>2. /\ chip' = chip /\ events' = events /\ central' = central /\ bonded' = bonded
      /\ storeDynamicData' = storeDynamicData
  BY DEF Call, bonding, sketch
<1>3. /\ DOMAIN out.tx = 1 .. Len(out.tx) /\ DOMAIN out'.tx = 1 .. Len(out'.tx)
      /\ Len(out.tx) \in Nat /\ Len(out'.tx) \in Nat
      /\ \A i \in 1 .. Len(out.tx) : out'.tx[i] = out.tx[i]
  BY <1>1, QueueFacts DEF FirstBondInv, BondingInv, TurnInv, Acts, Grows, OutShape
<1>4. \A i \in DOMAIN out'.tx : Control(out'.tx[i]) => i \in DOMAIN out.tx /\ out'.tx[i] = out.tx[i]
  BY <1>1, <1>3 DEF Acts, New
<1>5. Reading(out.tx, events, chip) => Reading(out'.tx, events, chip)
  BY <1>4 DEF Reading
<1>6. FirstBond(out'.tx, events, chip, bonded, storeDynamicData, central)
  BY <1>5 DEF FirstBondInv, FirstBond
<1>7. QED
  BY <1>1, <1>2, <1>6 DEF FirstBondInv

LEMMA SavingEmitted ==
  ASSUME FirstBondInv, BondingInv', NEW e, Emits(e), chip.mode # "standby",
         ~IsBondStatus(e), chip'.bonded = chip.bonded, chip'.toSave = chip.toSave
  PROVE  FirstBondInv'
<1>1. /\ events' = Append(events, e) /\ out' = out /\ central' = central
      /\ bonded' = bonded /\ storeDynamicData' = storeDynamicData
  BY DEF Emits, bonding, sketch
<1>2. /\ IsQueue(events)
      /\ FirstBond(out.tx, events, chip, bonded, storeDynamicData, central)
  BY DEF FirstBondInv, BondingInv, TurnInv
<1>3. ~Reading(out.tx, events, chip)
  BY DEF Reading
<1>4. FirstBond(out.tx, Append(events, e), chip', bonded, storeDynamicData, central)
  BY <1>2, <1>3, SavingAppend DEF FirstBond
<1>5. QED
  BY <1>1, <1>4 DEF FirstBondInv

LEMMA BondsSaving ==
  ASSUME FirstBondInv, BondingInv', PeerBonds
  PROVE  FirstBondInv'
<1>1. PICK success \in BOOLEAN :
        /\ chip' = [chip EXCEPT !.bonded = @ \/ success, !.toSave = ~@ /\ success /\ ~chip.bonded]
        /\ Emits([type |-> "BondStatus", success |-> success])
  BY DEF PeerBonds
<1> DEFINE e == [type |-> "BondStatus", success |-> success]
           a == Append(events, e)
           l == Len(events) + 1
<1>2. /\ events' = a /\ out' = out /\ central' = central
      /\ bonded' = bonded /\ storeDynamicData' = storeDynamicData
  BY <1>1 DEF Emits, bonding, sketch
<1>3. /\ IsQueue(events) /\ ChipShape(chip)
      /\ FirstBond(out.tx, events, chip, bonded, storeDynamicData, central)
  BY DEF FirstBondInv, BondingInv, TurnInv
<1>4. /\ chip'.bonded = (chip.bonded \/ success)
      /\ chip'.toSave = (~chip.toSave /\ success /\ ~chip.bonded)
  BY <1>1, <1>3 DEF ChipShape
<1>5. ~chip'.bonded => ~chip.bonded /\ ~success
  BY <1>4
<1>6. chip'.toSave => success /\ ~chip.bonded
  BY <1>4
<1>7. IsBondStatus(e) /\ e.success = success
  BY DEF IsBondStatus
<1> HIDE DEF e
<1>8. /\ l \in DOMAIN a /\ a[l] = e
      /\ \A j \in DOMAIN a :
           \/ j = l /\ a[j] = e
           \/ j \in DOMAIN events /\ a[j] = events[j] /\ j < l
  BY <1>3, AppendElements
<1> HIDE DEF a, l
<1>9. ASSUME ~chip.bonded
      PROVE  ~bonded /\ \A i \in DOMAIN events : IsBondStatus(events[i]) => ~events[i].success
  BY <1>3, <1>9 DEF FirstBond
<1>10. ASSUME ~chip'.bonded
       PROVE  ~bonded /\ \A i \in DOMAIN a : IsBondStatus(a[i]) => ~a[i].success
  BY <1>5, <1>7, <1>8, <1>9, <1>10
<1>11. ASSUME chip'.toSave PROVE Told(a, bonded)
  <2>1. ~bonded /\ e.success
    BY <1>6, <1>7, <1>9, <1>11
  <2>2. \A j \in DOMAIN a : IsBondStatus(a[j]) => j = l \/ (j < l /\ ~a[j].success)
    BY <1>6, <1>8, <1>9, <1>11
  <2>3. QED
    BY <1>7, <1>8, <2>1, <2>2 DEF Told
<1>12. FirstBond(out.tx, a, chip', bonded, storeDynamicData, central)
  BY <1>10, <1>11 DEF FirstBond
<1>13. QED
  BY <1>2, <1>12 DEF FirstBondInv

LEMMA ChipSaving ==
  ASSUME FirstBondInv, ~HwErrors, Chip
  PROVE  FirstBondInv'
<1> USE DEF IsBondStatus, Connectable
<1>1. ChipShape(chip) /\ BondingInv'
  BY ChipBonding DEF FirstBondInv, BondingInv, TurnInv
<1>2. CASE PeerConnects
  <2>1. chip'.bonded = chip.bonded /\ chip'.toSave = chip.toSave /\ chip.mode # "standby"
    BY <1>1, <1>2 DEF PeerConnects, ChipShape
  <2>2. QED
    BY <1>1, <1>2, <2>1, SavingEmitted DEF PeerConnects
<1>3. CASE PeerSetsPipes
  <2>1. PICK pipes, closed :
          /\ chip' = [chip EXCEPT !.open = pipes]
          /\ Emits([type |-> "PipeStatus", open |-> pipes, closed |-> closed])
    BY <1>3 DEF PeerSetsPipes
  <2>2. chip'.bonded = chip.bonded /\ chip'.toSave = chip.toSave /\ chip.mode # "standby"
    BY <1>1, <1>3, <2>1 DEF PeerSetsPipes, ChipShape
  <2>3. QED
    BY <1>1, <2>1, <2>2, SavingEmitted
<1>4. CASE PeerSends
  <2>1. PICK p, u :
          /\ chip' = [chip EXCEPT !.unacked = u]
          /\ Emits([type |-> "DataReceived", pipe |-> p])
    BY <1>4 DEF PeerSends
  <2>2. chip'.bonded = chip.bonded /\ chip'.toSave = chip.toSave /\ chip.mode # "standby"
    BY <1>1, <1>4, <2>1 DEF PeerSends, ChipShape
  <2>3. QED
    BY <1>1, <2>1, <2>2, SavingEmitted
<1>5. CASE PeerTakesData
  <2>1. chip'.bonded = chip.bonded /\ chip'.toSave = chip.toSave /\ chip.mode # "standby"
    BY <1>1, <1>5 DEF PeerTakesData, ChipShape
  <2>2. QED
    BY <1>1, <1>5, <2>1, SavingEmitted DEF PeerTakesData
<1>6. CASE PeerRefuses
  BY <1>1, <1>6, SavingEmitted DEF PeerRefuses
<1>7. CASE PeerBonds
  BY <1>1, <1>7, BondsSaving
<1>8. CASE LinkEnds
  <2>1. chip'.bonded = chip.bonded /\ chip'.toSave = chip.toSave /\ chip.mode # "standby"
    BY <1>1, <1>8 DEF LinkEnds, Unlinked, ChipShape
  <2>2. QED
    BY <1>1, <1>8, <2>1, SavingEmitted DEF LinkEnds
<1>9. ~ChipFails
  BY DEF ChipFails
<1>10. QED
  BY <1>2, <1>3, <1>4, <1>5, <1>6, <1>7, <1>8, <1>9 DEF Chip

LEMMA InitSaving == Init => FirstBondInv
<1> SUFFICES ASSUME Init PROVE FirstBondInv
  OBVIOUS
<1>1. /\ DOMAIN events = {1} /\ ~IsBondStatus(events[1]) /\ ~bonded /\ ~chip.toSave
  BY SingleFacts DEF Init, SetUp, IsBondStatus
<1>2. QED
  BY <1>1, InitBonding DEF FirstBondInv, FirstBond

LEMMA StepSaving == FirstBondInv /\ ~HwErrors /\ [Next]_vars => FirstBondInv'
<1> SUFFICES ASSUME FirstBondInv, ~HwErrors, [Next]_vars PROVE FirstBondInv'
  OBVIOUS
<1>1. CASE UNCHANGED vars
  <2>1. BondingInv'
    BY <1>1, StepBonding DEF FirstBondInv
  <2>2. QED
    BY <1>1, <2>1 DEF vars, bonding, sketch, FirstBondInv
<1>2. QED
  BY <1>1, CallSaving, PollSaving, ChipSaving DEF Next, Overrun

(* The data of the first bond are in the bond store before the chip        *)
(* advertises again, however long the queue of events and whatever the     *)
(* handlers send, unless another bond status event followed on the link or *)
(* a command was overrun.                                                  *)
THEOREM FirstBondAlways == ASSUME ~HwErrors PROVE Spec => []FirstBondSaved
<1>1. FirstBondInv => FirstBondSaved
  <2> SUFFICES ASSUME FirstBondInv, chip.mode \in Advertising, chip.toSave PROVE FALSE
    BY DEF FirstBondSaved
  <2>1. /\ Turn(out.tx, events, chip) /\ LinkOrder(events, chip)
        /\ FirstBond(out.tx, events, chip, bonded, storeDynamicData, central)
    BY DEF FirstBondInv, BondingInv, TurnInv
  <2>2. chip.mode # "standby" /\ ~Linked(chip)
    BY DEF Advertising, Connectable, Linked
  <2>3. ~central
    BY <2>1, CentralTurn
  <2>4. \A i \in DOMAIN events : ~IsDisconnected(events[i])
    BY <2>1, <2>2 DEF Turn, Starter, IsDisconnected
  <2>5. \A i \in DOMAIN events : ~IsConnected(events[i])
    BY <2>1, <2>2, <2>4 DEF LinkOrder
  <2>6. \A i \in DOMAIN events : ~IsBondStatus(events[i])
    BY <2>1, <2>3, <2>5 DEF LinkOrder, OfLink, IsBondStatus
  <2>7. QED
    BY <2>1, <2>2, <2>3, <2>6 DEF FirstBond, Told, Marked, Reading
<1>2. Init => FirstBondInv
  BY InitSaving
<1>3. FirstBondInv /\ [Next]_vars => FirstBondInv'
  BY StepSaving
<1>4. QED
  BY <1>1, <1>2, <1>3, PTL DEF Spec

------------------------------------------------------------------------------
(* Types.  What the driver and its chip hold, and what the events say.     *)
AnyCommand == Operations \X Nat

LEMMA ByteFacts == \A x : x \in Byte <=> x \in Nat /\ x <= 255
BY DEF Byte

OutOK(o) ==
  /\ o \in [tx : Seq(AnyCommand), head : 0 .. IndexRange - 1, overrun : BOOLEAN,
            credit : Byte, open : SUBSET Pipes, closed : SUBSET Pipes, broadcast : Pipes]
  /\ Len(o.tx) <= ACI_QUEUE_SIZE

EventOK(e) ==
  /\ e.type = "PipeStatus" => e.open \subseteq Openable /\ e.closed \subseteq Pipes
  /\ e.type = "DataReceived" => e.pipe \in Pipes
  /\ e.type = "DataCredit" => e.credit \in Nat
  /\ e.type = "DataRead" => e.seqNo \in 1 .. Chunks
  /\ e.type = "BondStatus" => e.success \in BOOLEAN

ChipOK(k) ==
  /\ ChipShape(k) /\ k.mode \in Modes
  /\ k.inFlight \in 0 .. Credits /\ k.unacked \in Pipes /\ k.open \subseteq Openable
  /\ k.read \in 0 .. Chunks - 1 /\ k.restored \in 0 .. Chunks

(* The pipes of a characteristic.                                          *)
LEMMA PipeFacts ==
  /\ \A c \in Characteristics :
       /\ Local[c].adv \in Pipes /\ Local[c].tx \in Pipes /\ Local[c].txAck \in Pipes
       /\ Local[c].rx \in Pipes /\ Local[c].rxAck \in Pipes /\ Local[c].set \in Pipes
  /\ \A r \in DOMAIN Remote :
       /\ Remote[r].tx \in Pipes /\ Remote[r].txAck \in Pipes /\ Remote[r].rx \in Pipes
       /\ Remote[r].rxAck \in Pipes /\ Remote[r].rxReq \in Pipes
  /\ Pipes \subseteq Byte
  /\ 0 \in Pipes
<1>1. \A c \in Characteristics : \A f \in DOMAIN Local[c] : Local[c][f] \in Pipes
  BY DEF Pipes
<1>2. \A r \in DOMAIN Remote : \A f \in DOMAIN Remote[r] : Remote[r][f] \in Pipes
  BY DEF Pipes
<1>3. \A c \in Characteristics :
        Local[c] \in [{"adv", "tx", "txAck", "rx", "rxAck", "set"} -> Byte]
  BY PipesAssumption DEF Characteristics
<1>4. \A r \in DOMAIN Remote :
        Remote[r] \in [{"tx", "txAck", "rx", "rxAck", "rxReq"} -> Byte]
  BY PipesAssumption
<1>5. \A c \in Characteristics :
       /\ Local[c].adv \in Pipes /\ Local[c].tx \in Pipes /\ Local[c].txAck \in Pipes
       /\ Local[c].rx \in Pipes /\ Local[c].rxAck \in Pipes /\ Local[c].set \in Pipes
  BY <1>1, <1>3
<1>6. \A r \in DOMAIN Remote :
       /\ Remote[r].tx \in Pipes /\ Remote[r].txAck \in Pipes /\ Remote[r].rx \in Pipes
       /\ Remote[r].rxAck \in Pipes /\ Remote[r].rxReq \in Pipes
  BY <1>2, <1>4
<1>7. \A p \in Pipes : p \in Byte
  <2>1. \A c \in Characteristics : \A f \in DOMAIN Local[c] : Local[c][f] \in Byte
    BY <1>3
  <2>2. \A r \in DOMAIN Remote : \A f \in DOMAIN Remote[r] : Remote[r][f] \in Byte
    BY <1>4
  <2>3. 0 \in Byte /\ 1 \in Byte
    BY ByteFacts
  <2>4. QED
    BY <2>1, <2>2, <2>3 DEF Pipes
<1>8. 0 \in Pipes
  BY DEF Pipes
<1>9. QED
  BY <1>5, <1>6, <1>7, <1>8

LEMMA OutOKShape ==
  ASSUME NEW o, OutOK(o)
  PROVE  OutShape(o)
BY DEF OutOK, OutShape, IsQueue

LEMMA FieldOK ==
  ASSUME NEW o, OutOK(o)
  PROVE  /\ OutOK(Refused(o))
         /\ \A x \in Byte : OutOK([o EXCEPT !.credit = x])
         /\ \A x \in Pipes : OutOK([o EXCEPT !.broadcast = x])
         /\ \A x, y \in SUBSET Pipes : OutOK([o EXCEPT !.open = x, !.closed = y])
BY DEF OutOK, Refused

LEMMA SentOK ==
  ASSUME NEW o, OutOK(o), NEW cmd \in AnyCommand
  PROVE  OutOK(Sent(o, cmd))
<1>1. CASE ~Room(o)
  BY <1>1, FieldOK DEF Sent
<1>2. CASE Room(o)
  <2> DEFINE tx == Append(o.tx, cmd)
  <2>1. o.tx \in Seq(AnyCommand) /\ Len(o.tx) < 4
    BY <1>2 DEF OutOK, Room, ACI_QUEUE_SIZE
  <2>2. tx \in Seq(AnyCommand) /\ Len(tx) = Len(o.tx) + 1 /\ Len(o.tx) \in Nat
    BY <2>1
  <2>3. Sent(o, cmd) = [o EXCEPT !.tx = tx]
    BY <1>2 DEF Sent
  <2> HIDE DEF tx
  <2>4. QED
    BY <2>1, <2>2, <2>3 DEF OutOK, ACI_QUEUE_SIZE
<1>3. QED
  BY <1>1, <1>2

LEMMA SentToOK ==
  ASSUME NEW o, OutOK(o), NEW op \in Operations, NEW p \in Pipes
  PROVE  OutOK(SentTo(o, op, p)) /\ OutOK(Sent(o, <<op, p>>)) /\ OutOK(Sent(o, <<op, 0>>))
<1>1. p \in Nat /\ 0 \in Nat
  BY PipeFacts, ByteFacts
<1>2. <<op, p>> \in AnyCommand /\ <<op, 0>> \in AnyCommand
  BY <1>1 DEF AnyCommand
<1>3. QED
  BY <1>2, SentOK DEF SentTo

LEMMA NotifiedOK ==
  ASSUME NEW o, OutOK(o), NEW flags, NEW p \in Pipes
  PROVE  OutOK(Notified(o, flags, p))
<1>1. "data" \in Operations
  BY DEF Operations
<1>2. CASE p \in flags /\ canNotifyCharacteristic(o)
  <2> DEFINE spent == [o EXCEPT !.credit = o.credit - 1]
  <2>1. o.credit - 1 \in Byte
    <3>1. o.credit \in Byte
      BY DEF OutOK
    <3>2. QED
      BY <1>2, <3>1, ByteFacts DEF canNotifyCharacteristic
  <2>2. OutOK(spent)
    BY <2>1, FieldOK
  <2> HIDE DEF spent
  <2>3. OutOK(Sent(spent, <<"data", p>>))
    BY <1>1, <2>2, SentToOK
  <2>4. QED
    BY <1>2, <2>3 DEF Notified, spent
<1>3. CASE ~(p \in flags /\ canNotifyCharacteristic(o))
  BY <1>3 DEF Notified
<1>4. QED
  BY <1>2, <1>3

LEMMA UpdateOK ==
  ASSUME NEW o, OutOK(o), NEW flags, NEW c \in Characteristics
  PROVE  OutOK(updateCharacteristicValue(o, flags, c))
<1> DEFINE advertised == IF o.broadcast = Local[c].adv
                         THEN SentTo(o, "setLocal", Local[c].adv) ELSE o
           readable == SentTo(advertised, "setLocal", Local[c].set)
           notified == Notified(readable, flags, Local[c].tx)
<1>1. "setLocal" \in Operations
  BY DEF Operations
<1>2. OutOK(advertised)
  BY <1>1, SentToOK, PipeFacts
<1>3. OutOK(readable)
  BY <1>1, <1>2, SentToOK, PipeFacts
<1>4. OutOK(notified)
  BY <1>3, NotifiedOK, PipeFacts
<1>5. OutOK(Notified(notified, flags, Local[c].txAck))
  BY <1>4, NotifiedOK, PipeFacts
<1>6. QED
  BY <1>5 DEF updateCharacteristicValue

LEMMA BroadcastOK ==
  ASSUME NEW o, OutOK(o), NEW c \in Characteristics
  PROVE  OutOK(broadcastCharacteristic(o, c))
<1> DEFINE opened == SentTo(o, "openAdv", Local[c].adv)
           set == SentTo(opened, "setLocal", Local[c].adv)
<1>1. "setLocal" \in Operations /\ "openAdv" \in Operations /\ Local[c].adv \in Pipes
  BY PipeFacts DEF Operations
<1>2. OutOK(opened)
  BY <1>1, SentToOK
<1>3. OutOK(set)
  BY <1>1, <1>2, SentToOK
<1> HIDE DEF set
<1>4. OutOK([set EXCEPT !.broadcast = Local[c].adv])
  BY <1>1, <1>3, FieldOK
<1>5. OutOK(Refused(o)) /\ OutOK(Refused(opened))
  BY <1>2, FieldOK
<1>6. QED
  BY <1>4, <1>5 DEF broadcastCharacteristic, set

LEMMA DisconnectOK ==
  ASSUME NEW o, OutOK(o)
  PROVE  OutOK(disconnect(o))
<1> DEFINE n == Sent(o, <<"disconnect", 0>>)
<1>1. OutOK(n)
  BY SentToOK, PipeFacts DEF Operations
<1> HIDE DEF n
<1>2. OutOK([n EXCEPT !.open = {}, !.closed = {}])
  BY <1>1, FieldOK
<1>3. OutOK(Refused(o))
  BY FieldOK
<1>4. QED
  BY <1>2, <1>3 DEF disconnect, n

LEMMA CalledOK ==
  ASSUME NEW o, OutOK(o), NEW flags, NEW a \in LoopCalls \cup HandlerCalls
  PROVE  OutOK(Called(o, flags, a))
<1>1. /\ a[1] \in {"setValue", "broadcast", "written"} => a[2] \in Characteristics
      /\ a[1] \in {"read", "write", "subscribe", "unsubscribe"} => a[2] \in DOMAIN Remote
  BY CallsAssumption
<1>2. {"request", "data", "openRemote", "closeRemote", "info"} \subseteq Operations
  BY DEF Operations
<1>3. CASE a[1] = "setValue"
  BY <1>1, <1>3, UpdateOK DEF Called
<1>4. CASE a[1] = "broadcast"
  BY <1>1, <1>4, BroadcastOK DEF Called
<1>5. CASE a[1] = "read"
  <2>1. Remote[a[2]].rxReq \in Pipes
    BY <1>1, <1>5, PipeFacts
  <2>2. QED
    BY <1>2, <1>5, <2>1, SentToOK DEF Called, readRemoteCharacteristic
<1>6. CASE a[1] = "write"
  <2>1. Either(Remote[a[2]].txAck, Remote[a[2]].tx) \in Pipes
    BY <1>1, <1>6, PipeFacts DEF Either
  <2>2. QED
    BY <1>2, <1>6, <2>1, SentToOK DEF Called, writeRemoteCharacteristic
<1>7. CASE a[1] \in {"subscribe", "unsubscribe"}
  <2>1. Either(Remote[a[2]].rx, Remote[a[2]].rxAck) \in Pipes
    BY <1>1, <1>7, PipeFacts DEF Either
  <2>2. QED
    BY <1>2, <1>7, <2>1, SentToOK
    DEF Called, subscribeRemoteCharacteristic, unsubscribeRemoteCharacteristic
<1>8. CASE a[1] = "disconnect"
  BY <1>8, DisconnectOK DEF Called
<1>9. CASE a[1] = "info"
  BY <1>2, <1>9, SentToOK, PipeFacts DEF Called
<1>10. CASE a[1] \notin {"setValue", "broadcast", "read", "write", "subscribe",
                         "unsubscribe", "disconnect", "info"}
  BY <1>10 DEF Called
<1>11. QED
  BY <1>3, <1>4, <1>5, <1>6, <1>7, <1>8, <1>9, <1>10

LEMMA HandlerOK ==
  ASSUME NEW o, OutOK(o), NEW flags, NEW h, NEW subs,
         NEW n \in AfterHandler(h, o, flags, subs)
  PROVE  OutOK(n)
<1>1. \A a \in Allowed(HandlerCalls, subs) : OutOK(Called(o, flags, a))
  BY CalledOK DEF Allowed
<1>2. \A a, b \in Allowed(HandlerCalls, subs) : OutOK(Called(Called(o, flags, a), flags, b))
  BY <1>1, CalledOK DEF Allowed
<1>3. QED
  BY <1>1, <1>2 DEF AfterHandler

LEMMA ReceivedOK ==
  ASSUME OutOK(out)
  PROVE  OutOK(Received)
<1> DEFINE tx == Rest(out.tx)
           next == (out.head + 1) % IndexRange
<1>1. OutShape(out) /\ out.tx \in Seq(AnyCommand) /\ Len(out.tx) <= ACI_QUEUE_SIZE
  BY OutOKShape DEF OutOK
<1>2. tx \in Seq(AnyCommand)
  BY <1>1 DEF Rest
<1>3. Len(tx) <= Len(out.tx) /\ Len(tx) \in Nat /\ Len(out.tx) \in Nat
  BY <1>1, <1>2, RestFacts DEF OutShape
<1>4. Received = out \/ Received = [out EXCEPT !.tx = tx, !.head = next]
  BY DEF Received
<1>5. next \in 0 .. IndexRange - 1
  BY IndexAssumption DEF OutOK
<1> HIDE DEF tx, next
<1>6. Len(tx) <= ACI_QUEUE_SIZE
  BY <1>1, <1>3 DEF ACI_QUEUE_SIZE
<1>7. OutOK([out EXCEPT !.tx = tx, !.head = next])
  BY <1>2, <1>5, <1>6 DEF OutOK
<1>8. QED
  BY <1>4, <1>7

LEMMA EventGetOK ==
  ASSUME NEW o, OutOK(o), EventOK(Head(events))
  PROVE  OutOK(lib_aci_event_get(o))
<1>1. CASE Head(events).type = "PipeStatus"
  <2>1. Head(events).open \in SUBSET Pipes /\ Head(events).closed \in SUBSET Pipes
    BY <1>1, OpenableAssumption DEF EventOK
  <2>2. QED
    BY <1>1, <2>1, FieldOK DEF lib_aci_event_get
<1>2. CASE Head(events).type = "Disconnected"
  <2> DEFINE n == [o EXCEPT !.open = {}, !.closed = {}]
  <2>1. OutOK(n)
    BY FieldOK
  <2>2. [o EXCEPT !.open = {}, !.closed = {}, !.credit = Credits] = [n EXCEPT !.credit = Credits]
    OBVIOUS
  <2> HIDE DEF n
  <2>3. Credits \in Byte
    BY CreditsAssumption, ByteFacts
  <2>4. OutOK([n EXCEPT !.credit = Credits])
    BY <2>1, <2>3, FieldOK
  <2>5. QED
    BY <1>2, <2>2, <2>4 DEF lib_aci_event_get
<1>3. CASE Head(events).type \notin {"PipeStatus", "Disconnected"}
  BY <1>3 DEF lib_aci_event_get
<1>4. QED
  BY <1>1, <1>2, <1>3

LEMMA CreditedOK ==
  ASSUME NEW o, OutOK(o), NEW n \in Nat
  PROVE  OutOK(Credited(o, n))
<1> DEFINE sum == o.credit + n
<1>1. o.credit \in Byte
  BY DEF OutOK
<1>2. sum \in Nat
  BY <1>1, ByteFacts
<1> HIDE DEF sum
<1>3. sum % 256 \in Nat /\ sum % 256 <= 255
  BY <1>2
<1>4. OutOK([o EXCEPT !.credit = sum % 256])
  BY <1>3, ByteFacts, FieldOK
<1>5. QED
  BY <1>4 DEF Credited, sum

LEMMA AdvertisingOK ==
  ASSUME NEW o, OutOK(o), NEW b
  PROVE  OutOK(startAdvertising(o, b))
<1>1. /\ OutOK(Sent(o, <<"broadcast", 0>>))
      /\ OutOK(Sent(o, <<"connect", 0>>))
      /\ OutOK(Sent(o, <<"bond", 0>>))
  BY SentToOK, PipeFacts DEF Operations, Advertising, Connectable
<1>2. QED
  BY <1>1 DEF startAdvertising

LEMMA DataReceivedOK ==
  ASSUME OutOK(out), EventOK(Head(events)), DataReceived
  PROVE  OutOK(out')
<1> DEFINE p == Head(events).pipe
           mine == First({c \in Characteristics : LocalMatches(c, p)})
           theirs == First({r \in DOMAIN Remote : RemoteMatches(r, p)})
           set == {updateCharacteristicValue(Acknowledged(Received, p, Local[c].rxAck),
                                             txOpen, c) : c \in mine}
           local == IF mine = {} THEN {Received} ELSE set
           remote == IF theirs = {} THEN local
                     ELSE {Acknowledged(o, p, Remote[r].rxAck) : o \in local, r \in theirs}
<1>1. PICK o \in remote : out' \in AfterHandler("DataReceived", o, txOpen, subscribed)
  BY DEF DataReceived
<1>2. p \in Pipes
  BY DEF DataReceived, Gets, EventOK
<1>3. mine \subseteq Characteristics
  BY DEF First
<1> HIDE DEF p, mine, theirs, set, local, remote
<1>4. \A n, q : OutOK(n) => OutOK(Acknowledged(n, p, q))
  BY <1>2, SentToOK DEF Acknowledged, Operations
<1>5. OutOK(Received)
  BY ReceivedOK
<1>6. \A n \in local : OutOK(n)
  BY <1>3, <1>4, <1>5, UpdateOK DEF local, set
<1>7. OutOK(o)
  BY <1>4, <1>6 DEF remote
<1>8. QED
  BY <1>1, <1>7, HandlerOK

LEMMA PollOut ==
  ASSUME OutOK(out), events # << >> => EventOK(Head(events)), sequenceNo' \in Nat, poll
  PROVE  OutOK(out')
<1>1. OutOK(Received)
  BY ReceivedOK
<1>2. \A b : OutOK(startAdvertising(Received, b))
  BY <1>1, AdvertisingOK
<1>3. ASSUME NEW op \in {"readDynamic", "writeDynamic"}, NEW n \in Nat
      PROVE  OutOK(Sent(Received, <<op, n>>))
  <2>1. <<op, n>> \in AnyCommand
    BY DEF AnyCommand, Operations
  <2>2. QED
    BY <1>1, <2>1, SentOK
<1>4. CASE NoEvent
  BY <1>1, <1>4 DEF NoEvent
<1>5. CASE DeviceStarted
  BY <1>1, <1>2, <1>3, <1>5 DEF DeviceStarted
<1>6. CASE DataRead
  BY <1>1, <1>2, <1>3, <1>6 DEF DataRead
<1>7. CASE DataWritten
  BY <1>1, <1>2, <1>3, <1>7 DEF DataWritten
<1>8. CASE Connected
  <2>1. PICK o \in AfterHandler("Connected", Received, txOpen, subscribed) :
          out' = [o EXCEPT !.credit = Credits]
    BY <1>8 DEF Connected
  <2>2. OutOK(o) /\ Credits \in Byte
    BY <1>1, HandlerOK, CreditsAssumption, ByteFacts
  <2>3. QED
    BY <2>1, <2>2, FieldOK
<1>9. CASE PipeStatus
  <2> DEFINE pipes == Head(events).open
             updated == lib_aci_event_get(Received)
             o == IF Retimed(pipes) THEN Sent(updated, <<"timing", 0>>) ELSE updated
  <2>1. out' \in AfterPipes(o)
    BY <1>9, PipesLeave
  <2>2. OutOK(updated)
    BY <1>1, <1>9, EventGetOK DEF PipeStatus, Gets
  <2>3. OutOK(Sent(updated, <<"timing", 0>>))
    BY <2>2, SentToOK, PipeFacts DEF Operations
  <2>4. OutOK(o)
    BY <2>2, <2>3
  <2> HIDE DEF o, pipes
  <2>5. out' = o \/ \E flags, subs : out' \in AfterHandler("PipeStatus", o, flags, subs)
    BY <2>1 DEF AfterPipes
  <2>6. QED
    BY <2>4, <2>5, HandlerOK
<1>10. CASE Disconnected
  <2> DEFINE updated == lib_aci_event_get(Received)
  <2>1. PICK o \in AfterUnlink(updated) :
          out' = IF storeDynamicData THEN Sent(o, <<"readDynamic", 0>>)
                 ELSE startAdvertising(o, hasData)
    BY <1>10 DEF Disconnected
  <2>2. OutOK(updated)
    BY <1>1, <1>10, EventGetOK DEF Disconnected, Gets
  <2> HIDE DEF updated
  <2>3. \E flags, subs : o \in AfterHandler("Disconnected", updated, flags, subs)
    BY DEF AfterUnlink
  <2>4. OutOK(o)
    BY <2>2, <2>3, HandlerOK
  <2>5. OutOK(Sent(o, <<"readDynamic", 0>>))
    BY <2>4, SentToOK, PipeFacts DEF Operations
  <2>6. OutOK(startAdvertising(o, hasData))
    BY <2>4, AdvertisingOK
  <2>7. QED
    BY <2>1, <2>5, <2>6
<1>11. CASE BondStatus
  BY <1>1, <1>11, HandlerOK DEF BondStatus
<1>12. CASE DataReceived
  <2>1. Gets("DataReceived")
    BY <1>12 DEF DataReceived
  <2>2. events # << >>
    BY <2>1 DEF Gets
  <2>3. QED
    BY <1>12, <2>2, DataReceivedOK
<1>13. CASE DataCredit
  <2>1. Head(events).credit \in Nat
    BY <1>13 DEF DataCredit, Gets, EventOK
  <2>2. QED
    BY <1>1, <1>13, <2>1, CreditedOK DEF DataCredit
<1>14. CASE PipeError
  <2>1. OutOK(Sent(Received, <<"bondRequest", 0>>))
    BY <1>1, SentToOK, PipeFacts DEF Operations
  <2>2. OutOK(Credited(Received, 1))
    BY <1>1, CreditedOK
  <2>3. QED
    BY <1>1, <1>14, <2>1, <2>2 DEF PipeError
<1>15. CASE HwError
  BY <1>2, <1>15 DEF HwError
<1>16. QED
  BY <1>4, <1>5, <1>6, <1>7, <1>8, <1>9, <1>10, <1>11, <1>12, <1>13, <1>14, <1>15 DEF poll

(* What poll() keeps for itself.                                           *)
Flags ==
  /\ txOpen \subseteq AllTxPipes
  /\ timingChanged \in BOOLEAN /\ closedPipesCleared \in BOOLEAN
  /\ remoteServicesDiscovered \in BOOLEAN /\ storeDynamicData \in BOOLEAN
  /\ bonded \in BOOLEAN /\ central \in BOOLEAN /\ stored \in 0 .. Chunks
  /\ subscribed \subseteq Characteristics /\ written \subseteq Characteristics

LEMMA PollFlags ==
  ASSUME Flags, events # << >> => EventOK(Head(events)), poll
  PROVE  Flags'
<1> USE DEF Flags, link, bonding, sketch
<1>1. CASE NoEvent
  BY <1>1 DEF NoEvent
<1>2. CASE DeviceStarted
  BY <1>2 DEF DeviceStarted
<1>3. CASE DataRead
  <2>1. Head(events).seqNo \in 0 .. Chunks
    BY <1>3, ChunksAssumption DEF DataRead, Gets, EventOK
  <2>2. stored' \in 0 .. Chunks
    BY <1>3, <2>1 DEF DataRead
  <2>3. QED
    BY <1>3, <2>2 DEF DataRead
<1>4. CASE DataWritten
  BY <1>4 DEF DataWritten
<1>5. CASE Connected
  BY <1>5 DEF Connected
<1>6. CASE PipeStatus
  <2>1. \E c, left : Looped(c, Head(events).open, left)
    BY <1>6 DEF PipeStatus
  <2>2. txOpen' \subseteq AllTxPipes /\ subscribed' \subseteq Characteristics
    BY <2>1 DEF Looped, OpenFor, AllTxPipes
  <2>3. /\ timingChanged' \in BOOLEAN /\ closedPipesCleared' \in BOOLEAN
        /\ remoteServicesDiscovered' \in BOOLEAN
    BY <1>6 DEF PipeStatus
  <2>4. UNCHANGED <<storeDynamicData, bonded, central, stored, written>>
    BY <1>6 DEF PipeStatus
  <2>5. QED
    BY <2>2, <2>3, <2>4
<1>7. CASE Disconnected
  BY <1>7 DEF Disconnected
<1>8. CASE BondStatus
  BY <1>8 DEF BondStatus, Gets, EventOK
<1>9. CASE DataReceived
  <2> DEFINE p == Head(events).pipe
             mine == First({c \in Characteristics : LocalMatches(c, p)})
  <2>1. /\ written' = written \cup mine
        /\ UNCHANGED <<txOpen, link, bonding, subscribed, central>>
    BY <1>9 DEF DataReceived
  <2>2. mine \subseteq Characteristics
    BY DEF First
  <2> HIDE DEF p, mine
  <2>3. QED
    BY <2>1, <2>2
<1>10. CASE DataCredit
  BY <1>10 DEF DataCredit
<1>11. CASE PipeError
  BY <1>11 DEF PipeError
<1>12. CASE HwError
  BY <1>12 DEF HwError
<1>13. QED
  BY <1>1, <1>2, <1>3, <1>4, <1>5, <1>6, <1>7, <1>8, <1>9, <1>10, <1>11, <1>12 DEF poll

------------------------------------------------------------------------------
(* The chip's part, and what it tells.                                     *)
EventsOK(ev) == \A i \in DOMAIN ev : EventOK(ev[i])

LEMMA CommandOK ==
  ASSUME NEW k, ChipOK(k), NEW cmd
  PROVE  ChipOK(ChipAfter(k, cmd)) /\ EventsOK(Replies(k, cmd))
<1> DEFINE n == ChipAfter(k, cmd)
           r == Replies(k, cmd)
<1>1. ChipShape(n) /\ n.open = k.open /\ n.unacked \in Pipes
  BY CommandKeeps, PipeFacts DEF ChipOK
<1>2. k.read + 1 \in 1 .. Chunks /\ (k.read + 1) % Chunks \in 0 .. Chunks - 1
  BY NextRead, ChunksAssumption DEF ChipOK
<1>3. n.read \in 0 .. Chunks - 1 /\ n.restored \in 0 .. Chunks
  <2>1. CASE cmd[1] = "readDynamic" /\ k.mode = "standby"
    BY <1>2, <2>1 DEF ChipOK, ChipAfter, ChipShape, Advertising, Connectable
  <2>2. CASE cmd[1] = "writeDynamic" /\ k.mode = "standby" /\ k.restored < Chunks
    <3>1. n = [k EXCEPT !.restored = k.restored + 1]
      BY <2>2 DEF ChipAfter, Advertising, Connectable
    <3>2. n.read = k.read /\ n.restored = k.restored + 1
      BY <3>1 DEF ChipOK, ChipShape
    <3>3. k.restored + 1 \in 0 .. Chunks
      BY <2>2, ChunksAssumption DEF ChipOK
    <3>4. QED
      BY <3>2, <3>3 DEF ChipOK
  <2>3. CASE /\ ~(cmd[1] = "readDynamic" /\ k.mode = "standby")
             /\ ~(cmd[1] = "writeDynamic" /\ k.mode = "standby" /\ k.restored < Chunks)
    <3>1. n.read = k.read /\ n.restored = k.restored
      BY <2>3 DEF ChipOK, ChipAfter, ChipShape
    <3>2. QED
      BY <3>1 DEF ChipOK
  <2>4. QED
    BY <2>1, <2>2, <2>3
<1>4. n.mode \in Modes /\ n.inFlight \in 0 .. Credits
  <2>1. CASE cmd[1] = "data" /\ Takes(k, cmd[2])
    <3>1. n = [k EXCEPT !.inFlight = k.inFlight + 1]
      BY <2>1 DEF ChipAfter, Advertising, Connectable
    <3>2. n.mode = k.mode /\ n.inFlight = k.inFlight + 1
      BY <3>1 DEF ChipOK, ChipShape
    <3>3. k.inFlight + 1 \in 0 .. Credits
      BY <2>1, CreditsAssumption DEF Takes, ChipOK
    <3>4. QED
      BY <3>2, <3>3 DEF ChipOK
  <2>2. CASE ~(cmd[1] = "data" /\ Takes(k, cmd[2]))
    <3>1. n.inFlight = k.inFlight
      BY <2>2 DEF ChipOK, ChipAfter, ChipShape
    <3>2. n.mode \in {k.mode, "closing"} \cup Advertising
      BY <2>2 DEF ChipOK, ChipAfter, ChipShape
    <3>3. QED
      BY <3>1, <3>2 DEF ChipOK, Modes
  <2>3. QED
    BY <2>1, <2>2
<1>5. EventsOK(r)
  <2>1. \A e : DOMAIN << e >> = {1} /\ << e >>[1] = e
    BY SingleFacts
  <2>2. CASE r = << >>
    <3>1. DOMAIN r = {}
      BY <2>2
    <3>2. QED
      BY <3>1 DEF EventsOK
  <2>3. CASE \/ r = << [type |-> "PipeError", peer |-> FALSE] >>
             \/ \E b : r = << [type |-> "DataWritten", complete |-> b] >>
    BY <2>1, <2>3 DEF EventsOK, EventOK
  <2>4. CASE \E b : r = << [type |-> "DataRead", seqNo |-> k.read + 1, complete |-> b] >>
    BY <1>2, <2>1, <2>4 DEF EventsOK, EventOK
  <2>5. QED
    BY <2>2, <2>3, <2>4 DEF Replies
<1> HIDE DEF n
<1>6. ChipOK(n)
  BY <1>1, <1>3, <1>4 DEF ChipOK
<1>7. QED
  BY <1>5, <1>6 DEF n

LEMMA EventsOKTwice ==
  ASSUME NEW s, IsQueue(s), NEW t, IsQueue(t)
  PROVE  /\ IsQueue(s \o t)
         /\ EventsOK(s) /\ EventsOK(t) => EventsOK(s \o t)
         /\ \A i \in DOMAIN (s \o t) :
              \/ i \in DOMAIN s /\ (s \o t)[i] = s[i]
              \/ \E j \in DOMAIN t : (s \o t)[i] = t[j]
<1> DEFINE a == s \o t
<1>1. /\ IsQueue(a) /\ Len(a) = Len(s) + Len(t)
      /\ \A i \in 1 .. Len(s) : a[i] = s[i]
      /\ \A i \in 1 .. Len(t) : a[Len(s) + i] = t[i]
  BY ConcatFacts
<1> HIDE DEF a
<1>2. /\ DOMAIN a = 1 .. Len(a) /\ Len(s) \in Nat /\ DOMAIN s = 1 .. Len(s)
      /\ Len(t) \in Nat /\ DOMAIN t = 1 .. Len(t)
  BY <1>1, QueueFacts
<1>3. ASSUME NEW i \in DOMAIN a
      PROVE  (i \in DOMAIN s /\ a[i] = s[i]) \/ \E j \in DOMAIN t : a[i] = t[j]
  <2>1. CASE i <= Len(s)
    BY <1>1, <1>2, <2>1
  <2>2. CASE i > Len(s)
    <3>1. i - Len(s) \in 1 .. Len(t) /\ Len(s) + (i - Len(s)) = i
      BY <1>1, <1>2, <2>2
    <3>2. a[Len(s) + (i - Len(s))] = t[i - Len(s)]
      BY <1>1, <3>1
    <3>3. QED
      BY <1>2, <3>1, <3>2
  <2>3. QED
    BY <1>2, <2>1, <2>2
<1>4. EventsOK(s) /\ EventsOK(t) => EventsOK(a)
  BY <1>3 DEF EventsOK
<1>5. QED
  BY <1>1, <1>3, <1>4 DEF a

LEMMA UnlinkedOK ==
  ASSUME NEW k, ChipOK(k)
  PROVE  ChipOK(Unlinked(k)) /\ Unlinked(k).restored = k.restored
<1>1. 0 \in 0 .. Credits /\ 0 \in Pipes /\ {} \subseteq Openable /\ "standby" \in Modes
  BY CreditsAssumption, PipeFacts DEF Modes
<1> DEFINE n == Unlinked(k)
<1>2. /\ n.mode = "standby" /\ n.inFlight = 0 /\ n.unacked = 0 /\ n.open = {}
      /\ n.read = k.read /\ n.restored = k.restored /\ ChipShape(n)
  BY DEF Unlinked, ChipOK, ChipShape
<1> HIDE DEF n
<1>3. ChipOK(n)
  BY <1>1, <1>2 DEF ChipOK
<1>4. QED
  BY <1>2, <1>3 DEF n

(* Writing bonding data back goes one message at a time: either a command  *)
(* that writes one is on its way, or an event that asks for the next one,  *)
(* and _dynamicDataSequenceNo says which.                                  *)
IsWrite(cmd) == cmd[1] = "writeDynamic"
AsksNext(e) ==
  \/ e.type = "DeviceStarted" /\ ~e.hwError
  \/ e.type = "DataWritten" /\ ~e.complete

Writing(tx, ev, k, seq) ==
  /\ seq \in 0 .. Chunks
  /\ \A i, j \in DOMAIN tx : IsWrite(tx[i]) /\ IsWrite(tx[j]) => i = j
  /\ \A i, j \in DOMAIN ev : AsksNext(ev[i]) /\ AsksNext(ev[j]) => i = j
  /\ \A i \in DOMAIN tx, j \in DOMAIN ev : ~(IsWrite(tx[i]) /\ AsksNext(ev[j]))
  /\ \A i \in DOMAIN tx : IsWrite(tx[i]) => seq = k.restored + 1
  /\ \A j \in DOMAIN ev : AsksNext(ev[j]) =>
       /\ seq = k.restored /\ seq < Chunks
       /\ ev[j].type = "DeviceStarted" => seq = 0

LEMMA WritingAppend ==
  ASSUME NEW tx, NEW ev, IsQueue(ev), NEW k, NEW n, NEW seq, Writing(tx, ev, k, seq),
         n.restored = k.restored, NEW e, ~AsksNext(e)
  PROVE  Writing(tx, Append(ev, e), n, seq)
<1> DEFINE q == Append(ev, e)
<1>1. \A j \in DOMAIN q : AsksNext(q[j]) => j \in DOMAIN ev /\ q[j] = ev[j]
  <2>1. /\ DOMAIN q = 1 .. Len(ev) + 1 /\ q[Len(ev) + 1] = e
        /\ \A i \in 1 .. Len(ev) : q[i] = ev[i]
        /\ Len(ev) \in Nat /\ DOMAIN ev = 1 .. Len(ev)
    BY AppendFacts, QueueFacts
  <2> HIDE DEF q
  <2>2. QED
    BY <2>1
<1> HIDE DEF q
<1>2. Writing(tx, q, n, seq)
  BY <1>1 DEF Writing
<1>3. QED
  BY <1>2 DEF q

LEMMA WritingRest ==
  ASSUME NEW tx, IsQueue(tx), NEW ev, NEW k, NEW seq, Writing(tx, ev, k, seq)
  PROVE  Writing(Rest(tx), ev, k, seq)
<1>1. \A i \in DOMAIN Rest(tx) : i \in Nat /\ i + 1 \in DOMAIN tx /\ Rest(tx)[i] = tx[i + 1]
  BY RestIndex
<1> DEFINE r == Rest(tx)
<1> HIDE DEF r
<1>2. \A i, j \in DOMAIN r : IsWrite(r[i]) /\ IsWrite(r[j]) => i = j
  <2> SUFFICES ASSUME NEW i \in DOMAIN r, NEW j \in DOMAIN r, IsWrite(r[i]), IsWrite(r[j])
               PROVE  i = j
    OBVIOUS
  <2>1. /\ i \in Nat /\ i + 1 \in DOMAIN tx /\ IsWrite(tx[i + 1])
        /\ j \in Nat /\ j + 1 \in DOMAIN tx /\ IsWrite(tx[j + 1])
    BY <1>1 DEF r
  <2>2. i + 1 = j + 1
    BY <2>1 DEF Writing
  <2>3. QED
    BY <2>1, <2>2
<1>3. \A i \in DOMAIN r : IsWrite(r[i]) => \E j \in DOMAIN tx : IsWrite(tx[j])
  BY <1>1 DEF r
<1>4. Writing(r, ev, k, seq)
  BY <1>2, <1>3 DEF Writing
<1>5. QED
  BY <1>4 DEF r

LEMMA WritingCommand ==
  ASSUME NEW tx, IsQueue(tx), tx # << >>, NEW ev, IsQueue(ev), NEW k, ChipOK(k),
         NEW seq, Writing(tx, ev, k, seq)
  PROVE  Writing(Rest(tx), ev \o Replies(k, Head(tx)), ChipAfter(k, Head(tx)), seq)
<1> DEFINE c == Head(tx)
           n == ChipAfter(k, c)
           r == Replies(k, c)
           t == Rest(tx)
           a == ev \o r
<1> SUFFICES Writing(t, a, n, seq)
  OBVIOUS
<1>0. n = ChipAfter(k, c) /\ r = Replies(k, c) /\ a = ev \o r /\ c = Head(tx) /\ t = Rest(tx)
  OBVIOUS
<1> HIDE DEF c, n, r, a, t
<1>1. Writing(t, ev, k, seq)
  BY <1>0, WritingRest
<1>2. ChipShape(k) /\ k.restored \in 0 .. Chunks
  BY DEF ChipOK
<1>3. ASSUME r = << >> PROVE a = ev
  BY <1>0, <1>3, ConcatCases
<1>4. ASSUME NEW e, r = << e >> PROVE a = Append(ev, e)
  BY <1>0, <1>4, ConcatCases
<1>5. \/ Advertised(k, c, n, r) \/ Fetched(k, c, n, r) \/ Written(k, c, n, r)
      \/ Buffered(k, c, n, r) \/ Declined(k, c, n, r) \/ Timed(k, c, n, r)
      \/ Other(k, c, n, r)
  BY <1>0, <1>2, CommandCases
<1>6. CASE Written(k, c, n, r)
  <2> DEFINE e == [type |-> "DataWritten", complete |-> k.restored + 1 = Chunks]
  <2>1. r = << e >> /\ IsWrite(c) /\ n.restored = k.restored + 1 /\ k.restored < Chunks
    BY <1>6 DEF Written, IsWrite
  <2>2. e.type = "DataWritten" /\ (~e.complete => k.restored + 1 # Chunks)
    OBVIOUS
  <2> HIDE DEF e
  <2>3. /\ 1 \in DOMAIN tx /\ c = tx[1]
        /\ \A i \in DOMAIN t : i \in Nat /\ i > 0 /\ i + 1 \in DOMAIN tx /\ t[i] = tx[i + 1]
    BY <1>0, RestIndex
  <2>4. seq = k.restored + 1 /\ \A j \in DOMAIN ev : ~AsksNext(ev[j])
    BY <2>1, <2>3 DEF Writing
  <2>5. \A i \in DOMAIN t : ~IsWrite(t[i])
    <3> SUFFICES ASSUME NEW i \in DOMAIN t, IsWrite(t[i]) PROVE FALSE
      OBVIOUS
    <3>1. i + 1 = 1
      BY <2>1, <2>3 DEF Writing
    <3>2. QED
      BY <2>3, <3>1
  <2>6. /\ DOMAIN a = 1 .. Len(ev) + 1 /\ a[Len(ev) + 1] = e
        /\ \A i \in 1 .. Len(ev) : a[i] = ev[i]
        /\ Len(ev) \in Nat /\ DOMAIN ev = 1 .. Len(ev)
    <3>1. a = Append(ev, e)
      BY <1>4, <2>1
    <3>2. QED
      BY <3>1, AppendFacts, QueueFacts
  <2>7. \A j \in DOMAIN a : AsksNext(a[j]) => j = Len(ev) + 1 /\ a[j] = e
    BY <2>4, <2>6
  <2>8. AsksNext(e) => k.restored + 1 < Chunks
    BY <1>2, <2>1, <2>2, ChunksAssumption DEF AsksNext
  <2>9. QED
    BY <1>1, <2>1, <2>2, <2>4, <2>5, <2>7, <2>8 DEF Writing
<1>7. CASE ~Written(k, c, n, r)
  <2>1. n.restored = k.restored
    BY <1>5, <1>7 DEF Advertised, Fetched, Buffered, Declined, Timed, Other, SameData
  <2>2. r = << >> \/ \E e : r = << e >> /\ e.type \in {"PipeError", "DataRead"}
    BY <1>5, <1>7 DEF Advertised, Fetched, Buffered, Declined, Timed, Other
  <2>3. CASE r = << >>
    <3>1. a = ev
      BY <1>3, <2>3
    <3>2. QED
      BY <1>1, <2>1, <3>1 DEF Writing
  <2>4. CASE \E e : r = << e >> /\ e.type \in {"PipeError", "DataRead"}
    <3>1. PICK e : r = << e >> /\ e.type \in {"PipeError", "DataRead"}
      BY <2>4
    <3>2. a = Append(ev, e) /\ ~AsksNext(e)
      BY <1>4, <3>1 DEF AsksNext
    <3>3. QED
      BY <1>1, <2>1, <3>2, WritingAppend
  <2>5. QED
    BY <2>2, <2>3, <2>4
<1>8. QED
  BY <1>6, <1>7

(* The events that ask for the next message have handlers of their own.    *)
LEMMA HandlerOfEvent ==
  ASSUME poll, events # << >>
  PROVE  /\ Head(events).type = "HwError" => HwError
         /\ Head(events).type = "DeviceStarted" => DeviceStarted
         /\ Head(events).type = "DataWritten" => DataWritten
<1> USE DEF Gets
<1>1. ~NoEvent
  BY DEF NoEvent
<1>2. DataRead => Head(events).type = "DataRead"
  BY DEF DataRead
<1>3. Connected => Head(events).type = "Connected"
  BY DEF Connected
<1>4. PipeStatus => Head(events).type = "PipeStatus"
  BY DEF PipeStatus
<1>5. Disconnected => Head(events).type = "Disconnected"
  BY DEF Disconnected
<1>6. BondStatus => Head(events).type = "BondStatus"
  BY DEF BondStatus
<1>7. DataReceived => Head(events).type = "DataReceived"
  BY DEF DataReceived
<1>8. DataCredit => Head(events).type = "DataCredit"
  BY DEF DataCredit
<1>9. PipeError => Head(events).type = "PipeError"
  BY DEF PipeError
<1>10. HwError => Head(events).type = "HwError"
  BY DEF HwError
<1>11. DeviceStarted => Head(events).type = "DeviceStarted"
  BY DEF DeviceStarted
<1>12. DataWritten => Head(events).type = "DataWritten"
  BY DEF DataWritten
<1> DEFINE type == Head(events).type
<1> HIDE DEF type
<1>13. QED
  BY <1>1, <1>2, <1>3, <1>4, <1>5, <1>6, <1>7, <1>8, <1>9, <1>10, <1>11, <1>12 DEF poll

(* Only a handler that is asked for the next message sends one, and counts *)
(* it; it comes last.                                                      *)
LEMMA PollWrites ==
  ASSUME OutShape(out), poll, events # << >>
  PROVE  /\ Grows(Received, out')
         /\ \/ /\ sequenceNo' = sequenceNo
               /\ \A i \in New(Received, out') : ~IsWrite(out'.tx[i])
            \/ /\ AsksNext(Head(events))
               /\ sequenceNo' = IF Head(events).type = "DeviceStarted" THEN 1
                                ELSE sequenceNo + 1
               /\ \A i \in New(Received, out') : i = Len(out'.tx)
<1> DEFINE e == Head(events)
<1>1. OutShape(Received) /\ Acts(Received, Received, "any")
  <2>1. OutShape(Received)
    BY ReceivedFacts
  <2>2. QED
    BY <2>1, FieldActs
<1>2. \A cmd : IsWrite(cmd) => Control(cmd) /\ cmd[1] \notin Advertising \cup {"readDynamic"}
  BY DEF IsWrite, Control, Advertising, Connectable
<1>3. ASSUME NEW b
      PROVE  /\ Grows(Received, startAdvertising(Received, b))
             /\ \A i \in New(Received, startAdvertising(Received, b)) :
                  ~IsWrite(startAdvertising(Received, b).tx[i])
  <2>1. PICK cmd : cmd[1] \in Advertising /\ startAdvertising(Received, b) = Sent(Received, cmd)
    BY AdvertisingIsControl
  <2>2. QED
    BY <1>1, <1>2, <2>1, SentFacts
<1>4. ASSUME NEW x
      PROVE  /\ Grows(Received, Sent(Received, <<"writeDynamic", x>>))
             /\ \A i \in New(Received, Sent(Received, <<"writeDynamic", x>>)) :
                  i = Len(Sent(Received, <<"writeDynamic", x>>).tx)
  BY <1>1, SentFacts
<1>5. Grows(Received, Received) /\ New(Received, Received) = {}
  <2>1. Len(Received.tx) \in Nat
    BY <1>1, QueueFacts DEF OutShape
  <2>2. New(Received, Received) = {}
    BY <2>1 DEF New
  <2>3. Grows(Received, Received)
    BY <1>1, FieldGrows
  <2>4. QED
    BY <2>2, <2>3
<1>6. CASE HwError
  BY <1>3, <1>6 DEF HwError, bonding
<1>7. CASE DeviceStarted
  <2>1. e.type = "DeviceStarted" /\ (~e.hwError => AsksNext(e))
    BY <1>7 DEF DeviceStarted, Gets, AsksNext
  <2>2. CASE e.hwError
    BY <1>5, <1>7, <2>2 DEF DeviceStarted
  <2>3. CASE ~e.hwError /\ hasData
    BY <1>4, <1>7, <2>1, <2>3 DEF DeviceStarted
  <2>4. CASE ~e.hwError /\ ~hasData
    BY <1>3, <1>7, <2>4 DEF DeviceStarted
  <2>5. QED
    BY <2>2, <2>3, <2>4
<1>8. CASE DataWritten
  <2>1. e.type = "DataWritten" /\ (~e.complete => AsksNext(e))
    BY <1>8 DEF DataWritten, Gets, AsksNext
  <2>2. CASE e.complete
    BY <1>3, <1>8, <2>2 DEF DataWritten
  <2>3. CASE ~e.complete
    BY <1>4, <1>8, <2>1, <2>3 DEF DataWritten
  <2>4. QED
    BY <2>2, <2>3
<1>9. CASE ~HwError /\ ~DeviceStarted /\ ~DataWritten
  <2>1. e.type \notin {"HwError", "DeviceStarted", "DataWritten"}
    BY <1>9, HandlerOfEvent
  <2>2. Replied(Received, out', e)
    BY <2>1, PollReplied
  <2>3. sequenceNo' = sequenceNo
    BY <2>1, Answers DEF Starter
  <2>4. CASE Starter(e)
    <3>1. Asks(Received, out', Advertising) \/ Asks(Received, out', {"readDynamic"})
      BY <2>1, <2>4, Answers DEF Starter
    <3>2. QED
      BY <1>2, <2>2, <2>3, <3>1 DEF Asks, Replied
  <2>5. CASE ~Starter(e)
    BY <1>2, <2>2, <2>3, <2>5 DEF Replied
  <2>6. QED
    BY <2>4, <2>5
<1>10. QED
  BY <1>6, <1>7, <1>8, <1>9

(* The same turns for Writing: commands are added, an event is handled.    *)
LEMMA WritingGrows ==
  ASSUME NEW o, OutShape(o), NEW n, Grows(o, n), NEW ev, NEW k, NEW seq,
         Writing(o.tx, ev, k, seq), \A i \in New(o, n) : ~IsWrite(n.tx[i])
  PROVE  Writing(n.tx, ev, k, seq)
<1>1. \A i \in DOMAIN n.tx : IsWrite(n.tx[i]) => i \in DOMAIN o.tx /\ n.tx[i] = o.tx[i]
  BY QueueFacts DEF New, Grows, OutShape
<1>2. QED
  BY <1>1 DEF Writing

LEMMA WritingHandled ==
  ASSUME NEW o, OutShape(o), NEW n, Grows(o, n), NEW ev, IsQueue(ev), ev # << >>,
         NEW k, k.restored \in 0 .. Chunks, NEW seq, Writing(o.tx, ev, k, seq),
         AsksNext(Head(ev)), \A i \in New(o, n) : i = Len(n.tx)
  PROVE  Writing(n.tx, Rest(ev), k,
                 IF Head(ev).type = "DeviceStarted" THEN 1 ELSE seq + 1)
<1> DEFINE r == Rest(ev)
           next == IF Head(ev).type = "DeviceStarted" THEN 1 ELSE seq + 1
<1>1. /\ 1 \in DOMAIN ev /\ Head(ev) = ev[1]
      /\ \A i \in DOMAIN r : i \in Nat /\ i > 0 /\ i + 1 \in DOMAIN ev /\ r[i] = ev[i + 1]
  BY RestIndex
<1>2. /\ seq = k.restored /\ seq < Chunks
      /\ Head(ev).type = "DeviceStarted" => seq = 0
      /\ \A i \in DOMAIN o.tx : ~IsWrite(o.tx[i])
  BY <1>1 DEF Writing
<1>3. next = k.restored + 1 /\ next \in 0 .. Chunks
  BY <1>2, ChunksAssumption
<1> HIDE DEF next, r
<1>4. \A j \in DOMAIN r : ~AsksNext(r[j])
  <2> SUFFICES ASSUME NEW j \in DOMAIN r, AsksNext(r[j]) PROVE FALSE
    OBVIOUS
  <2>1. j + 1 = 1
    BY <1>1 DEF Writing
  <2>2. QED
    BY <1>1, <2>1
<1>5. \A i \in DOMAIN n.tx : i \in New(o, n) \/ (i \in DOMAIN o.tx /\ n.tx[i] = o.tx[i])
  BY QueueFacts DEF New, Grows, OutShape
<1>6. \A i \in DOMAIN n.tx : IsWrite(n.tx[i]) => i = Len(n.tx)
  BY <1>2, <1>5
<1>7. Writing(n.tx, r, k, next)
  BY <1>3, <1>4, <1>6 DEF Writing
<1>8. QED
  BY <1>7 DEF r, next

LEMMA WritingPop ==
  ASSUME NEW tx, NEW ev, IsQueue(ev), NEW k, NEW seq, Writing(tx, ev, k, seq)
  PROVE  Writing(tx, Rest(ev), k, seq)
<1> DEFINE r == Rest(ev)
<1>1. \A i \in DOMAIN r : i \in Nat /\ i > 0 /\ i + 1 \in DOMAIN ev /\ r[i] = ev[i + 1]
  BY RestIndex
<1> HIDE DEF r
<1>2. \A i, j \in DOMAIN r : AsksNext(r[i]) /\ AsksNext(r[j]) => i = j
  <2> SUFFICES ASSUME NEW i \in DOMAIN r, NEW j \in DOMAIN r, AsksNext(r[i]), AsksNext(r[j])
               PROVE  i = j
    OBVIOUS
  <2>1. i + 1 = j + 1 /\ i \in Nat /\ j \in Nat
    BY <1>1 DEF Writing
  <2>2. QED
    BY <2>1
<1>3. \A i \in DOMAIN r : AsksNext(r[i]) => \E j \in DOMAIN ev : r[i] = ev[j]
  BY <1>1
<1>4. Writing(tx, r, k, seq)
  BY <1>2, <1>3 DEF Writing
<1>5. QED
  BY <1>4 DEF r

TypeInv ==
  /\ OutOK(out) /\ IsQueue(events) /\ EventsOK(events) /\ ChipOK(chip) /\ Flags
  /\ Writing(out.tx, events, chip, sequenceNo)

LEMMA PollTypes == TypeInv /\ poll => TypeInv'
<1> SUFFICES ASSUME TypeInv, poll PROVE TypeInv'
  OBVIOUS
<1> DEFINE tx == Received.tx
           ev == AfterCommand
           k == chip'
<1>1. /\ OutOK(out) /\ OutShape(out) /\ IsQueue(out.tx) /\ IsQueue(events) /\ Exchange
      /\ EventsOK(events) /\ ChipOK(chip) /\ Writing(out.tx, events, chip, sequenceNo)
  BY OutOKShape, PollExchanges DEF TypeInv, OutShape
<1>2. OutShape(Received) /\ tx = Rest(out.tx)
  BY <1>1, ReceivedFacts
<1>3. IsQueue(ev) /\ k = IF out.tx = << >> THEN chip ELSE ChipAfter(chip, Head(out.tx))
  BY <1>1, Exchanged
<1>4. EventsOK(ev) /\ ChipOK(k) /\ Writing(tx, ev, k, sequenceNo)
  <2>1. CASE out.tx = << >>
    <3>1. ev = events /\ k = chip /\ Rest(out.tx) = out.tx
      BY <1>3, <2>1 DEF AfterCommand, Rest
    <3>2. QED
      BY <1>1, <1>2, <3>1
  <2>2. CASE out.tx # << >>
    <3> DEFINE r == Replies(chip, Head(out.tx))
    <3>1. ev = events \o r /\ k = ChipAfter(chip, Head(out.tx))
      BY <1>3, <2>2 DEF AfterCommand
    <3>2. ChipOK(k) /\ EventsOK(r)
      BY <1>1, <3>1, CommandOK
    <3>3. Writing(tx, ev, k, sequenceNo)
      BY <1>1, <1>2, <2>2, <3>1, WritingCommand
    <3>4. IsQueue(r)
      BY ReplyFacts
    <3> HIDE DEF r, ev, k
    <3>5. EventsOK(ev)
      BY <1>1, <3>1, <3>2, <3>4, EventsOKTwice
    <3>6. QED
      BY <3>2, <3>3, <3>5
  <2>3. QED
    BY <2>1, <2>2
<1>5. events # << >> => EventOK(Head(events))
  BY <1>1, RestIndex DEF EventsOK
<1>6. IsQueue(events') /\ EventsOK(events') /\ Writing(out'.tx, events', k, sequenceNo')
  <2>1. CASE events = << >>
    <3>1. out' = Received /\ events' = ev /\ sequenceNo' = sequenceNo
      BY <1>1, <2>1, Exchanged, DriverSees DEF bonding
    <3>2. QED
      BY <1>3, <1>4, <3>1
  <2>2. CASE events # << >>
    <3>1. ev # << >> /\ Head(ev) = Head(events) /\ events' = Rest(ev)
      BY <1>1, <2>2, Exchanged
    <3>2. /\ Grows(Received, out')
          /\ \/ /\ sequenceNo' = sequenceNo
                /\ \A i \in New(Received, out') : ~IsWrite(out'.tx[i])
             \/ /\ AsksNext(Head(events))
                /\ sequenceNo' = IF Head(events).type = "DeviceStarted" THEN 1
                                 ELSE sequenceNo + 1
                /\ \A i \in New(Received, out') : i = Len(out'.tx)
      BY <1>1, <2>2, PollWrites
    <3>3. IsQueue(events') /\ EventsOK(events')
      BY <1>3, <1>4, <3>1, RestIndex DEF EventsOK
    <3> HIDE DEF ev, k
    <3>4. CASE /\ sequenceNo' = sequenceNo
               /\ \A i \in New(Received, out') : ~IsWrite(out'.tx[i])
      <4>1. Writing(tx, events', k, sequenceNo)
        BY <1>3, <1>4, <3>1, WritingPop
      <4>2. Writing(out'.tx, events', k, sequenceNo)
        BY <1>2, <3>2, <3>4, <4>1, WritingGrows
      <4>3. QED
        BY <3>3, <3>4, <4>2
    <3>5. CASE /\ AsksNext(Head(events))
               /\ sequenceNo' = IF Head(events).type = "DeviceStarted" THEN 1
                                ELSE sequenceNo + 1
               /\ \A i \in New(Received, out') : i = Len(out'.tx)
      <4>1. k.restored \in 0 .. Chunks
        BY <1>4 DEF ChipOK
      <4>2. Writing(out'.tx, events', k, sequenceNo')
        BY <1>2, <1>3, <1>4, <3>1, <3>2, <3>5, <4>1, WritingHandled
      <4>3. QED
        BY <3>3, <4>2
    <3>6. QED
      BY <3>2, <3>4, <3>5
  <2>3. QED
    BY <2>1, <2>2
<1>7. sequenceNo' \in Nat
  <2>1. sequenceNo' \in 0 .. Chunks
    BY <1>6 DEF Writing
  <2>2. QED
    BY <2>1, ChunksAssumption
<1>8. OutOK(out') /\ Flags'
  BY <1>1, <1>5, <1>7, PollOut, PollFlags DEF TypeInv
<1>9. QED
  BY <1>4, <1>6, <1>8 DEF TypeInv

LEMMA CallTypes == TypeInv /\ Call => TypeInv'
<1> SUFFICES ASSUME TypeInv, Call PROVE TypeInv'
  OBVIOUS
<1>1. PICK a \in Allowed(LoopCalls, subscribed) :
        /\ out' = Called(out, txOpen, a)
        /\ written' = IF a[1] = "written" THEN written \ {a[2]} ELSE written
  BY DEF Call
<1>2. UNCHANGED <<txOpen, link, bonding, subscribed, central, chip, events>>
  BY DEF Call
<1>3. OutShape(out) /\ a \in LoopCalls
  BY <1>1, OutOKShape DEF TypeInv, Allowed
<1>4. OutOK(out')
  BY <1>1, <1>3, CalledOK DEF TypeInv
<1>5. Acts(out, out', "any")
  BY <1>1, <1>3, CalledActs, AnyFits
<1>6. Grows(out, out') /\ \A i \in New(out, out') : ~IsWrite(out'.tx[i])
  BY <1>5 DEF Acts, IsWrite, Control
<1>7. Writing(out'.tx, events, chip, sequenceNo)
  BY <1>3, <1>6, WritingGrows DEF TypeInv
<1>8. Flags'
  BY <1>1, <1>2 DEF TypeInv, Flags, link, bonding
<1>9. QED
  BY <1>2, <1>4, <1>7, <1>8 DEF TypeInv, bonding

LEMMA TypesEmitted ==
  ASSUME TypeInv, ChipOK(chip'), chip'.restored = chip.restored,
         NEW e, EventOK(e), ~AsksNext(e), Emits(e)
  PROVE  TypeInv'
<1>1. /\ events' = Append(events, e)
      /\ UNCHANGED <<out, txOpen, link, bonding, sketch>>
  BY DEF Emits
<1>2. IsQueue(events) /\ EventsOK(events) /\ Writing(out.tx, events, chip, sequenceNo)
  BY DEF TypeInv
<1>3. /\ IsQueue(events')
      /\ DOMAIN events' = 1 .. Len(events) + 1 /\ events'[Len(events) + 1] = e
      /\ \A i \in 1 .. Len(events) : events'[i] = events[i]
      /\ Len(events) \in Nat /\ DOMAIN events = 1 .. Len(events)
  BY <1>1, <1>2, AppendFacts, QueueFacts
<1>4. EventsOK(events')
  BY <1>2, <1>3 DEF EventsOK
<1>5. Writing(out.tx, events', chip', sequenceNo)
  BY <1>1, <1>2, WritingAppend
<1>6. QED
  BY <1>1, <1>3, <1>4, <1>5 DEF TypeInv, Flags, link, bonding, sketch

LEMMA ChipTypes == TypeInv /\ Chip => TypeInv'
<1> SUFFICES ASSUME TypeInv, Chip PROVE TypeInv'
  OBVIOUS
<1>1. ChipOK(chip) /\ ChipShape(chip)
  BY DEF TypeInv, ChipOK
<1>2. RemotePipes \subseteq Pipes /\ AckedPipes \subseteq Pipes
  BY PipeFacts DEF RemotePipes, AckedPipes
<1> USE DEF EventOK, AsksNext
<1>3. CASE PeerConnects
  <2>1. ChipOK(chip') /\ chip'.restored = chip.restored
    BY <1>1, <1>3 DEF PeerConnects, ChipOK, ChipShape, Modes
  <2>2. QED
    BY <1>3, <2>1, TypesEmitted DEF PeerConnects
<1>4. CASE PeerSetsPipes
  <2>1. PICK pipes \in SUBSET Openable :
          /\ chip' = [chip EXCEPT !.open = pipes]
          /\ Emits([type |-> "PipeStatus", open |-> pipes,
                    closed |-> IF 0 \in pipes THEN RemotePipes \ pipes ELSE {}])
    BY <1>4 DEF PeerSetsPipes
  <2>2. ChipOK(chip') /\ chip'.restored = chip.restored
    BY <1>1, <2>1 DEF ChipOK, ChipShape
  <2>3. QED
    BY <1>2, <2>1, <2>2, TypesEmitted
<1>5. CASE PeerSends
  <2>1. PICK p \in {Local[c].rx : c \in Characteristics} \cup AckedPipes \cup RemotePipes :
          /\ chip' = [chip EXCEPT !.unacked = IF p \in AckedPipes THEN p ELSE chip.unacked]
          /\ Emits([type |-> "DataReceived", pipe |-> p])
    BY <1>5 DEF PeerSends
  <2>2. p \in Pipes
    BY <1>2, <2>1, PipeFacts
  <2>3. ChipOK(chip') /\ chip'.restored = chip.restored
    BY <1>1, <2>1, <2>2 DEF ChipOK, ChipShape
  <2>4. QED
    BY <2>1, <2>2, <2>3, TypesEmitted
<1>6. CASE PeerTakesData
  <2>1. chip' = [chip EXCEPT !.inFlight = chip.inFlight - 1] /\ chip.inFlight > 0
    BY <1>6 DEF PeerTakesData
  <2>2. chip.inFlight - 1 \in 0 .. Credits
    BY <1>1, <2>1, CreditsAssumption DEF ChipOK
  <2>3. ChipOK(chip') /\ chip'.restored = chip.restored
    BY <1>1, <2>1, <2>2 DEF ChipOK, ChipShape
  <2>4. QED
    BY <1>6, <2>3, TypesEmitted DEF PeerTakesData
<1>7. CASE PeerRefuses
  BY <1>1, <1>7, TypesEmitted DEF PeerRefuses
<1>8. CASE PeerBonds
  <2>1. PICK success, b, t :
          /\ success \in BOOLEAN
          /\ chip' = [chip EXCEPT !.bonded = b, !.toSave = t]
          /\ Emits([type |-> "BondStatus", success |-> success])
    BY <1>8 DEF PeerBonds
  <2>2. ChipOK(chip') /\ chip'.restored = chip.restored
    BY <1>1, <2>1 DEF ChipOK, ChipShape
  <2>3. QED
    BY <2>1, <2>2, TypesEmitted
<1>9. CASE LinkEnds
  <2>1. chip' = Unlinked(chip)
    BY <1>9 DEF LinkEnds
  <2>2. ChipOK(chip') /\ chip'.restored = chip.restored
    BY <1>1, <2>1, UnlinkedOK
  <2>3. QED
    BY <1>9, <2>2, TypesEmitted DEF LinkEnds
<1>10. CASE ChipFails
  <2> DEFINE started == [type |-> "DeviceStarted", hwError |-> TRUE]
             failed == [type |-> "HwError"]
             two == << started, failed >>
  <2>1. /\ chip' = Unlinked(chip) /\ events' = events \o two
        /\ UNCHANGED <<out, txOpen, link, bonding, sketch>>
    BY <1>10 DEF ChipFails
  <2>2. /\ EventOK(started) /\ ~AsksNext(started)
        /\ EventOK(failed) /\ ~AsksNext(failed)
    OBVIOUS
  <2> HIDE DEF started, failed
  <2>3. two \in Seq({started, failed}) /\ \A i \in DOMAIN two : two[i] \in {started, failed}
    OBVIOUS
  <2> HIDE DEF two
  <2>4. IsQueue(two) /\ EventsOK(two) /\ \A i \in DOMAIN two : ~AsksNext(two[i])
    BY <2>2, <2>3 DEF IsQueue, EventsOK
  <2>5. ChipOK(chip') /\ chip'.restored = chip.restored
    BY <1>1, <2>1, UnlinkedOK
  <2>6. /\ IsQueue(events') /\ EventsOK(events')
        /\ \A i \in DOMAIN events' :
             AsksNext(events'[i]) => i \in DOMAIN events /\ events'[i] = events[i]
    BY <2>1, <2>4, EventsOKTwice DEF TypeInv
  <2>7. Writing(out.tx, events', chip', sequenceNo)
    BY <2>5, <2>6 DEF Writing, TypeInv
  <2>8. QED
    BY <2>1, <2>5, <2>6, <2>7 DEF TypeInv, Flags, link, bonding, sketch
<1>11. QED
  BY <1>3, <1>4, <1>5, <1>6, <1>7, <1>8, <1>9, <1>10 DEF Chip

LEMMA InitTypes == Init => TypeInv
<1> SUFFICES ASSUME Init PROVE TypeInv
  OBVIOUS
<1>1. OutOK(out)
  <2> DEFINE tx == << <<"info", 0>> >>
  <2>1. <<"info", 0>> \in AnyCommand
    BY DEF AnyCommand, Operations
  <2>2. tx \in Seq(AnyCommand) /\ Len(tx) = 1
    BY <2>1
  <2> HIDE DEF tx
  <2>3. PICK head \in 0 .. IndexRange - 1 :
          out = [tx |-> tx, head |-> head, overrun |-> FALSE, credit |-> 0,
                 open |-> {}, closed |-> {}, broadcast |-> 0]
    BY DEF Init, Begun, tx
  <2>4. 0 \in Byte /\ 0 \in Pipes
    BY PipeFacts, ByteFacts
  <2>5. out \in [tx : Seq(AnyCommand), head : 0 .. IndexRange - 1, overrun : BOOLEAN,
                credit : Byte, open : SUBSET Pipes, closed : SUBSET Pipes,
                broadcast : Pipes]
    BY <2>2, <2>3, <2>4
  <2>6. out.tx = tx /\ 1 <= ACI_QUEUE_SIZE
    BY <2>3 DEF ACI_QUEUE_SIZE
  <2>7. QED
    BY <2>2, <2>5, <2>6 DEF OutOK
<1>2. /\ events = << [type |-> "DeviceStarted", hwError |-> FALSE] >>
      /\ IsQueue(events) /\ DOMAIN events = {1}
      /\ events[1] = [type |-> "DeviceStarted", hwError |-> FALSE]
  BY SingleFacts DEF Init
<1>3. EventsOK(events)
  BY <1>2 DEF EventsOK, EventOK
<1>4. ChipOK(chip) /\ chip.restored = 0
  <2>1. /\ 0 \in 0 .. Credits /\ 0 \in 0 .. Chunks - 1 /\ 0 \in 0 .. Chunks /\ 0 \in Pipes
    BY CreditsAssumption, ChunksAssumption, PipeFacts
  <2>2. ChipShape(chip) /\ chip.mode \in Modes
    BY DEF Init, SetUp, ChipShape, Modes
  <2>3. QED
    BY <2>1, <2>2 DEF Init, SetUp, ChipOK
<1>5. Flags
  <2>1. stored \in 0 .. Chunks
    BY ChunksAssumption DEF Init
  <2>2. QED
    BY <2>1 DEF Init, Flags
<1>6. Writing(out.tx, events, chip, sequenceNo)
  <2>1. DOMAIN out.tx = {1} /\ out.tx[1] = <<"info", 0>>
    BY BegunFacts DEF Init
  <2>2. sequenceNo = 0 /\ sequenceNo \in 0 .. Chunks /\ 0 < Chunks
    BY ChunksAssumption DEF Init
  <2>3. \A i \in DOMAIN out.tx : ~IsWrite(out.tx[i])
    BY <2>1 DEF IsWrite
  <2>4. QED
    BY <1>2, <1>4, <2>2, <2>3 DEF Writing
<1>7. QED
  BY <1>1, <1>2, <1>3, <1>4, <1>5, <1>6 DEF TypeInv

LEMMA StepTypes == TypeInv /\ [Next]_vars => TypeInv'
<1> SUFFICES ASSUME TypeInv, [Next]_vars PROVE TypeInv'
  OBVIOUS
<1>1. CASE UNCHANGED vars
  BY <1>1 DEF vars, link, bonding, sketch, TypeInv, Flags
<1>2. QED
  BY <1>1, CallTypes, PollTypes, ChipTypes DEF Next, Overrun

(* Every variable stays in its range, whatever the sketch and its handlers *)
(* call and whether or not the chip restarts: tx holds no fifth command    *)
(* but where the ring is not seen to be full, the credit stays a byte, and *)
(* the driver asks for no message of bonding data behind the last.         *)
THEOREM TypesAlways == Spec => []TypeOK
<1>1. TypeInv => TypeOK
  <2> SUFFICES ASSUME TypeInv PROVE TypeOK
    OBVIOUS
  <2>1. OutOK(out) /\ ChipOK(chip) /\ Flags /\ sequenceNo \in 0 .. Chunks
    BY DEF TypeInv, Writing
  <2>2. /\ DOMAIN out = {"tx", "head", "overrun", "credit", "open", "closed", "broadcast"}
        /\ out.tx \in Seq(Operations \X Nat) /\ Len(out.tx) <= ACI_QUEUE_SIZE
        /\ out.head \in 0 .. IndexRange - 1 /\ out.overrun \in BOOLEAN
        /\ out.credit \in Byte
        /\ out.open \subseteq Pipes /\ out.closed \subseteq Pipes
        /\ out.broadcast \in Pipes
    BY <2>1 DEF OutOK, AnyCommand
  <2>3. QED
    BY <2>1, <2>2 DEF TypeOK, Flags, ChipOK
<1>2. Init => TypeInv
  BY InitTypes
<1>3. TypeInv /\ [Next]_vars => TypeInv'
  BY StepTypes
<1>4. QED
  BY <1>1, <1>2, <1>3, PTL DEF Spec

------------------------------------------------------------------------------
(* Broadcasting.  The library's broadcast pipe was given to the chip, or   *)
(* the command that opens it is on its way, if there is one characteristic *)
(* to broadcast: with two, broadcastCharacteristic() may open the pipe of  *)
(* the second and find no room for its value, and keeps the first pipe.    *)
OneBroadcaster ==
  \A c, d \in Characteristics :
    Local[c].adv # 0 /\ Local[d].adv # 0 => Local[c].adv = Local[d].adv

Broadcaster(p) == p # 0 /\ \E c \in Characteristics : Local[c].adv = p
Opens(cmd) == cmd[1] = "openAdv"

Broadcasts(o, k) ==
  /\ OutShape(o)
  /\ \A i \in DOMAIN o.tx : Opens(o.tx[i]) => Broadcaster(o.tx[i][2])
  /\ o.broadcast # 0 =>
       /\ Broadcaster(o.broadcast)
       /\ \/ k.adv = o.broadcast
          \/ \E i \in DOMAIN o.tx : Opens(o.tx[i]) /\ o.tx[i][2] = o.broadcast

LEMMA BroadcastsField ==
  ASSUME NEW o, NEW k, Broadcasts(o, k), NEW x, NEW y
  PROVE  /\ Broadcasts(Refused(o), k)
         /\ Broadcasts([o EXCEPT !.credit = x], k)
         /\ Broadcasts([o EXCEPT !.open = x, !.closed = y], k)
<1>1. ASSUME NEW n, OutShape(n), n.tx = o.tx, n.broadcast = o.broadcast
      PROVE  Broadcasts(n, k)
  BY <1>1 DEF Broadcasts
<1> DEFINE a == [o EXCEPT !.credit = x]
           b == [o EXCEPT !.open = x, !.closed = y]
<1>2. OutShape(a) /\ a.tx = o.tx /\ a.broadcast = o.broadcast
  BY DEF Broadcasts, OutShape
<1>3. OutShape(b) /\ b.tx = o.tx /\ b.broadcast = o.broadcast
  BY DEF Broadcasts, OutShape
<1>4. OutShape(Refused(o)) /\ Refused(o).tx = o.tx /\ Refused(o).broadcast = o.broadcast
  BY RefusedFacts DEF Broadcasts
<1>5. QED
  BY <1>1, <1>2, <1>3, <1>4

LEMMA BroadcastsSent ==
  ASSUME NEW o, NEW k, Broadcasts(o, k), NEW cmd, Opens(cmd) => Broadcaster(cmd[2])
  PROVE  Broadcasts(Sent(o, cmd), k)
<1> DEFINE n == Sent(o, cmd)
<1>1. OutShape(o) /\ Grows(o, n) /\ \A i \in New(o, n) : n.tx[i] = cmd
  BY SentFacts DEF Broadcasts
<1>2. n.broadcast = o.broadcast
  BY <1>1 DEF Sent, Refused, OutShape
<1> HIDE DEF n
<1>3. /\ OutShape(n)
      /\ \A i \in DOMAIN o.tx : i \in DOMAIN n.tx /\ n.tx[i] = o.tx[i]
      /\ \A i \in DOMAIN n.tx : i \in New(o, n) \/ (i \in DOMAIN o.tx /\ n.tx[i] = o.tx[i])
  BY <1>1, QueueFacts DEF New, Grows, OutShape
<1>4. \A i \in DOMAIN n.tx : Opens(n.tx[i]) => Broadcaster(n.tx[i][2])
  BY <1>1, <1>3 DEF Broadcasts
<1>5. Broadcasts(n, k)
  BY <1>2, <1>3, <1>4 DEF Broadcasts
<1>6. QED
  BY <1>5 DEF n

LEMMA BroadcastsOther ==
  ASSUME NEW o, NEW k, Broadcasts(o, k), NEW op, op # "openAdv", NEW p
  PROVE  Broadcasts(Sent(o, <<op, p>>), k) /\ Broadcasts(SentTo(o, op, p), k)
<1>1. ~Opens(<<op, p>>)
  BY DEF Opens
<1>2. QED
  BY <1>1, BroadcastsSent DEF SentTo

LEMMA BroadcastsNotified ==
  ASSUME NEW o, NEW k, Broadcasts(o, k), NEW flags, NEW p
  PROVE  Broadcasts(Notified(o, flags, p), k)
<1> DEFINE spent == [o EXCEPT !.credit = o.credit - 1]
<1>1. Broadcasts(spent, k)
  BY BroadcastsField
<1> HIDE DEF spent
<1>2. Broadcasts(Sent(spent, <<"data", p>>), k)
  BY <1>1, BroadcastsOther
<1>3. QED
  BY <1>2 DEF Notified, spent

LEMMA BroadcastsUpdated ==
  ASSUME NEW o, NEW k, Broadcasts(o, k), NEW flags, NEW c
  PROVE  Broadcasts(updateCharacteristicValue(o, flags, c), k)
<1> DEFINE advertised == IF o.broadcast = Local[c].adv
                         THEN SentTo(o, "setLocal", Local[c].adv) ELSE o
           readable == SentTo(advertised, "setLocal", Local[c].set)
           notified == Notified(readable, flags, Local[c].tx)
<1>1. Broadcasts(advertised, k)
  BY BroadcastsOther
<1>2. Broadcasts(readable, k)
  BY <1>1, BroadcastsOther
<1>3. Broadcasts(notified, k)
  BY <1>2, BroadcastsNotified
<1>4. Broadcasts(Notified(notified, flags, Local[c].txAck), k)
  BY <1>3, BroadcastsNotified
<1>5. QED
  BY <1>4 DEF updateCharacteristicValue

(* The call that changes the pipe first opens it.                          *)
LEMMA BroadcastsBroadcast ==
  ASSUME NEW o, NEW k, Broadcasts(o, k), NEW c \in Characteristics
  PROVE  Broadcasts(broadcastCharacteristic(o, c), k)
<1> DEFINE p == Local[c].adv
           opened == SentTo(o, "openAdv", p)
           set == SentTo(opened, "setLocal", p)
           n == [set EXCEPT !.broadcast = p]
<1>1. CASE p = 0 \/ ~Room(o)
  BY <1>1, BroadcastsField DEF broadcastCharacteristic
<1>2. CASE p # 0 /\ Room(o)
  <2> DEFINE cmd == <<"openAdv", p>>
  <2>1. Opens(cmd) /\ cmd[2] = p /\ Broadcaster(p)
    BY <1>2 DEF Opens, Broadcaster
  <2>2. opened = Sent(o, cmd) /\ set = Sent(opened, <<"setLocal", p>>)
    BY <1>2 DEF SentTo
  <2> HIDE DEF cmd
  <2>3. Broadcasts(opened, k)
    BY <2>1, <2>2, BroadcastsSent
  <2>4. OutShape(o) /\ Grows(o, opened) /\ opened.tx[Len(o.tx) + 1] = cmd
        /\ Len(opened.tx) = Len(o.tx) + 1
    BY <1>2, <2>2, SentGrows DEF Broadcasts
  <2> HIDE DEF opened
  <2>5. Broadcasts(set, k) /\ Grows(opened, set)
    <3>1. Grows(opened, set)
      BY <2>2, <2>3, SentGrows DEF Broadcasts
    <3>2. Broadcasts(Sent(opened, <<"setLocal", p>>), k)
      BY <2>3, BroadcastsOther
    <3>3. QED
      BY <2>2, <3>1, <3>2
  <2> HIDE DEF set
  <2>6. n.tx = set.tx /\ n.broadcast = p /\ OutShape(n)
    BY <2>5 DEF Broadcasts, OutShape
  <2>7. Len(o.tx) + 1 \in DOMAIN set.tx /\ set.tx[Len(o.tx) + 1] = cmd
    BY <2>4, <2>5, QueueFacts DEF Grows, OutShape
  <2> HIDE DEF n, p
  <2>8. Broadcasts(n, k)
    BY <2>1, <2>5, <2>6, <2>7 DEF Broadcasts
  <2>9. Broadcasts(Refused(opened), k)
    BY <2>3, BroadcastsField
  <2>10. broadcastCharacteristic(o, c) \in {Refused(opened), n}
    BY <1>2 DEF broadcastCharacteristic, opened, set, n, p
  <2>11. QED
    BY <2>8, <2>9, <2>10
<1>3. QED
  BY <1>1, <1>2

LEMMA BroadcastsCalled ==
  ASSUME NEW o, NEW k, Broadcasts(o, k), NEW flags, NEW a \in LoopCalls \cup HandlerCalls
  PROVE  Broadcasts(Called(o, flags, a), k)
<1>1. a[1] = "broadcast" => a[2] \in Characteristics
  BY CallsAssumption
<1>2. \A op \in {"request", "data", "openRemote", "closeRemote", "info"} : \A p :
        Broadcasts(Sent(o, <<op, p>>), k) /\ Broadcasts(SentTo(o, op, p), k)
  BY BroadcastsOther
<1>3. Broadcasts(disconnect(o), k)
  <2> DEFINE n == Sent(o, <<"disconnect", 0>>)
  <2>1. Broadcasts(n, k)
    BY BroadcastsOther
  <2> HIDE DEF n
  <2>2. Broadcasts([n EXCEPT !.open = {}, !.closed = {}], k)
    BY <2>1, BroadcastsField
  <2>3. Broadcasts(Refused(o), k)
    BY BroadcastsField
  <2>4. QED
    BY <2>2, <2>3 DEF disconnect, n
<1>4. CASE a[1] = "setValue"
  BY <1>4, BroadcastsUpdated DEF Called
<1>5. CASE a[1] = "broadcast"
  BY <1>1, <1>5, BroadcastsBroadcast DEF Called
<1>6. CASE a[1] = "read"
  BY <1>2, <1>6 DEF Called, readRemoteCharacteristic
<1>7. CASE a[1] = "write"
  BY <1>2, <1>7 DEF Called, writeRemoteCharacteristic
<1>8. CASE a[1] = "subscribe"
  BY <1>2, <1>8 DEF Called, subscribeRemoteCharacteristic
<1>9. CASE a[1] = "unsubscribe"
  BY <1>2, <1>9 DEF Called, unsubscribeRemoteCharacteristic
<1>10. CASE a[1] = "disconnect"
  BY <1>3, <1>10 DEF Called
<1>11. CASE a[1] = "info"
  BY <1>2, <1>11 DEF Called
<1>12. CASE a[1] \notin {"setValue", "broadcast", "read", "write", "subscribe",
                         "unsubscribe", "disconnect", "info"}
  BY <1>12 DEF Called
<1>13. QED
  BY <1>4, <1>5, <1>6, <1>7, <1>8, <1>9, <1>10, <1>11, <1>12

LEMMA BroadcastsHandled ==
  ASSUME NEW o, NEW k, Broadcasts(o, k), NEW flags, NEW h, NEW subs,
         NEW n \in AfterHandler(h, o, flags, subs)
  PROVE  Broadcasts(n, k)
<1>1. \A a \in Allowed(HandlerCalls, subs) : Broadcasts(Called(o, flags, a), k)
  BY BroadcastsCalled DEF Allowed
<1>2. \A a, b \in Allowed(HandlerCalls, subs) :
        Broadcasts(Called(Called(o, flags, a), flags, b), k)
  BY <1>1, BroadcastsCalled DEF Allowed
<1>3. QED
  BY <1>1, <1>2 DEF AfterHandler

LEMMA BroadcastsAdvertising ==
  ASSUME NEW o, NEW k, Broadcasts(o, k), NEW b
  PROVE  Broadcasts(startAdvertising(o, b), k)
<1>1. \A op \in {"broadcast", "connect", "bond"} : Broadcasts(Sent(o, <<op, 0>>), k)
  BY BroadcastsOther
<1>2. QED
  BY <1>1 DEF startAdvertising

LEMMA BroadcastsEventGet ==
  ASSUME NEW o, NEW k, Broadcasts(o, k)
  PROVE  Broadcasts(lib_aci_event_get(o), k)
<1>1. /\ OutShape(lib_aci_event_get(o)) /\ lib_aci_event_get(o).tx = o.tx
  BY EventGetFacts DEF Broadcasts
<1>2. lib_aci_event_get(o).broadcast = o.broadcast
  BY DEF lib_aci_event_get, Broadcasts, OutShape
<1>3. QED
  BY <1>1, <1>2 DEF Broadcasts

LEMMA BroadcastsReceived ==
  ASSUME NEW k, Broadcasts(Received, k), DataReceived
  PROVE  Broadcasts(out', k)
<1> DEFINE p == Head(events).pipe
           mine == First({c \in Characteristics : LocalMatches(c, p)})
           theirs == First({r \in DOMAIN Remote : RemoteMatches(r, p)})
           set == {updateCharacteristicValue(Acknowledged(Received, p, Local[c].rxAck),
                                             txOpen, c) : c \in mine}
           local == IF mine = {} THEN {Received} ELSE set
           remote == IF theirs = {} THEN local
                     ELSE {Acknowledged(o, p, Remote[r].rxAck) : o \in local, r \in theirs}
<1>1. PICK o \in remote : out' \in AfterHandler("DataReceived", o, txOpen, subscribed)
  BY DEF DataReceived
<1> HIDE DEF p, mine, theirs, set, local, remote
<1>2. \A n, q : Broadcasts(n, k) => Broadcasts(Acknowledged(n, p, q), k)
  BY BroadcastsOther DEF Acknowledged
<1>3. \A n \in local : Broadcasts(n, k)
  BY <1>2, BroadcastsUpdated DEF local, set
<1>4. Broadcasts(o, k)
  BY <1>2, <1>3 DEF remote
<1>5. QED
  BY <1>1, <1>4, BroadcastsHandled

LEMMA BroadcastsPolled ==
  ASSUME NEW k, Broadcasts(Received, k), poll
  PROVE  Broadcasts(out', k)
<1>1. \A b : Broadcasts(startAdvertising(Received, b), k)
  BY BroadcastsAdvertising
<1>2. \A op \in {"readDynamic", "writeDynamic", "bondRequest"} : \A n :
        Broadcasts(Sent(Received, <<op, n>>), k)
  BY BroadcastsOther
<1>3. \A n : Broadcasts(Credited(Received, n), k)
  BY BroadcastsField DEF Credited
<1>4. CASE NoEvent
  BY <1>4 DEF NoEvent
<1>5. CASE DeviceStarted
  BY <1>1, <1>2, <1>5 DEF DeviceStarted
<1>6. CASE DataRead
  BY <1>1, <1>2, <1>6 DEF DataRead
<1>7. CASE DataWritten
  BY <1>1, <1>2, <1>7 DEF DataWritten
<1>8. CASE Connected
  <2>1. PICK o \in AfterHandler("Connected", Received, txOpen, subscribed) :
          out' = [o EXCEPT !.credit = Credits]
    BY <1>8 DEF Connected
  <2>2. Broadcasts(o, k)
    BY BroadcastsHandled
  <2>3. QED
    BY <2>1, <2>2, BroadcastsField
<1>9. CASE PipeStatus
  <2> DEFINE pipes == Head(events).open
             updated == lib_aci_event_get(Received)
             o == IF Retimed(pipes) THEN Sent(updated, <<"timing", 0>>) ELSE updated
  <2>1. out' \in AfterPipes(o)
    BY <1>9, PipesLeave
  <2>2. Broadcasts(updated, k)
    BY BroadcastsEventGet
  <2> HIDE DEF updated
  <2>3. Broadcasts(o, k)
    BY <2>2, BroadcastsOther
  <2> HIDE DEF o, pipes
  <2>4. out' = o \/ \E flags, subs : out' \in AfterHandler("PipeStatus", o, flags, subs)
    BY <2>1 DEF AfterPipes
  <2>5. QED
    BY <2>3, <2>4, BroadcastsHandled
<1>10. CASE Disconnected
  <2> DEFINE updated == lib_aci_event_get(Received)
  <2>1. PICK o \in AfterUnlink(updated) :
          out' = IF storeDynamicData THEN Sent(o, <<"readDynamic", 0>>)
                 ELSE startAdvertising(o, hasData)
    BY <1>10 DEF Disconnected
  <2>2. Broadcasts(updated, k)
    BY BroadcastsEventGet
  <2> HIDE DEF updated
  <2>3. \E flags, subs : o \in AfterHandler("Disconnected", updated, flags, subs)
    BY DEF AfterUnlink
  <2>4. Broadcasts(o, k)
    BY <2>2, <2>3, BroadcastsHandled
  <2>5. QED
    BY <2>1, <2>4, BroadcastsOther, BroadcastsAdvertising
<1>11. CASE BondStatus
  BY <1>11, BroadcastsHandled DEF BondStatus
<1>12. CASE DataReceived
  BY <1>12, BroadcastsReceived
<1>13. CASE DataCredit
  BY <1>3, <1>13 DEF DataCredit
<1>14. CASE PipeError
  BY <1>2, <1>3, <1>14 DEF PipeError
<1>15. CASE HwError
  BY <1>1, <1>15 DEF HwError
<1>16. QED
  BY <1>4, <1>5, <1>6, <1>7, <1>8, <1>9, <1>10, <1>11, <1>12, <1>13, <1>14, <1>15 DEF poll

(* Only the command that opens a pipe changes the one that is advertised.  *)
LEMMA OnlyOpening ==
  ASSUME NEW k, ChipShape(k), NEW cmd
  PROVE  /\ Opens(cmd) => ChipAfter(k, cmd).adv = cmd[2]
         /\ ~Opens(cmd) => ChipAfter(k, cmd).adv = k.adv
<1> DEFINE a == ChipAfter(k, cmd)
<1> USE DEF Opens
<1>0. CASE cmd[1] = "openAdv"
  <2>1. a = [k EXCEPT !.adv = cmd[2]]
    BY <1>0 DEF ChipAfter, Advertising, Connectable
  <2>2. QED
    BY <1>0, <2>1 DEF ChipShape
<1>1. CASE cmd[1] # "openAdv" /\ a = k
  BY <1>1
<1>2. CASE cmd[1] = "data" /\ Takes(k, cmd[2])
  BY <1>2 DEF ChipAfter, ChipShape
<1>3. CASE cmd[1] = "ack" /\ k.unacked = cmd[2]
  BY <1>3 DEF ChipAfter, ChipShape
<1>4. CASE cmd[1] = "timing" /\ k.mode = "connected"
  BY <1>4 DEF ChipAfter, ChipShape
<1>5. CASE cmd[1] = "disconnect" /\ k.mode = "connected"
  BY <1>5 DEF ChipAfter, ChipShape
<1>6. CASE cmd[1] \in Advertising /\ k.mode = "standby"
  BY <1>6 DEF ChipAfter, ChipShape, Advertising, Connectable
<1>7. CASE cmd[1] = "readDynamic" /\ k.mode = "standby"
  BY <1>7 DEF ChipAfter, ChipShape, Advertising, Connectable
<1>8. CASE cmd[1] = "writeDynamic" /\ k.mode = "standby" /\ k.restored < Chunks
  BY <1>8 DEF ChipAfter, ChipShape, Advertising, Connectable
<1>9. QED
  BY <1>0, <1>1, <1>2, <1>3, <1>4, <1>5, <1>6, <1>7, <1>8 DEF ChipAfter

(* The chip takes a command: the pipe it opens is the one there is.        *)
LEMMA BroadcastsTaken ==
  ASSUME OneBroadcaster, Broadcasts(out, chip), ChipShape(chip), Exchange
  PROVE  Broadcasts(Received, chip')
<1> DEFINE c == Head(out.tx)
<1>1. /\ OutShape(out) /\ OutShape(Received) /\ Received.tx = Rest(out.tx)
      /\ IsQueue(out.tx)
  BY ReceivedFacts DEF Broadcasts, OutShape
<1>2. Received.broadcast = out.broadcast
  BY <1>1 DEF Received, OutShape
<1>3. /\ \A i \in DOMAIN Rest(out.tx) :
           i + 1 \in DOMAIN out.tx /\ Rest(out.tx)[i] = out.tx[i + 1]
      /\ out.tx # << >> =>
           /\ 1 \in DOMAIN out.tx /\ c = out.tx[1]
           /\ \A j \in DOMAIN out.tx :
                \/ j = 1
                \/ j - 1 \in DOMAIN Rest(out.tx) /\ Rest(out.tx)[j - 1] = out.tx[j]
  BY <1>1, RestIndex
<1>4. \A i \in DOMAIN Received.tx : Opens(Received.tx[i]) => Broadcaster(Received.tx[i][2])
  BY <1>1, <1>3 DEF Broadcasts
<1>5. ASSUME out.broadcast # 0
      PROVE  /\ Broadcaster(out.broadcast)
             /\ \/ chip'.adv = out.broadcast
                \/ \E i \in DOMAIN Received.tx :
                     Opens(Received.tx[i]) /\ Received.tx[i][2] = out.broadcast
  <2>1. /\ Broadcaster(out.broadcast)
        /\ \/ chip.adv = out.broadcast
           \/ \E i \in DOMAIN out.tx : Opens(out.tx[i]) /\ out.tx[i][2] = out.broadcast
    BY <1>5 DEF Broadcasts
  <2>2. CASE out.tx = << >>
    <3>1. chip' = chip /\ Rest(out.tx) = out.tx
      BY <2>2 DEF Exchange, Rest
    <3>2. QED
      BY <1>1, <2>1, <3>1
  <2>3. CASE out.tx # << >> /\ Opens(c)
    <3>1. chip' = ChipAfter(chip, c)
      BY <2>3 DEF Exchange
    <3> HIDE DEF c
    <3>2. chip'.adv = c[2]
      BY <2>3, <3>1, OnlyOpening
    <3>3. Broadcaster(c[2])
      BY <1>3, <2>3 DEF Broadcasts
    <3>4. c[2] = out.broadcast
      BY <2>1, <3>3 DEF OneBroadcaster, Broadcaster
    <3>5. QED
      BY <2>1, <3>2, <3>4
  <2>4. CASE out.tx # << >> /\ ~Opens(c)
    <3>1. chip'.adv = chip.adv
      <4>1. chip' = ChipAfter(chip, c)
        BY <2>4 DEF Exchange
      <4> HIDE DEF c
      <4>2. QED
        BY <2>4, <4>1, OnlyOpening
    <3>2. \A j \in DOMAIN out.tx : Opens(out.tx[j]) =>
            j - 1 \in DOMAIN Received.tx /\ Received.tx[j - 1] = out.tx[j]
      BY <1>1, <1>3, <2>4
    <3>3. QED
      BY <2>1, <3>1, <3>2
  <2>5. QED
    BY <2>2, <2>3, <2>4
<1>6. QED
  BY <1>1, <1>2, <1>4, <1>5 DEF Broadcasts

BroadcastInv == ChipShape(chip) /\ Broadcasts(out, chip)

LEMMA PollBroadcast == BroadcastInv /\ OneBroadcaster /\ poll => BroadcastInv'
<1> SUFFICES ASSUME BroadcastInv, OneBroadcaster, poll PROVE BroadcastInv'
  OBVIOUS
<1>1. Exchange
  BY PollExchanges
<1>2. Broadcasts(Received, chip')
  BY <1>1, BroadcastsTaken DEF BroadcastInv
<1>3. Broadcasts(out', chip')
  BY <1>2, BroadcastsPolled
<1>4. ChipShape(chip')
  BY <1>1, CommandKeeps DEF Exchange, BroadcastInv
<1>5. QED
  BY <1>3, <1>4 DEF BroadcastInv

LEMMA ChipBroadcast == BroadcastInv /\ Chip => BroadcastInv'
<1> SUFFICES ASSUME BroadcastInv, Chip PROVE BroadcastInv'
  OBVIOUS
<1>1. ChipShape(chip)
  BY DEF BroadcastInv
<1>2. ASSUME ChipShape(chip'), chip'.adv = chip.adv, out' = out PROVE BroadcastInv'
  BY <1>2 DEF BroadcastInv, Broadcasts
<1> USE DEF Emits
<1>3. CASE PeerConnects
  BY <1>1, <1>2, <1>3 DEF PeerConnects, ChipShape
<1>4. CASE PeerSetsPipes
  <2>1. PICK pipes : chip' = [chip EXCEPT !.open = pipes] /\ out' = out
    BY <1>4 DEF PeerSetsPipes
  <2>2. QED
    BY <1>1, <1>2, <2>1 DEF ChipShape
<1>5. CASE PeerSends
  <2>1. PICK u : chip' = [chip EXCEPT !.unacked = u] /\ out' = out
    BY <1>5 DEF PeerSends
  <2>2. QED
    BY <1>1, <1>2, <2>1 DEF ChipShape
<1>6. CASE PeerTakesData
  BY <1>1, <1>2, <1>6 DEF PeerTakesData, ChipShape
<1>7. CASE PeerRefuses
  BY <1>1, <1>2, <1>7 DEF PeerRefuses
<1>8. CASE PeerBonds
  <2>1. PICK b, t : chip' = [chip EXCEPT !.bonded = b, !.toSave = t] /\ out' = out
    BY <1>8 DEF PeerBonds
  <2>2. QED
    BY <1>1, <1>2, <2>1 DEF ChipShape
<1>9. CASE LinkEnds
  BY <1>1, <1>2, <1>9 DEF LinkEnds, Unlinked, ChipShape
<1>10. CASE ChipFails
  BY <1>1, <1>2, <1>10 DEF ChipFails, Unlinked, ChipShape
<1>11. QED
  BY <1>3, <1>4, <1>5, <1>6, <1>7, <1>8, <1>9, <1>10 DEF Chip

LEMMA InitBroadcast == Init => BroadcastInv
<1> SUFFICES ASSUME Init PROVE BroadcastInv
  OBVIOUS
<1>1. DOMAIN out.tx = {1} /\ out.tx[1] = <<"info", 0>>
  BY BegunFacts DEF Init
<1>2. OutShape(out) /\ out.broadcast = 0
  BY BegunFacts DEF Init
<1>3. ChipShape(chip)
  BY DEF Init, SetUp, ChipShape
<1>4. ~Opens(out.tx[1])
  BY <1>1 DEF Opens
<1>5. QED
  BY <1>1, <1>2, <1>3, <1>4 DEF BroadcastInv, Broadcasts

(* What the library believes it broadcasts is advertised, or the command   *)
(* that opens the pipe is on its way, whatever calls are refused for want  *)
(* of room and whether or not the chip restarts, in a program with one     *)
(* characteristic to broadcast and until a command is overrun.             *)
THEOREM BroadcastOpenedAlways == ASSUME OneBroadcaster PROVE Spec => []BroadcastOpened
<1>1. BroadcastInv => BroadcastOpened
  BY QueueFacts DEF BroadcastInv, Broadcasts, BroadcastOpened, Commands, Opens, OutShape
<1>2. Init => BroadcastInv
  BY InitBroadcast
<1>3. BroadcastInv /\ [Next]_vars => BroadcastInv'
  <2> SUFFICES ASSUME BroadcastInv, [Next]_vars PROVE BroadcastInv'
    OBVIOUS
  <2>1. CASE UNCHANGED vars
    BY <2>1 DEF vars, BroadcastInv, Broadcasts
  <2>2. CASE Call
    <3>1. PICK a \in Allowed(LoopCalls, subscribed) : out' = Called(out, txOpen, a)
      BY <2>2 DEF Call
    <3>2. Broadcasts(out', chip) /\ chip' = chip
      BY <2>2, <3>1, BroadcastsCalled DEF Call, Allowed, BroadcastInv
    <3>3. QED
      BY <3>2 DEF BroadcastInv
  <2>3. QED
    BY <2>1, <2>2, PollBroadcast, ChipBroadcast DEF Next, Overrun
<1>4. QED
  BY <1>1, <1>2, <1>3, PTL DEF Spec

==============================================================================
