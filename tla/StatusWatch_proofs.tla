-------------------------- MODULE StatusWatch_proofs --------------------------
(* Proofs about StatusWatch, for any objects, kinds and clients, any capacity *)
(* of their channels, and any number of changes and faults.                   *)
EXTENDS StatusWatch, FiniteSetTheorems, SequenceTheorems, TLAPS

------------------------------------------------------------------------------
(* Sequences of messages                                                      *)

\* Whether o occurs in a sequence, what its last message says of it, and that no
\* message about an object comes after a newer one.
Mentions(q, o) == \E m \in Range(q) : m.obj = o

Says(q, o, s) ==
    \E i \in DOMAIN q : /\ q[i].obj = o /\ Status(q[i]) = s
                        /\ \A j \in DOMAIN q : j > i => q[j].obj # o

InOrder(q) == \A i, j \in DOMAIN q : i < j /\ q[i].obj = q[j].obj => q[i].v <= q[j].v

\* A sequence's positions, and what is at them.
LEMMA SeqFacts ==
    ASSUME NEW q \in Seq(Messages)
    PROVE  /\ Len(q) \in Nat /\ DOMAIN q = 1..Len(q)
           /\ \A i \in DOMAIN q : q[i] \in Messages /\ q[i] \in Range(q)
           /\ Range(q) \subseteq Messages
           /\ \A m \in Range(q) : \E i \in DOMAIN q : q[i] = m
  <1>1. Len(q) \in Nat /\ DOMAIN q = 1..Len(q) /\ q \in [1..Len(q) -> Messages]
    BY LenProperties
  <1> QED
    BY <1>1 DEF Range

\* What nothing is said of.
LEMMA EmptyFacts ==
    /\ <<>> \in Seq(Messages) /\ InOrder(<<>>) /\ Range(<<>>) = {}
    /\ \A o : ~ Mentions(<<>>, o)
    /\ \A o, s : ~ Says(<<>>, o, s)
  <1>1. <<>> \in Seq(Messages) /\ DOMAIN <<>> = {}
    BY EmptySeq
  <1> QED
    BY <1>1 DEF InOrder, Range, Mentions, Says

\* A sequence that says something of an object mentions it, and the other way round.
LEMMA SaysMentions ==
    ASSUME NEW q \in Seq(Messages), NEW o, NEW s, Says(q, o, s)
    PROVE  Mentions(q, o) /\ \E m \in Range(q) : m.obj = o /\ Status(m) = s
  BY SeqFacts DEF Says, Mentions

\* A message at the end has the last word on its object, and comes in order if what the
\* sequence has of the object is older.
LEMMA AppendFacts ==
    ASSUME NEW q \in Seq(Messages), NEW m \in Messages
    PROVE  /\ Append(q, m) \in Seq(Messages) /\ Len(Append(q, m)) = Len(q) + 1
           /\ Append(q, m) # <<>>
           /\ Range(Append(q, m)) = Range(q) \cup {m}
           /\ q # <<>> => Head(Append(q, m)) = Head(q)
           /\ \A o : Mentions(Append(q, m), o) <=> o = m.obj \/ Mentions(q, o)
           /\ \A o, s : Says(Append(q, m), o, s) <=>
                 IF o = m.obj THEN s = Status(m) ELSE Says(q, o, s)
           /\ InOrder(q) /\ (\A e \in Range(q) : e.obj = m.obj => e.v <= m.v) =>
                 InOrder(Append(q, m))
  <1> DEFINE p == Append(q, m)
             n == Len(q) + 1
  <1>1. /\ p \in Seq(Messages) /\ Len(p) = n
        /\ \A i \in 1..Len(q) : p[i] = q[i]
        /\ p[n] = m
    BY AppendProperties
  <1>2. Len(q) \in Nat /\ n \in Nat /\ DOMAIN q = 1..Len(q) /\ DOMAIN p = 1..n
    BY <1>1, LenProperties
  <1> HIDE DEF p, n
  <1>3. /\ DOMAIN p = DOMAIN q \cup {n} /\ n \notin DOMAIN q
        /\ \A i \in DOMAIN q : i < n /\ ~ (n < i)
        /\ \A i \in DOMAIN p : ~ (n < i)
    BY <1>2 DEF n
  <1>4. \A i \in DOMAIN q : p[i] = q[i]
    BY <1>1, <1>2
  <1>5. Range(p) = Range(q) \cup {m}
    BY <1>1, <1>3, <1>4 DEF Range
  <1>6. p # <<>> /\ (q # <<>> => Head(p) = Head(q))
    <2>1. p # <<>>
      BY <1>1, <1>2, EmptySeq DEF n
    <2>2. ASSUME q # <<>> PROVE Head(p) = Head(q)
      <3>1. Len(q) # 0
        BY <2>2, EmptySeq
      <3>2. p[1] = q[1]
        BY <1>1, <1>2, <3>1
      <3> QED
        BY <3>2
    <2> QED
      BY <2>1, <2>2
  <1>7. ASSUME NEW o PROVE Mentions(p, o) <=> o = m.obj \/ Mentions(q, o)
    BY <1>5 DEF Mentions
  <1>8. ASSUME NEW o, NEW s
        PROVE  Says(p, o, s) <=> IF o = m.obj THEN s = Status(m) ELSE Says(q, o, s)
    <2>1. CASE o = m.obj
      <3>1. ASSUME Says(p, o, s) PROVE s = Status(m)
        <4>1. PICK i \in DOMAIN p : /\ p[i].obj = o /\ Status(p[i]) = s
                                    /\ \A j \in DOMAIN p : j > i => p[j].obj # o
          BY <3>1 DEF Says
        <4>2. i = n
          BY <1>1, <1>2, <1>3, <2>1, <4>1
        <4> QED
          BY <1>1, <4>1, <4>2
      <3>2. ASSUME s = Status(m) PROVE Says(p, o, s)
        <4>1. n \in DOMAIN p /\ \A j \in DOMAIN p : ~ (j > n)
          BY <1>3
        <4> QED
          BY <1>1, <2>1, <3>2, <4>1 DEF Says
      <3> QED
        BY <2>1, <3>1, <3>2
    <2>2. CASE o # m.obj
      <3>1. p[n].obj # o
        BY <1>1, <2>2
      <3>2. ASSUME Says(p, o, s) PROVE Says(q, o, s)
        <4>1. PICK i \in DOMAIN p : /\ p[i].obj = o /\ Status(p[i]) = s
                                    /\ \A j \in DOMAIN p : j > i => p[j].obj # o
          BY <3>2 DEF Says
        <4>2. i \in DOMAIN q
          BY <1>3, <3>1, <4>1
        <4> QED
          BY <1>3, <1>4, <4>1, <4>2 DEF Says
      <3>3. ASSUME Says(q, o, s) PROVE Says(p, o, s)
        <4>1. PICK i \in DOMAIN q : /\ q[i].obj = o /\ Status(q[i]) = s
                                    /\ \A j \in DOMAIN q : j > i => q[j].obj # o
          BY <3>3 DEF Says
        <4> QED
          BY <1>3, <1>4, <3>1, <4>1 DEF Says
      <3> QED
        BY <2>2, <3>2, <3>3
    <2> QED
      BY <2>1, <2>2
  <1>9. ASSUME InOrder(q), \A e \in Range(q) : e.obj = m.obj => e.v <= m.v
        PROVE  InOrder(p)
    <2> SUFFICES ASSUME NEW i \in DOMAIN p, NEW j \in DOMAIN p, i < j, p[i].obj = p[j].obj
                 PROVE  p[i].v <= p[j].v
      BY DEF InOrder
    <2>1. i \in DOMAIN q
      BY <1>3
    <2>2. CASE j = n
      BY <1>1, <1>4, <1>9, <2>1, <2>2 DEF Range
    <2>3. CASE j # n
      BY <1>3, <1>4, <1>9, <2>1, <2>3 DEF InOrder
    <2> QED
      BY <2>2, <2>3
  <1> QED
    BY <1>1, <1>5, <1>6, <1>7, <1>8, <1>9 DEF p, n

\* Without its first message a sequence still says what it said, but of the message's
\* object if there is nothing else of it; and the rest of it is no older.
LEMMA TailFacts ==
    ASSUME NEW q \in Seq(Messages), q # <<>>
    PROVE  /\ Head(q) \in Messages /\ Head(q) \in Range(q)
           /\ Tail(q) \in Seq(Messages) /\ Len(Tail(q)) = Len(q) - 1
           /\ Range(q) = Range(Tail(q)) \cup {Head(q)}
           /\ \A o : Mentions(q, o) <=> o = Head(q).obj \/ Mentions(Tail(q), o)
           /\ \A o, s : Says(q, o, s) <=>
                 \/ Says(Tail(q), o, s)
                 \/ /\ o = Head(q).obj /\ s = Status(Head(q))
                    /\ ~ Mentions(Tail(q), o)
           /\ InOrder(q) =>
                /\ InOrder(Tail(q))
                /\ \A m \in Range(Tail(q)) : m.obj = Head(q).obj => Head(q).v <= m.v
  <1> DEFINE t == Tail(q)
  <1>1. /\ Head(q) \in Messages /\ t \in Seq(Messages) /\ Len(t) = Len(q) - 1
        /\ \A i \in 1..Len(t) : t[i] = q[i + 1]
    BY HeadTailProperties
  <1>2. /\ Len(q) \in Nat \ {0} /\ DOMAIN q = 1..Len(q) /\ DOMAIN t = 1..(Len(q) - 1)
        /\ Head(q) = q[1]
    BY <1>1, EmptySeq, LenProperties
  <1> HIDE DEF t
  <1>3. /\ 1 \in DOMAIN q
        /\ \A i \in DOMAIN t : i + 1 \in DOMAIN q /\ t[i] = q[i + 1] /\ i \in Nat \ {0}
        /\ \A j \in DOMAIN q : j # 1 => j - 1 \in DOMAIN t /\ t[j - 1] = q[j]
        /\ \A j \in DOMAIN q : j \in Nat \ {0}
        /\ \A i, j \in DOMAIN t : i < j => i + 1 < j + 1
        /\ \A i \in DOMAIN t, j \in DOMAIN q : j > i + 1 => j # 1 /\ j - 1 > i
        /\ \A j \in DOMAIN q : j > 1 => j # 1
    BY <1>1, <1>2
  <1>4. Range(q) = Range(t) \cup {Head(q)}
    <2>1. ASSUME NEW m \in Range(q) PROVE m \in Range(t) \cup {Head(q)}
      BY <1>2, <1>3 DEF Range
    <2>2. ASSUME NEW m \in Range(t) \cup {Head(q)} PROVE m \in Range(q)
      BY <1>2, <1>3 DEF Range
    <2> QED
      BY <2>1, <2>2
  <1>5. ASSUME NEW o PROVE Mentions(q, o) <=> o = Head(q).obj \/ Mentions(t, o)
    BY <1>4 DEF Mentions
  <1>6. ASSUME NEW o, NEW s
        PROVE  Says(q, o, s) <=> \/ Says(t, o, s)
                                 \/ /\ o = Head(q).obj /\ s = Status(Head(q))
                                    /\ ~ Mentions(t, o)
    <2>1. ASSUME Says(t, o, s) PROVE Says(q, o, s)
      <3>1. PICK i \in DOMAIN t : /\ t[i].obj = o /\ Status(t[i]) = s
                                  /\ \A j \in DOMAIN t : j > i => t[j].obj # o
        BY <2>1 DEF Says
      <3>2. ASSUME NEW j \in DOMAIN q, j > i + 1 PROVE q[j].obj # o
        BY <1>3, <3>1, <3>2
      <3> QED
        BY <1>3, <3>1, <3>2 DEF Says
    <2>2. ASSUME o = Head(q).obj, s = Status(Head(q)), ~ Mentions(t, o) PROVE Says(q, o, s)
      <3>1. \A j \in DOMAIN q : j > 1 => q[j].obj # o
        BY <1>3, <2>2 DEF Mentions, Range
      <3> QED
        BY <1>2, <1>3, <2>2, <3>1 DEF Says
    <2>3. ASSUME Says(q, o, s), ~ Says(t, o, s)
          PROVE  o = Head(q).obj /\ s = Status(Head(q)) /\ ~ Mentions(t, o)
      <3>1. PICK i \in DOMAIN q : /\ q[i].obj = o /\ Status(q[i]) = s
                                  /\ \A j \in DOMAIN q : j > i => q[j].obj # o
        BY <2>3 DEF Says
      <3>2. i = 1
        <4>1. SUFFICES ASSUME i # 1 PROVE FALSE
          OBVIOUS
        <4>2. i - 1 \in DOMAIN t /\ t[i - 1] = q[i]
          BY <1>3, <4>1
        <4>3. \A j \in DOMAIN t : j > i - 1 => t[j].obj # o
          BY <1>3, <3>1
        <4> QED
          BY <2>3, <3>1, <4>2, <4>3 DEF Says
      <3>3. ~ Mentions(t, o)
        BY <1>3, <3>1, <3>2 DEF Mentions, Range
      <3> QED
        BY <1>2, <3>1, <3>2, <3>3
    <2> QED
      BY <2>1, <2>2, <2>3
  <1>7. ASSUME InOrder(q)
        PROVE  /\ InOrder(t)
               /\ \A m \in Range(t) : m.obj = Head(q).obj => Head(q).v <= m.v
    <2>1. InOrder(t)
      <3> SUFFICES ASSUME NEW i \in DOMAIN t, NEW j \in DOMAIN t, i < j, t[i].obj = t[j].obj
                   PROVE  t[i].v <= t[j].v
        BY DEF InOrder
      <3>1. i + 1 \in DOMAIN q /\ j + 1 \in DOMAIN q /\ i + 1 < j + 1
        BY <1>3
      <3>2. t[i] = q[i + 1] /\ t[j] = q[j + 1]
        BY <1>3
      <3> QED
        BY <1>7, <3>1, <3>2 DEF InOrder
    <2>2. ASSUME NEW m \in Range(t), m.obj = Head(q).obj PROVE Head(q).v <= m.v
      <3>1. PICK i \in DOMAIN t : t[i] = m
        BY DEF Range
      <3>2. 1 < i + 1 /\ i + 1 \in DOMAIN q /\ q[i + 1] = m /\ 1 \in DOMAIN q
        BY <1>3, <3>1
      <3> QED
        BY <1>2, <1>7, <2>2, <3>2 DEF InOrder
    <2> QED
      BY <2>1, <2>2
  <1>8. Head(q) \in Range(q)
    BY <1>4
  <1> QED
    BY <1>1, <1>4, <1>5, <1>6, <1>7, <1>8 DEF t

------------------------------------------------------------------------------
(* The inductive invariant                                                    *)

\* Nothing that was published about o is newer than v.
Behind(o, v) ==
    /\ cache[o].v <= v
    /\ \A c \in Clients : /\ shown[c][o].v <= v
                          /\ \A m \in Range(queue[c]) : m.obj = o => m.v <= v

\* What c has been told of o last, the messages in its channel included.
Knows(c, o, s) ==
    \/ Says(queue[c], o, s)
    \/ ~ Mentions(queue[c], o) /\ shown[c][o] = s

\* A listed status is older than whatever the watch has of its object, newer than what
\* was published, and current if the watch has nothing.
ItemsFit(k) ==
    /\ pc[k] # "seed" => items[k] = {}
    /\ \A m \in items[k] :
         /\ KindOf[m.obj] = k /\ m.up
         /\ Behind(m.obj, m.v) /\ m.v <= world[m.obj].v
         /\ \A e \in Range(stream[k]) : e.obj = m.obj => m.v <= e.v
         /\ Mentions(stream[k], m.obj) \/ Status(m) = world[m.obj]
         /\ \A l \in items[k] : l.obj = m.obj => l = m

\* The watch reports each object's changes in order, up to its current status.  Between
\* the two critical sections of a pod's deletion the cache has the deleted status.
StreamFits(k) ==
    /\ pc[k] = "list" => stream[k] = <<>>
    /\ InOrder(stream[k])
    /\ \A e \in Range(stream[k]) :
         KindOf[e.obj] = k /\ Behind(e.obj, e.v) /\ e.v <= world[e.obj].v
    /\ \A o \in Objs : Mentions(stream[k], o) => Says(stream[k], o, world[o])
    /\ pc[k] = "evict" => cache[Head(stream[k]).obj] = Status(Head(stream[k]))

\* Nothing about o is listed or reported and not yet published.
Quiet(o) ==
    LET k == KindOf[o] IN
      pc[k] # "list" /\ ~ Mentions(stream[k], o) /\ \A m \in items[k] : m.obj # o

\* The cache has what was published last, and that is current once o is quiet: a status
\* that is up always, one that is gone if no list has come between.
CacheFits(o) ==
    /\ Behind(o, world[o].v)
    /\ faults = 0 /\ pc[KindOf[o]] = "list" => cache[o] = Absent
    /\ Quiet(o) => /\ world[o].up => cache[o] = world[o]
                   /\ faults = 0 /\ KindOf[o] = Pod /\ cache[o].up => world[o].up

\* A client's channel continues in order what it shows.  If nothing was dropped, it knows
\* what is cached; and of pods it knows no status that has left the cache, but that they
\* are gone.
ClientFits(c) ==
    /\ c \notin clients => queue[c] = <<>> /\ shown[c] = [o \in Objs |-> Absent]
    /\ InOrder(queue[c])
    /\ \A m \in Range(queue[c]) : shown[c][m.obj].v <= m.v
    /\ c \in clients \ missed =>
         \A o \in Objs :
           /\ cache[o] # Absent => Knows(c, o, cache[o])
           /\ KindOf[o] = Pod =>
                \A s \in Statuses : Knows(c, o, s) /\ s.up => cache[o] = s

IInv ==
    /\ TypeOK
    /\ \A k \in Kinds : ItemsFit(k) /\ StreamFits(k)
    /\ \A o \in Objs : CacheFits(o)
    /\ \A c \in Clients : ClientFits(c)

------------------------------------------------------------------------------
(* Publishing                                                                 *)

\* A status is what its message says.
LEMMA StatusFacts ==
    /\ \A m \in Messages : Status(m) \in Statuses /\ Status(m).v = m.v /\ Status(m).up = m.up
    /\ \A o \in Objs, s \in Statuses :
         /\ Message(o, s) \in Messages /\ Message(o, s).obj = o
         /\ Message(o, s).v = s.v /\ Message(o, s).up = s.up
         /\ Status(Message(o, s)) = s
    /\ Absent \in Statuses /\ Absent.v = 0 /\ ~ Absent.up
  BY DEF Statuses, Messages, Status, Message, Absent

\* What is published has versions.
LEMMA BehindGrows ==
    ASSUME TypeOK, NEW o \in Objs, NEW v \in Nat, NEW w \in Nat, v <= w, Behind(o, v)
    PROVE  Behind(o, w)
  <1>1. cache[o].v \in Nat /\ \A c \in Clients : shown[c][o].v \in Nat
    BY DEF TypeOK, Statuses
  <1>2. ASSUME NEW c \in Clients, NEW m \in Range(queue[c]) PROVE m.v \in Nat
    BY SeqFacts, ZenonT(60) DEF TypeOK, Messages
  <1> QED
    BY <1>1, <1>2 DEF Behind

\* Where nothing is published, nothing changes for the clients.
LEMMA ServedStay ==
    ASSUME IInv, UNCHANGED <<cache, served>>
    PROVE  /\ \A o \in Objs, v \in Nat : Behind(o, v)' <=> Behind(o, v)
           /\ \A c \in Clients : ClientFits(c)'
  <1>1. UNCHANGED <<cache, clients, queue, shown, missed>>
    BY DEF served
  <1>2. ASSUME NEW c \in Clients PROVE ClientFits(c)'
    <2>1. \A o, s : Knows(c, o, s)' <=> Knows(c, o, s)
      BY <1>1 DEF Knows
    <2>2. ClientFits(c)
      BY DEF IInv
    <2> QED
      BY <1>1, <2>1, <2>2 DEF ClientFits
  <1>3. ASSUME NEW o \in Objs, NEW v \in Nat PROVE Behind(o, v)' <=> Behind(o, v)
    BY <1>1 DEF Behind
  <1> QED
    BY <1>2, <1>3

\* A published status is the newest that is cached, queued or shown of its object, and
\* whoever loses none knows it.
LEMMA PublishFacts ==
    ASSUME IInv, NEW m \in Messages, Publish(m), Behind(m.obj, m.v)
    PROVE  /\ cache' \in [Objs -> Statuses] /\ cache'[m.obj] = Status(m)
           /\ \A o \in Objs \ {m.obj} : cache'[o] = cache[o]
           /\ queue' \in [Clients -> Seq(Messages)]
           /\ \A c \in Clients : Len(queue'[c]) <= Capacity
           /\ missed' \in SUBSET clients /\ UNCHANGED <<clients, shown>>
           /\ \A o \in Objs, v \in Nat :
                Behind(o, v) /\ (o = m.obj => m.v <= v) => Behind(o, v)'
           /\ \A c \in Clients : ClientFits(c)'
  <1> DEFINE full == {c \in clients : Len(queue[c]) = Capacity}
  <1>1. /\ cache' = [cache EXCEPT ![m.obj] = Status(m)]
        /\ queue' = [c \in Clients |-> IF c \in clients \ full THEN Append(queue[c], m)
                                                             ELSE queue[c]]
        /\ missed' = missed \cup full
        /\ UNCHANGED <<clients, shown>>
    BY DEF Publish
  <1>2. /\ cache \in [Objs -> Statuses] /\ m.obj \in Objs /\ Status(m) \in Statuses
        /\ \A c \in Clients : queue[c] \in Seq(Messages) /\ Len(queue[c]) <= Capacity
        /\ missed \subseteq clients /\ clients \subseteq Clients
    BY StatusFacts DEF IInv, TypeOK, Messages
  <1>3. /\ cache' \in [Objs -> Statuses] /\ cache'[m.obj] = Status(m)
        /\ \A o \in Objs \ {m.obj} : cache'[o] = cache[o]
    BY <1>1, <1>2
  <1>4. ASSUME NEW c \in Clients
        PROVE  \/ c \in clients \ full /\ queue'[c] = Append(queue[c], m)
               \/ c \notin clients \ full /\ queue'[c] = queue[c]
    BY <1>1
  <1>5. ASSUME NEW c \in Clients
        PROVE  queue'[c] \in Seq(Messages) /\ Len(queue'[c]) <= Capacity
    <2>1. CASE c \in clients \ full
      <3>1. queue'[c] \in Seq(Messages) /\ Len(queue'[c]) = Len(queue[c]) + 1
        BY <1>2, <1>4, <2>1, AppendFacts, ZenonT(60)
      <3>2. Len(queue[c]) # Capacity /\ Len(queue[c]) <= Capacity
        BY <1>2, <2>1
      <3>3. Len(queue[c]) \in Nat
        BY <1>2, SeqFacts
      <3> QED
        BY <3>1, <3>2, <3>3, CapacityAssumption
    <2>2. CASE c \notin clients \ full
      BY <1>2, <1>4, <2>2
    <2> QED
      BY <2>1, <2>2
  <1>6. missed' \in SUBSET clients
    BY <1>1, <1>2
  <1>7. ASSUME NEW c \in Clients
        PROVE  Range(queue'[c]) \subseteq Range(queue[c]) \cup {m}
    BY <1>2, <1>4, AppendFacts
  <1>8. ASSUME NEW o \in Objs, NEW v \in Nat, Behind(o, v), o = m.obj => m.v <= v
        PROVE  Behind(o, v)'
    <2>1. cache'[o].v <= v
      BY <1>3, <1>8, StatusFacts DEF Behind
    <2>2. ASSUME NEW c \in Clients
          PROVE  shown'[c][o].v <= v /\ \A e \in Range(queue'[c]) : e.obj = o => e.v <= v
      BY <1>1, <1>7, <1>8 DEF Behind
    <2> QED
      BY <2>1, <2>2 DEF Behind
  <1>9. ASSUME NEW c \in Clients PROVE ClientFits(c)'
    <2>1. ClientFits(c)
      BY DEF IInv
    <2>2. CASE c \notin clients \ full
      <3>1. c \notin clients' \ missed'
        BY <1>1, <2>2
      <3> QED
        BY <1>1, <1>4, <2>1, <2>2, <3>1 DEF ClientFits
    <2>3. CASE c \in clients \ full
      <3>1. queue'[c] = Append(queue[c], m) /\ queue[c] \in Seq(Messages)
        BY <1>2, <1>4, <2>3
      <3>2. InOrder(queue'[c])
        BY <2>1, <3>1, AppendFacts DEF Behind, ClientFits
      <3>3. \A e \in Range(queue'[c]) : shown'[c][e.obj].v <= e.v
        BY <1>1, <1>7, <2>1 DEF Behind, ClientFits
      <3>4. ASSUME NEW o \in Objs, NEW s
            PROVE  Knows(c, o, s)' <=> IF o = m.obj THEN s = Status(m) ELSE Knows(c, o, s)
        BY <1>1, <3>1, AppendFacts DEF Knows
      <3>5. ASSUME c \in clients' \ missed', NEW o \in Objs
            PROVE  /\ cache'[o] # Absent => Knows(c, o, cache[o])'
                   /\ KindOf[o] = Pod =>
                        \A s \in Statuses : Knows(c, o, s)' /\ s.up => cache'[o] = s
        <4>1. c \in clients \ missed
          BY <1>1, <3>5
        <4>2. Knows(c, o, cache[o])' <=> IF o = m.obj THEN cache'[o] = Status(m)
                                                       ELSE Knows(c, o, cache'[o])
          BY <1>1, <3>1, AppendFacts DEF Knows
        <4>3. CASE o = m.obj
          BY <1>3, <3>4, <4>2, <4>3
        <4>4. CASE o # m.obj
          BY <1>3, <2>1, <3>4, <4>1, <4>2, <4>4 DEF ClientFits
        <4> QED
          BY <4>3, <4>4
      <3> QED
        BY <1>1, <2>3, <3>2, <3>3, <3>5 DEF ClientFits
    <2> QED
      BY <2>2, <2>3
  <1> QED
    BY <1>1, <1>3, <1>5, <1>6, <1>8, <1>9

\* A status that leaves the cache takes nothing from the clients, provided none of them
\* has it as a pod's that is there.
LEMMA EvictFacts ==
    ASSUME IInv, NEW p \in Objs, cache' = [cache EXCEPT ![p] = Absent], UNCHANGED served,
           KindOf[p] = Pod => ~ cache[p].up
    PROVE  /\ cache' \in [Objs -> Statuses] /\ cache'[p] = Absent
           /\ \A o \in Objs \ {p} : cache'[o] = cache[o]
           /\ \A o \in Objs, v \in Nat : Behind(o, v) => Behind(o, v)'
           /\ \A c \in Clients : ClientFits(c)'
  <1>1. UNCHANGED <<clients, queue, shown, missed>>
    BY DEF served
  <1>2. /\ cache' \in [Objs -> Statuses] /\ cache'[p] = Absent
        /\ \A o \in Objs \ {p} : cache'[o] = cache[o]
    BY StatusFacts DEF IInv, TypeOK
  <1>3. ASSUME NEW o \in Objs, NEW v \in Nat, Behind(o, v) PROVE Behind(o, v)'
    <2>1. cache'[o].v <= v
      BY <1>2, <1>3, StatusFacts DEF Behind
    <2> QED
      BY <1>1, <1>3, <2>1 DEF Behind
  <1>4. ASSUME NEW c \in Clients PROVE ClientFits(c)'
    <2>1. ClientFits(c)
      BY DEF IInv
    <2>2. \A o, s : Knows(c, o, s)' <=> Knows(c, o, s)
      BY <1>1 DEF Knows
    <2>3. ASSUME NEW o \in Objs, c \in clients \ missed
          PROVE  /\ cache'[o] # Absent => Knows(c, o, cache[o])'
                 /\ KindOf[o] = Pod =>
                      \A s \in Statuses : Knows(c, o, s)' /\ s.up => cache'[o] = s
      <3>1. Knows(c, o, cache[o])' <=> Knows(c, o, cache'[o])
        BY <1>1 DEF Knows
      <3> QED
        BY <1>2, <2>1, <2>2, <2>3, <3>1 DEF ClientFits
    <2> QED
      BY <1>1, <2>1, <2>3 DEF ClientFits
  <1> QED
    BY <1>2, <1>3, <1>4

------------------------------------------------------------------------------
(* Steps                                                                      *)

\* The goroutine of another kind notices nothing: what it has yet to publish is of other
\* objects.
LEMMA OtherKinds ==
    ASSUME IInv, NEW k \in Kinds, NEW j \in Kinds \ {k}, UNCHANGED world,
           pc'[j] = pc[j], items'[j] = items[j], stream'[j] = stream[j],
           \A o \in Objs, v \in Nat : KindOf[o] = j /\ Behind(o, v) => Behind(o, v)',
           \A o \in Objs : KindOf[o] = j => cache'[o] = cache[o]
    PROVE  /\ ItemsFit(j)' /\ StreamFits(j)'
           /\ faults' = faults \/ faults' # 0 =>
                \A o \in Objs : KindOf[o] = j => CacheFits(o)'
  <1>1. /\ ItemsFit(j) /\ StreamFits(j)
        /\ items[j] \subseteq Messages /\ stream[j] \in Seq(Messages)
        /\ \A o \in Objs : world[o].v \in Nat
    BY DEF IInv, TypeOK, Statuses
  <1>2. ASSUME NEW m \in Messages, KindOf[m.obj] = j, Behind(m.obj, m.v)
        PROVE  Behind(m.obj, m.v)'
    BY <1>2 DEF Messages
  <1>3. ItemsFit(j)'
    BY <1>1, <1>2 DEF ItemsFit
  <1>4. StreamFits(j)'
    <2>1. ASSUME NEW e \in Range(stream[j]) PROVE Behind(e.obj, e.v)'
      BY <1>1, <1>2, SeqFacts DEF StreamFits
    <2>2. ASSUME pc[j] = "evict"
          PROVE  cache'[Head(stream[j]).obj] = Status(Head(stream[j]))
      <3>1. Head(stream[j]) \in Range(stream[j]) /\ Head(stream[j]) \in Messages
        BY <1>1, <2>2, TailFacts DEF IInv, TypeOK
      <3> QED
        BY <1>1, <2>2, <3>1 DEF StreamFits, Messages
    <2>3. \A o \in Objs : Says(stream[j], o, world[o])' <=> Says(stream[j], o, world[o])
      OBVIOUS
    <2> QED
      BY <1>1, <2>1, <2>2, <2>3 DEF StreamFits
  <1>5. ASSUME faults' = faults \/ faults' # 0, NEW o \in Objs, KindOf[o] = j
        PROVE  CacheFits(o)'
    <2>1. CacheFits(o) /\ Behind(o, world[o].v)'
      BY <1>1, <1>5 DEF IInv, CacheFits
    <2>2. Quiet(o)' <=> Quiet(o)
      BY <1>5 DEF Quiet
    <2> QED
      BY <1>5, <2>1, <2>2 DEF CacheFits
  <1> QED
    BY <1>3, <1>4, <1>5

\* The server starts with nothing known, and so does the model.
LEMMA InitIInv == Init => IInv
  <1> SUFFICES ASSUME Init PROVE IInv
    OBVIOUS
  <1>1. /\ <<>> \in Seq(Messages) /\ Len(<<>>) = 0
        /\ Absent \in Statuses /\ Absent.v = 0 /\ ~ Absent.up
    BY EmptySeq, StatusFacts
  <1>2. TypeOK
    BY <1>1, CapacityAssumption DEF Init, TypeOK
  <1>3. ASSUME NEW o \in Objs, NEW v \in Nat PROVE Behind(o, v)
    BY <1>1, EmptyFacts DEF Init, Behind
  <1>4. ASSUME NEW k \in Kinds PROVE ItemsFit(k) /\ StreamFits(k)
    BY EmptyFacts DEF Init, ItemsFit, StreamFits
  <1>5. ASSUME NEW o \in Objs PROVE CacheFits(o)
    BY <1>1, <1>3, KindAssumption DEF Init, CacheFits, Quiet
  <1>6. ASSUME NEW c \in Clients PROVE ClientFits(c)
    BY EmptyFacts DEF Init, ClientFits
  <1> QED
    BY <1>2, <1>4, <1>5, <1>6 DEF IInv

\* A change is reported if the kind was listed, and listed later if not.
LEMMA ChangeKeeps ==
    ASSUME IInv, NEW o \in Objs, Change(o)
    PROVE  IInv'
  <1>1. PICK up \in BOOLEAN : world' = [world EXCEPT ![o] = [v |-> @.v + 1, up |-> up]]
    BY DEF Change
  <1> DEFINE k == KindOf[o]
  <1>0. PICK now, m : now = [v |-> world[o].v + 1, up |-> up] /\ m = Message(o, now)
    OBVIOUS
  <1>2. /\ changes' = changes + 1
        /\ UNCHANGED <<pc, items, cache, served, clients, queue, shown, missed, faults>>
    BY DEF Change, served
  <1>3. k \in Kinds /\ world[o].v \in Nat /\ now \in Statuses
    BY <1>0, KindAssumption DEF IInv, TypeOK, Statuses
  <1>4. world'[o] = now /\ \A x \in Objs \ {o} : world'[x] = world[x]
    BY <1>0, <1>1 DEF IInv, TypeOK
  <1>5. stream' = IF pc[k] = "list" THEN stream ELSE [stream EXCEPT ![k] = Append(@, m)]
    BY <1>0, <1>4 DEF Change
  <1>6. m \in Messages /\ m.obj = o /\ m.v = world[o].v + 1 /\ Status(m) = now
    BY <1>0, <1>3, StatusFacts
  <1> HIDE DEF k
  <1>7. /\ \A x \in Objs, v \in Nat : Behind(x, v)' <=> Behind(x, v)
        /\ \A c \in Clients : ClientFits(c)'
    BY <1>2, ServedStay
  <1>8. /\ \A j \in Kinds : stream[j] \in Seq(Messages)
        /\ \A j \in Kinds \ {k} : stream'[j] = stream[j]
        /\ stream'[k] = IF pc[k] = "list" THEN stream[k] ELSE Append(stream[k], m)
    BY <1>3, <1>5 DEF IInv, TypeOK
  <1>9. ASSUME NEW j \in Kinds
        PROVE  /\ stream'[j] \in Seq(Messages)
               /\ pc[j] = "evict" =>
                    stream'[j] # <<>> /\ Head(stream'[j]) = Head(stream[j])
    <2>1. pc[j] = "evict" => stream[j] # <<>>
      BY DEF IInv, TypeOK
    <2>2. CASE j = k /\ pc[k] # "list"
      <3>1. stream'[j] = Append(stream[j], m) /\ stream[j] \in Seq(Messages)
        BY <1>8, <2>2
      <3> QED
        BY <1>6, <2>1, <3>1, AppendFacts
    <2>3. CASE ~ (j = k /\ pc[k] # "list")
      BY <1>8, <2>1, <2>3
    <2> QED
      BY <2>2, <2>3
  <1>10. TypeOK'
    <2>1. world' \in [Objs -> Statuses]
      BY <1>0, <1>1, <1>3 DEF IInv, TypeOK
    <2>2. stream' \in [Kinds -> Seq(Messages)]
      BY <1>5, <1>9 DEF IInv, TypeOK
    <2> QED
      BY <1>2, <1>9, <2>1, <2>2, SMTT(30) DEF IInv, TypeOK
  <1>11. \A x \in Objs : world[x].v \in Nat /\ world[x].v <= world'[x].v /\ world'[x].v \in Nat
    <2>1. world[o].v + 1 = now.v
      BY <1>0
    <2>2. \A x \in Objs : world[x].v \in Nat
      BY DEF IInv, TypeOK, Statuses
    <2> QED
      BY <1>3, <1>4, <2>1, <2>2
  <1>12. ASSUME NEW j \in Kinds PROVE ItemsFit(j)'
    <2>1. ItemsFit(j) /\ items[j] \subseteq Messages
      BY DEF IInv, TypeOK
    <2>2. ASSUME NEW l \in items[j]
          PROVE  /\ Behind(l.obj, l.v)' /\ l.v <= world'[l.obj].v
                 /\ \A e \in Range(stream'[j]) : e.obj = l.obj => l.v <= e.v
                 /\ Mentions(stream'[j], l.obj) \/ Status(l) = world'[l.obj]
      <3>1. l.obj \in Objs /\ l.v \in Nat /\ KindOf[l.obj] = j /\ pc[j] # "list"
        BY <2>1 DEF ItemsFit, Messages
      <3>2. Behind(l.obj, l.v)' /\ l.v <= world[l.obj].v /\ l.v <= world'[l.obj].v
        BY <1>7, <1>11, <2>1, <3>1 DEF ItemsFit
      <3>3. CASE l.obj = o
        <4>1. j = k
          BY <3>1, <3>3 DEF k
        <4>2. stream'[j] = Append(stream[j], m) /\ stream[j] \in Seq(Messages)
          BY <1>8, <3>1, <4>1
        <4>3. l.v <= m.v
          BY <1>3, <1>6, <3>1, <3>2, <3>3
        <4>4. Range(stream'[j]) = Range(stream[j]) \cup {m} /\ Mentions(stream'[j], o)
          BY <1>6, <4>2, AppendFacts
        <4>5. \A e \in Range(stream[j]) : e.obj = l.obj => l.v <= e.v
          BY <2>1 DEF ItemsFit
        <4> QED
          BY <3>2, <3>3, <4>3, <4>4, <4>5
      <3>4. CASE l.obj # o
        <4>1. \/ stream'[j] = stream[j]
              \/ stream'[j] = Append(stream[j], m) /\ stream[j] \in Seq(Messages)
          BY <1>8
        <4>2. \A e \in Range(stream'[j]) : e.obj = l.obj => e \in Range(stream[j])
          <5>1. Range(stream'[j]) \subseteq Range(stream[j]) \cup {m}
            BY <1>6, <4>1, AppendFacts
          <5> QED
            BY <1>6, <3>4, <5>1
        <4>3. Mentions(stream[j], l.obj) => Mentions(stream'[j], l.obj)
          BY <1>6, <4>1, AppendFacts, ZenonT(60)
        <4>4. world'[l.obj] = world[l.obj]
          BY <1>4, <3>1, <3>4
        <4> QED
          BY <2>1, <3>2, <4>2, <4>3, <4>4 DEF ItemsFit
      <3> QED
        BY <3>3, <3>4
    <2> QED
      BY <1>2, <2>1, <2>2 DEF ItemsFit
  <1>13. ASSUME NEW j \in Kinds PROVE StreamFits(j)'
    <2>1. StreamFits(j) /\ stream[j] \in Seq(Messages)
      BY <1>8 DEF IInv
    <2>2. ASSUME NEW e \in Range(stream[j])
          PROVE  e.obj \in Objs /\ Behind(e.obj, e.v)' /\ e.v <= world'[e.obj].v
      <3>1. e.obj \in Objs /\ e.v \in Nat
        BY <2>1, SeqFacts DEF Messages
      <3> QED
        BY <1>7, <1>11, <2>1, <3>1 DEF StreamFits
    <2>3. CASE j = k /\ pc[k] # "list"
      <3>1. stream'[j] = Append(stream[j], m)
        BY <1>8, <2>3
      <3>2. \A e \in Range(stream[j]) : e.obj = m.obj => e.v <= m.v
        <4> SUFFICES ASSUME NEW e \in Range(stream[j]), e.obj = o PROVE e.v <= m.v
          BY <1>6
        <4>1. e.v <= world[o].v /\ e.v \in Nat
          BY <2>1, SeqFacts DEF StreamFits, Messages
        <4> QED
          BY <1>3, <1>6, <4>1
      <3>3. Behind(m.obj, m.v)' /\ m.v <= world'[m.obj].v /\ KindOf[m.obj] = j
        <4>1. Behind(o, world[o].v)
          BY DEF IInv, CacheFits
        <4>2. Behind(o, m.v)
          BY <1>3, <1>6, <4>1, BehindGrows DEF IInv
        <4>3. m.v \in Nat /\ m.obj \in Objs
          BY <1>6 DEF Messages
        <4>4. Behind(m.obj, m.v)'
          BY <1>6, <1>7, <4>2, <4>3
        <4>5. m.v = world'[m.obj].v
          BY <1>0, <1>4, <1>6
        <4>6. KindOf[m.obj] = j
          BY <1>6, <2>3 DEF k
        <4> QED
          BY <4>3, <4>4, <4>5, <4>6
      <3>4. InOrder(stream'[j])
        BY <1>6, <2>1, <3>1, <3>2, AppendFacts DEF StreamFits
      <3>5. ASSUME NEW x \in Objs, Mentions(stream'[j], x)
            PROVE  Says(stream'[j], x, world'[x])
        BY <1>4, <1>6, <2>1, <3>1, <3>5, AppendFacts DEF StreamFits
      <3>6. \A e \in Range(stream'[j]) :
              KindOf[e.obj] = j /\ Behind(e.obj, e.v)' /\ e.v <= world'[e.obj].v
        <4>1. Range(stream'[j]) = Range(stream[j]) \cup {m}
          BY <1>6, <2>1, <3>1, AppendFacts
        <4>2. \A e \in Range(stream[j]) : KindOf[e.obj] = j
          BY <2>1 DEF StreamFits
        <4> QED
          BY <2>2, <3>3, <4>1, <4>2
      <3>7. \A x \in Objs : Says(stream[j], x, world[x])' <=> Says(stream'[j], x, world'[x])
        OBVIOUS
      <3> QED
        BY <1>2, <1>9, <2>1, <2>3, <3>4, <3>5, <3>6, <3>7 DEF StreamFits
    <2>4. CASE ~ (j = k /\ pc[k] # "list")
      <3>1. stream'[j] = stream[j]
        BY <1>8, <2>4
      <3>2. ~ Mentions(stream[j], o)
        <4>1. CASE j = k
          BY <2>1, <2>4, <4>1, EmptyFacts DEF StreamFits
        <4>2. CASE j # k
          BY <2>1, <4>2 DEF StreamFits, Mentions, k
        <4> QED
          BY <4>1, <4>2
      <3>3. ASSUME NEW x \in Objs, Mentions(stream[j], x)
            PROVE  Says(stream'[j], x, world'[x])
        BY <1>4, <2>1, <3>1, <3>2, <3>3 DEF StreamFits
      <3>4. \A x \in Objs : Says(stream[j], x, world[x])' <=> Says(stream'[j], x, world'[x])
        OBVIOUS
      <3> QED
        BY <1>2, <2>1, <2>2, <3>1, <3>3, <3>4 DEF StreamFits
    <2> QED
      BY <2>3, <2>4
  <1>14. ASSUME NEW x \in Objs PROVE CacheFits(x)'
    <2>1. CacheFits(x) /\ KindOf[x] \in Kinds
      BY KindAssumption DEF IInv
    <2>2. Behind(x, world[x].v)'
      <3>1. Behind(x, world'[x].v)
        BY <1>11, <2>1, BehindGrows DEF IInv, CacheFits
      <3> QED
        BY <1>7, <1>11, <3>1
    <2>3. CASE x = o
      <3>1. ~ Quiet(x)'
        <4>1. pc[k] # "list" => Mentions(stream'[k], o)
          BY <1>3, <1>6, <1>8, AppendFacts
        <4> QED
          BY <1>2, <2>3, <4>1 DEF Quiet, k
      <3> QED
        BY <1>2, <2>1, <2>2, <3>1 DEF CacheFits
    <2>4. CASE x # o
      <3>1. Quiet(x)' => Quiet(x)
        BY <1>2, <1>6, <1>8, <2>1, <2>4, AppendFacts DEF Quiet
      <3> QED
        BY <1>2, <1>4, <2>1, <2>2, <2>4, <3>1 DEF CacheFits
    <2> QED
      BY <2>3, <2>4
  <1> QED
    BY <1>7, <1>10, <1>12, <1>13, <1>14 DEF IInv

\* The watchers do not notice what the clients do, as long as these get nothing new.
LEMMA WatchersStay ==
    ASSUME IInv, UNCHANGED <<world, watchers, cache>>, faults' = faults \/ faults' # 0,
           \A o \in Objs, v \in Nat : Behind(o, v) => Behind(o, v)'
    PROVE  /\ \A k \in Kinds : ItemsFit(k)' /\ StreamFits(k)'
           /\ \A o \in Objs : CacheFits(o)'
  <1>1. UNCHANGED <<pc, items, stream, world, cache>>
    BY DEF watchers
  <1>2. ASSUME NEW k \in Kinds PROVE ItemsFit(k)' /\ StreamFits(k)'
    <2>1. /\ ItemsFit(k) /\ StreamFits(k) /\ items[k] \subseteq Messages
          /\ stream[k] \in Seq(Messages)
      BY DEF IInv, TypeOK
    <2>2. ASSUME NEW m \in Messages, Behind(m.obj, m.v) PROVE Behind(m.obj, m.v)'
      BY <2>2 DEF Messages
    <2>3. ItemsFit(k)'
      BY <1>1, <2>1, <2>2 DEF ItemsFit
    <2>4. ASSUME NEW e \in Range(stream[k]) PROVE Behind(e.obj, e.v)'
      BY <2>1, <2>2, SeqFacts DEF StreamFits
    <2>5. \A o \in Objs : Says(stream[k], o, world[o])' <=> Says(stream[k], o, world[o])
      BY <1>1
    <2>6. StreamFits(k)'
      BY <1>1, <2>1, <2>4, <2>5 DEF StreamFits
    <2> QED
      BY <2>3, <2>6
  <1>3. ASSUME NEW o \in Objs PROVE CacheFits(o)'
    <2>1. CacheFits(o) /\ world[o].v \in Nat
      BY DEF IInv, TypeOK, Statuses
    <2>2. Behind(o, world[o].v)'
      BY <1>1, <2>1 DEF CacheFits
    <2>3. Quiet(o)' <=> Quiet(o)
      BY <1>1 DEF Quiet
    <2> QED
      BY <1>1, <2>1, <2>2, <2>3 DEF CacheFits
  <1> QED
    BY <1>2, <1>3

\* A client that is not concerned.
LEMMA OtherClients ==
    ASSUME IInv, NEW d \in Clients, UNCHANGED cache,
           d \in clients' <=> d \in clients, d \in missed' <=> d \in missed,
           queue'[d] = queue[d], shown'[d] = shown[d]
    PROVE  ClientFits(d)'
  <1>1. ClientFits(d)
    BY DEF IInv
  <1>2. \A o, s : Knows(d, o, s)' <=> Knows(d, o, s)
    BY DEF Knows
  <1>3. \A o \in Objs : Knows(d, o, cache[o])' <=> Knows(d, o, cache[o])
    BY DEF Knows
  <1> QED
    BY <1>1, <1>2, <1>3 DEF ClientFits

\* The snapshot has each cached status once.
LEMMA SnapshotFacts ==
    ASSUME TypeOK
    PROVE  /\ Snapshot \subseteq Messages /\ IsFiniteSet(Snapshot)
           /\ \A m \in Snapshot : m.obj \in Objs /\ Status(m) = cache[m.obj] /\ m.v = cache[m.obj].v
           /\ \A m, l \in Snapshot : m.obj = l.obj => m = l
           /\ \A o \in Objs : cache[o] # Absent => Message(o, cache[o]) \in Snapshot
  <1> DEFINE cached == {p \in Objs : cache[p] # Absent}
  <1>1. \A o \in Objs : cache[o] \in Statuses
    BY DEF TypeOK
  <1>2. Snapshot = {Message(o, cache[o]) : o \in cached}
    BY DEF Snapshot
  <1>3. ASSUME NEW m \in Snapshot
        PROVE  /\ m \in Messages /\ m.obj \in cached /\ m = Message(m.obj, cache[m.obj])
               /\ Status(m) = cache[m.obj] /\ m.v = cache[m.obj].v
    <2>1. PICK o \in cached : m = Message(o, cache[o])
      BY <1>2
    <2> QED
      BY <1>1, <2>1, StatusFacts
  <1>4. IsFiniteSet(Snapshot)
    <2>1. IsFiniteSet(cached)
      BY ObjsAssumption, FS_Subset
    <2> DEFINE f == [o \in cached |-> Message(o, cache[o])]
    <2>2. f \in Surjection(cached, Snapshot)
      BY <1>2 DEF Surjection
    <2> QED
      BY <2>1, <2>2, FS_Surjection
  <1>5. \A m, l \in Snapshot : m.obj = l.obj => m = l
    BY <1>3
  <1>6. \A o \in Objs : cache[o] # Absent => Message(o, cache[o]) \in Snapshot
    BY <1>2
  <1> QED
    BY <1>3, <1>4, <1>5, <1>6

\* A new client gets what is cached, once each; all of it, if its channel has room.
LEMMA SubscribeKeeps ==
    ASSUME IInv, NEW c \in Clients, Subscribe(c)
    PROVE  IInv'
  <1> DEFINE n == Cardinality(Snapshot)
             l == IF n < Capacity THEN n ELSE Capacity
  <1>1. PICK q \in Injection(1..l, Snapshot) : queue' = [queue EXCEPT ![c] = q]
    BY DEF Subscribe
  <1>2. /\ c \notin clients /\ clients' = clients \cup {c}
        /\ missed' = IF n > Capacity THEN missed \cup {c} ELSE missed
        /\ UNCHANGED <<world, watchers, stream, pc, items, cache, shown, changes, faults>>
    BY DEF Subscribe, watchers
  <1>3. TypeOK
    BY DEF IInv
  <1>4. n \in Nat /\ l \in 0..Capacity /\ (l = n \/ n > Capacity)
    BY <1>3, SnapshotFacts, FS_CardinalityType, CapacityAssumption
  <1> HIDE DEF n, l
  <1>5. /\ q \in [1..l -> Snapshot] /\ \A i, j \in 1..l : q[i] = q[j] => i = j
    BY <1>1 DEF Injection, IsInjective
  <1>6. DOMAIN q = 1..l /\ Range(q) \subseteq Snapshot /\ \A i \in DOMAIN q : q[i] \in Snapshot
    BY <1>5 DEF Range
  <1>7. q \in Seq(Messages) /\ Len(q) = l
    <2>1. q \in [1..l -> Messages]
      BY <1>3, <1>5, SnapshotFacts
    <2> QED
      BY <1>4, <2>1
  <1>8. /\ queue'[c] = q /\ \A d \in Clients \ {c} : queue'[d] = queue[d]
        /\ queue[c] = <<>> /\ shown[c] = [o \in Objs |-> Absent]
    BY <1>1, <1>2, <1>3 DEF IInv, TypeOK, ClientFits
  <1>9. TypeOK'
    <2>1. queue' \in [Clients -> Seq(Messages)] /\ \A d \in Clients : Len(queue'[d]) <= Capacity
      BY <1>1, <1>3, <1>4, <1>7, <1>8, CapacityAssumption DEF TypeOK
    <2>2. clients' \in SUBSET Clients /\ missed' \in SUBSET clients'
      BY <1>2, <1>3 DEF TypeOK
    <2> QED
      BY <1>2, <1>3, <2>1, <2>2 DEF TypeOK
  <1>10. ASSUME NEW o \in Objs, NEW v \in Nat, Behind(o, v) PROVE Behind(o, v)'
    <2>1. \A m \in Range(q) : m.obj = o => m.v <= v
      BY <1>3, <1>6, <1>10, SnapshotFacts DEF Behind
    <2> QED
      BY <1>2, <1>8, <1>10, <2>1 DEF Behind
  <1>11. ASSUME NEW d \in Clients PROVE ClientFits(d)'
    <2>1. CASE d # c
      <3>1. d \in clients' <=> d \in clients
        BY <1>2, <2>1
      <3>2. d \in missed' <=> d \in missed
        BY <1>2, <2>1
      <3> QED
        BY <1>2, <1>8, <2>1, <3>1, <3>2, OtherClients
    <2>2. CASE d = c
      <3>1. \A i, j \in DOMAIN q : q[i].obj = q[j].obj => i = j
        BY <1>3, <1>5, <1>6, SnapshotFacts
      <3>2. InOrder(q)
        BY <1>6, <3>1 DEF InOrder
      <3>3. \A m \in Range(q) : shown[c][m.obj].v <= m.v
        <4> SUFFICES ASSUME NEW m \in Range(q) PROVE shown[c][m.obj].v <= m.v
          OBVIOUS
        <4>1. m.obj \in Objs /\ m.v \in Nat
          BY <1>3, <1>6, SnapshotFacts DEF Messages
        <4> QED
          BY <1>8, <4>1, StatusFacts
      <3>4. ASSUME NEW o \in Objs, NEW i \in DOMAIN q, q[i].obj = o
            PROVE  Says(q, o, Status(q[i])) /\ Status(q[i]) = cache[o]
        <4>1. Status(q[i]) = cache[o]
          BY <1>3, <1>6, <3>4, SnapshotFacts
        <4>2. \A j \in DOMAIN q : j > i => q[j].obj # o
          BY <1>6, <3>1, <3>4
        <4> QED
          BY <3>4, <4>1, <4>2 DEF Says
      <3>5. ASSUME c \notin missed', NEW o \in Objs, cache[o] # Absent
            PROVE  Knows(c, o, cache[o])'
        <4>1. Cardinality(1..l) = l /\ IsFiniteSet(1..l)
          BY <1>4, FS_Interval
        <4>2. q \in Surjection(1..l, Snapshot)
          <5>1. Cardinality(1..l) = Cardinality(Snapshot)
            BY <1>2, <1>4, <3>5, <4>1 DEF n
          <5> QED
            BY <1>1, <1>3, <5>1, SnapshotFacts, FS_Injection
        <4>3. PICK i \in 1..l : q[i] = Message(o, cache[o])
          BY <1>3, <3>5, <4>2, SnapshotFacts DEF Surjection
        <4>4. q[i].obj = o
          BY <1>3, <4>3, StatusFacts DEF TypeOK
        <4>5. Says(q, o, cache[o])
          BY <1>6, <3>4, <4>4
        <4> QED
          BY <1>2, <1>8, <4>5 DEF Knows
      <3>6. ASSUME NEW o \in Objs, NEW s \in Statuses, Knows(c, o, s)', s.up
            PROVE  cache[o] = s
        <4>1. Says(q, o, s) \/ shown[c][o] = s
          BY <1>2, <1>8, <3>6 DEF Knows
        <4>2. Says(q, o, s)
          BY <1>8, <3>6, <4>1, StatusFacts
        <4> QED
          BY <3>4, <4>2 DEF Says
      <3> QED
        BY <1>2, <1>8, <2>2, <3>2, <3>3, <3>5, <3>6 DEF ClientFits
    <2> QED
      BY <2>1, <2>2
  <1> QED
    BY <1>2, <1>9, <1>10, <1>11, WatchersStay DEF IInv

\* What a client receives it knew already.
LEMMA ReceiveKeeps ==
    ASSUME IInv, NEW c \in Clients, Receive(c)
    PROVE  IInv'
  <1>1. /\ queue[c] # <<>> /\ queue' = [queue EXCEPT ![c] = Tail(@)]
        /\ shown' = [shown EXCEPT ![c][Head(queue[c]).obj] = Status(Head(queue[c]))]
        /\ UNCHANGED <<world, watchers, stream, pc, items, cache, clients, missed, changes,
                       faults>>
    BY DEF Receive, watchers
  <1>2. TypeOK /\ queue[c] \in Seq(Messages) /\ ClientFits(c)
    BY DEF IInv, TypeOK
  <1>3. PICK m \in Messages : m = Head(queue[c])
    BY <1>1, <1>2, TailFacts
  <1>4. PICK t \in Seq(Messages) : t = Tail(queue[c])
    BY <1>1, <1>2, TailFacts
  <1>5. /\ Len(t) = Len(queue[c]) - 1 /\ m \in Range(queue[c])
        /\ Range(queue[c]) = Range(t) \cup {m}
        /\ \A o : Mentions(queue[c], o) <=> o = m.obj \/ Mentions(t, o)
        /\ \A o, s : Says(queue[c], o, s) <=>
              Says(t, o, s) \/ (o = m.obj /\ s = Status(m) /\ ~ Mentions(t, o))
        /\ InOrder(t) /\ \A e \in Range(t) : e.obj = m.obj => m.v <= e.v
    BY <1>1, <1>2, <1>3, <1>4, TailFacts DEF ClientFits
  <1>6. /\ m.obj \in Objs /\ Status(m) \in Statuses /\ Status(m).v = m.v
        /\ shown[c] \in [Objs -> Statuses]
    BY <1>2, <1>3, StatusFacts DEF TypeOK, Messages
  <1>7. /\ queue'[c] = t /\ \A d \in Clients \ {c} : queue'[d] = queue[d]
        /\ shown' = [shown EXCEPT ![c] = [shown[c] EXCEPT ![m.obj] = Status(m)]]
    BY <1>1, <1>2, <1>3, <1>4 DEF TypeOK
  <1>8. /\ shown'[c] = [shown[c] EXCEPT ![m.obj] = Status(m)]
        /\ \A d \in Clients \ {c} : shown'[d] = shown[d]
    BY <1>2, <1>7 DEF TypeOK
  <1>9. /\ shown'[c][m.obj] = Status(m)
        /\ \A o \in Objs \ {m.obj} : shown'[c][o] = shown[c][o]
    BY <1>6, <1>8
  <1>10. TypeOK'
    <2>1. queue' \in [Clients -> Seq(Messages)]
      BY <1>1, <1>2, <1>4 DEF TypeOK
    <2>2. ASSUME NEW d \in Clients PROVE Len(queue'[d]) <= Capacity
      <3>1. Len(queue[c]) \in Nat /\ Len(queue[c]) <= Capacity
        BY <1>2, SeqFacts DEF TypeOK
      <3> QED
        BY <1>2, <1>5, <1>7, <3>1, CapacityAssumption DEF TypeOK
    <2>3. shown' \in [Clients -> [Objs -> Statuses]]
      BY <1>2, <1>6, <1>7 DEF TypeOK
    <2> QED
      BY <1>1, <1>2, <2>1, <2>2, <2>3 DEF TypeOK
  <1>11. ASSUME NEW o \in Objs, NEW v \in Nat, Behind(o, v) PROVE Behind(o, v)'
    <2>1. shown'[c][o].v <= v /\ \A e \in Range(queue'[c]) : e.obj = o => e.v <= v
      BY <1>5, <1>6, <1>7, <1>9, <1>11 DEF Behind
    <2> QED
      BY <1>1, <1>7, <1>8, <1>11, <2>1 DEF Behind
  <1>12. ASSUME NEW d \in Clients PROVE ClientFits(d)'
    <2>1. CASE d # c
      BY <1>1, <1>7, <1>8, <2>1, OtherClients
    <2>2. CASE d = c
      <3>1. c \in clients'
        BY <1>1, <1>2 DEF ClientFits
      <3>2. ASSUME NEW e \in Range(t) PROVE shown'[c][e.obj].v <= e.v
        <4>1. e.obj \in Objs /\ shown[c][e.obj].v <= e.v
          BY <1>2, <1>5, SeqFacts DEF ClientFits, Messages
        <4> QED
          BY <1>5, <1>6, <1>9, <4>1
      <3>3. ASSUME NEW o \in Objs, NEW s PROVE Knows(c, o, s)' <=> Knows(c, o, s)
        BY <1>5, <1>7, <1>9 DEF Knows
      <3>4. ASSUME NEW o \in Objs PROVE Knows(c, o, cache[o])' <=> Knows(c, o, cache[o])
        BY <1>1, <1>5, <1>7, <1>9 DEF Knows
      <3> QED
        BY <1>1, <1>2, <1>5, <1>7, <2>2, <3>1, <3>2, <3>3, <3>4 DEF ClientFits
    <2> QED
      BY <2>1, <2>2
  <1> QED
    BY <1>1, <1>10, <1>11, <1>12, WatchersStay DEF IInv

\* A client that goes takes its channel with it.
LEMMA LeaveKeeps ==
    ASSUME IInv, NEW c \in Clients, Leave(c)
    PROVE  IInv'
  <1>1. /\ clients' = clients \ {c} /\ missed' = missed \ {c}
        /\ queue' = [queue EXCEPT ![c] = <<>>]
        /\ shown' = [shown EXCEPT ![c] = [o \in Objs |-> Absent]]
        /\ UNCHANGED <<world, watchers, stream, pc, items, cache, changes, faults>>
    BY DEF Leave, watchers
  <1>2. TypeOK /\ <<>> \in Seq(Messages) /\ Len(<<>>) = 0
    BY EmptySeq DEF IInv
  <1>3. /\ queue'[c] = <<>> /\ shown'[c] = [o \in Objs |-> Absent]
        /\ \A d \in Clients \ {c} : queue'[d] = queue[d] /\ shown'[d] = shown[d]
    BY <1>1, <1>2 DEF TypeOK
  <1>4. TypeOK'
    <2>1. queue' \in [Clients -> Seq(Messages)] /\ shown' \in [Clients -> [Objs -> Statuses]]
      BY <1>1, <1>2, StatusFacts DEF TypeOK
    <2>2. \A d \in Clients : Len(queue'[d]) <= Capacity
      BY <1>2, <1>3, CapacityAssumption DEF TypeOK
    <2> QED
      BY <1>1, <1>2, <2>1, <2>2 DEF TypeOK
  <1>5. ASSUME NEW o \in Objs, NEW v \in Nat, Behind(o, v) PROVE Behind(o, v)'
    <2>1. shown'[c][o].v <= v /\ Range(queue'[c]) = {}
      BY <1>3, StatusFacts, EmptyFacts
    <2> QED
      BY <1>1, <1>3, <1>5, <2>1 DEF Behind
  <1>6. ASSUME NEW d \in Clients PROVE ClientFits(d)'
    <2>1. CASE d # c
      <3>1. d \in clients' <=> d \in clients
        BY <1>1, <2>1
      <3>2. d \in missed' <=> d \in missed
        BY <1>1, <2>1
      <3> QED
        BY <1>1, <1>3, <2>1, <3>1, <3>2, OtherClients
    <2>2. CASE d = c
      BY <1>1, <1>3, <2>2, EmptyFacts DEF ClientFits
    <2> QED
      BY <2>1, <2>2
  <1> QED
    BY <1>1, <1>4, <1>5, <1>6, WatchersStay DEF IInv

\* A step of one kind's goroutine: what has to be shown of that kind is enough.
LEMMA KindSteps ==
    ASSUME IInv, NEW k \in Kinds, UNCHANGED world, TypeOK',
           \A j \in Kinds \ {k} : /\ pc'[j] = pc[j] /\ items'[j] = items[j]
                                  /\ stream'[j] = stream[j],
           \A o \in Objs, v \in Nat : KindOf[o] # k /\ Behind(o, v) => Behind(o, v)',
           \A o \in Objs : KindOf[o] # k => cache'[o] = cache[o],
           faults' = faults \/ faults' # 0,
           ItemsFit(k)', StreamFits(k)',
           \A o \in Objs : KindOf[o] = k => CacheFits(o)',
           \A c \in Clients : ClientFits(c)'
    PROVE  IInv'
  <1>1. ASSUME NEW j \in Kinds \ {k}
        PROVE  /\ ItemsFit(j)' /\ StreamFits(j)'
               /\ \A o \in Objs : KindOf[o] = j => CacheFits(o)'
    <2>1. \A o \in Objs, v \in Nat : KindOf[o] = j /\ Behind(o, v) => Behind(o, v)'
      OBVIOUS
    <2>2. \A o \in Objs : KindOf[o] = j => cache'[o] = cache[o]
      OBVIOUS
    <2> QED
      BY <2>1, <2>2, OtherKinds
  <1>2. \A o \in Objs : KindOf[o] \in Kinds
    BY KindAssumption
  <1>3. \A o \in Objs : CacheFits(o)'
    BY <1>1, <1>2
  <1> QED
    BY <1>1, <1>3 DEF IInv

\* What is listed is current.
LEMMA ListKeeps ==
    ASSUME IInv, NEW k \in Kinds, List(k)
    PROVE  IInv'
  <1>1. /\ pc[k] = "list" /\ pc' = [pc EXCEPT ![k] = "seed"]
        /\ items' = [items EXCEPT ![k] =
             {Message(o, world[o]) : o \in {p \in OfKind(k) : world[p].up}}]
        /\ UNCHANGED <<world, stream, cache, served, clients, queue, shown, missed, changes,
                       faults>>
    BY DEF List, Goto, served
  <1>2. TypeOK /\ StreamFits(k)
    BY DEF IInv
  <1>3. /\ pc'[k] = "seed"
        /\ \A j \in Kinds \ {k} : pc'[j] = pc[j] /\ items'[j] = items[j] /\ stream'[j] = stream[j]
        /\ items'[k] = {Message(o, world[o]) : o \in {p \in OfKind(k) : world[p].up}}
    BY <1>1, <1>2 DEF TypeOK
  <1>4. ASSUME NEW m \in items'[k]
        PROVE  /\ m \in Messages /\ m.obj \in Objs /\ KindOf[m.obj] = k
               /\ m = Message(m.obj, world[m.obj])
               /\ m.up /\ m.v = world[m.obj].v /\ Status(m) = world[m.obj]
    <2>1. PICK o \in Objs : KindOf[o] = k /\ world[o].up /\ m = Message(o, world[o])
      BY <1>3 DEF OfKind
    <2>2. world[o] \in Statuses
      BY <1>2 DEF TypeOK
    <2> QED
      BY <2>1, <2>2, StatusFacts
  <1>5. TypeOK'
    <2>1. items' \in [Kinds -> SUBSET Messages]
      BY <1>1, <1>2, <1>3, <1>4 DEF TypeOK
    <2> QED
      BY <1>1, <1>2, <1>3, <2>1 DEF TypeOK
  <1>6. /\ \A o \in Objs, v \in Nat : Behind(o, v)' <=> Behind(o, v)
        /\ \A c \in Clients : ClientFits(c)'
    BY <1>1, ServedStay
  <1>7. \A o \in Objs : Behind(o, world[o].v)' /\ world[o].v \in Nat
    <2> SUFFICES ASSUME NEW o \in Objs PROVE Behind(o, world[o].v)' /\ world[o].v \in Nat
      OBVIOUS
    <2>1. Behind(o, world[o].v) /\ world[o].v \in Nat
      BY <1>2 DEF IInv, CacheFits, TypeOK, Statuses
    <2> QED
      BY <1>1, <1>6, <2>1
  <1>8. stream'[k] = <<>>
    BY <1>1, <1>2 DEF StreamFits
  <1>9. ItemsFit(k)'
    <2>1. ASSUME NEW m \in items'[k] PROVE Behind(m.obj, m.v)' /\ m.v <= world'[m.obj].v
      <3>1. Behind(m.obj, world[m.obj].v)' /\ m.obj \in Objs /\ m.v = world[m.obj].v
        BY <1>4, <1>7
      <3>2. world[m.obj].v \in Nat
        BY <1>7, <3>1
      <3> QED
        BY <1>1, <1>6, <3>1, <3>2
    <2>2. \A e \in Range(stream'[k]) : FALSE
      BY <1>8, EmptyFacts
    <2>3. \A m, l \in items'[k] : l.obj = m.obj => l = m
      BY <1>4
    <2> QED
      BY <1>1, <1>3, <1>4, <2>1, <2>2, <2>3 DEF ItemsFit
  <1>10. StreamFits(k)'
    BY <1>3, <1>8, EmptyFacts DEF StreamFits
  <1>11. ASSUME NEW o \in Objs, KindOf[o] = k PROVE CacheFits(o)'
    <2>1. Quiet(o)' => ~ world[o].up
      <3>1. world[o].up => Message(o, world[o]) \in items'[k]
        BY <1>3, <1>11 DEF OfKind
      <3>2. Message(o, world[o]).obj = o
        BY <1>2, StatusFacts DEF TypeOK
      <3> QED
        BY <1>11, <3>1, <3>2 DEF Quiet
    <2>2. faults = 0 => cache[o] = Absent
      BY <1>1, <1>11 DEF IInv, CacheFits
    <2> QED
      BY <1>1, <1>3, <1>7, <1>11, <2>1, <2>2, StatusFacts DEF CacheFits
  <1> QED
    BY <1>1, <1>3, <1>5, <1>6, <1>9, <1>10, <1>11, KindSteps

\* A failure leaves things as they are, but that a gap may have come.
LEMMA ListFailsKeeps ==
    ASSUME IInv, NEW k \in Kinds, ListFails(k)
    PROVE  IInv'
  <1>1. /\ faults' = faults + 1 /\ faults \in Nat
        /\ UNCHANGED <<world, watchers, cache, served, changes>>
    BY DEF ListFails, Fault, IInv, TypeOK
  <1>2. TypeOK'
    BY <1>1 DEF IInv, TypeOK, watchers, served
  <1>3. faults' # 0
    BY <1>1
  <1> QED
    BY <1>1, <1>2, <1>3, ServedStay, WatchersStay DEF IInv

\* A listed status is published; if it is not current any more, the watch has the rest.
LEMMA SeedKeeps ==
    ASSUME IInv, NEW k \in Kinds, NEW m \in items[k], Seed(k, m)
    PROVE  IInv'
  <1>1. /\ items' = [items EXCEPT ![k] = @ \ {m}] /\ Publish(m)
        /\ UNCHANGED <<world, stream, pc, changes, faults>>
    BY DEF Seed
  <1>2. TypeOK /\ ItemsFit(k) /\ StreamFits(k) /\ m \in Messages
    BY DEF IInv, TypeOK
  <1>3. /\ pc[k] = "seed" /\ KindOf[m.obj] = k /\ Behind(m.obj, m.v)
        /\ m.obj \in Objs /\ m.v \in Nat /\ m.v <= world[m.obj].v
        /\ \A e \in Range(stream[k]) : e.obj = m.obj => m.v <= e.v
        /\ Mentions(stream[k], m.obj) \/ Status(m) = world[m.obj]
        /\ \A l \in items[k] : l.obj = m.obj => l = m
    BY <1>2 DEF ItemsFit, Messages
  <1>4. /\ cache' \in [Objs -> Statuses] /\ cache'[m.obj] = Status(m)
        /\ \A o \in Objs \ {m.obj} : cache'[o] = cache[o]
        /\ queue' \in [Clients -> Seq(Messages)] /\ \A c \in Clients : Len(queue'[c]) <= Capacity
        /\ missed' \in SUBSET clients /\ UNCHANGED <<clients, shown>>
        /\ \A o \in Objs, v \in Nat : Behind(o, v) /\ (o = m.obj => m.v <= v) => Behind(o, v)'
        /\ \A c \in Clients : ClientFits(c)'
    BY <1>1, <1>2, <1>3, PublishFacts
  <1>5. /\ items'[k] = items[k] \ {m}
        /\ \A j \in Kinds \ {k} : pc'[j] = pc[j] /\ items'[j] = items[j] /\ stream'[j] = stream[j]
    BY <1>1, <1>2 DEF TypeOK
  <1>6. TypeOK'
    BY <1>1, <1>2, <1>4 DEF TypeOK
  <1>7. ItemsFit(k)'
    <2>1. ASSUME NEW l \in items'[k] PROVE Behind(l.obj, l.v)' /\ l \in items[k]
      <3>1. l \in items[k] /\ l # m /\ l \in Messages
        BY <1>2, <1>5 DEF TypeOK
      <3>2. Behind(l.obj, l.v) /\ l.obj # m.obj /\ l.obj \in Objs /\ l.v \in Nat
        BY <1>2, <1>3, <3>1 DEF ItemsFit, Messages
      <3> QED
        BY <1>4, <3>1, <3>2
    <2> QED
      BY <1>1, <1>2, <1>3, <2>1 DEF ItemsFit
  <1>8. StreamFits(k)'
    <2>1. ASSUME NEW e \in Range(stream[k]) PROVE Behind(e.obj, e.v)'
      <3>1. e.obj \in Objs /\ e.v \in Nat /\ Behind(e.obj, e.v)
        BY <1>2, SeqFacts DEF StreamFits, TypeOK, Messages
      <3> QED
        BY <1>3, <1>4, <3>1
    <2>2. \A o \in Objs : Says(stream[k], o, world[o])' <=> Says(stream[k], o, world[o])
      BY <1>1
    <2> QED
      BY <1>1, <1>2, <1>3, <2>1, <2>2 DEF StreamFits
  <1>9. ASSUME NEW o \in Objs, KindOf[o] = k PROVE CacheFits(o)'
    <2>1. CacheFits(o) /\ world[o].v \in Nat
      BY <1>2 DEF IInv, TypeOK, Statuses
    <2>2. Behind(o, world[o].v)'
      BY <1>1, <1>3, <1>4, <2>1 DEF CacheFits
    <2>3. CASE o = m.obj
      BY <1>1, <1>3, <1>4, <1>9, <2>2, <2>3 DEF CacheFits, Quiet
    <2>4. CASE o # m.obj
      <3>1. Quiet(o)' => Quiet(o)
        BY <1>1, <1>5, <1>9, <2>4 DEF Quiet
      <3> QED
        BY <1>1, <1>3, <1>4, <1>9, <2>1, <2>2, <2>4, <3>1 DEF CacheFits
    <2> QED
      BY <2>3, <2>4
  <1>10. /\ UNCHANGED world
         /\ faults' = faults \/ faults' # 0
         /\ \A o \in Objs : KindOf[o] # k => cache'[o] = cache[o]
    BY <1>1, <1>3, <1>4
  <1>11. \A o \in Objs, v \in Nat : KindOf[o] # k /\ Behind(o, v) => Behind(o, v)'
    BY <1>3, <1>4
  <1>12. \A o \in Objs : KindOf[o] = k => CacheFits(o)'
    BY <1>9
  <1>13. \A c \in Clients : ClientFits(c)'
    BY <1>4
  <1> QED
    BY <1>5, <1>6, <1>7, <1>8, <1>10, <1>11, <1>12, <1>13, KindSteps

\* The watch begins where the list ends.
LEMMA WatchKeeps ==
    ASSUME IInv, NEW k \in Kinds, Watch(k)
    PROVE  IInv'
  <1>1. /\ pc[k] = "seed" /\ items[k] = {} /\ pc' = [pc EXCEPT ![k] = "watch"]
        /\ UNCHANGED <<world, stream, items, cache, served, clients, queue, shown, missed,
                       changes, faults>>
    BY DEF Watch, Goto, served
  <1>2. TypeOK /\ ItemsFit(k) /\ StreamFits(k)
    BY DEF IInv
  <1>3. /\ pc'[k] = "watch"
        /\ \A j \in Kinds \ {k} : pc'[j] = pc[j] /\ items'[j] = items[j] /\ stream'[j] = stream[j]
    BY <1>1, <1>2 DEF TypeOK
  <1>4. TypeOK'
    BY <1>1, <1>2, <1>3 DEF TypeOK
  <1>5. /\ \A o \in Objs, v \in Nat : Behind(o, v)' <=> Behind(o, v)
        /\ \A c \in Clients : ClientFits(c)'
    BY <1>1, ServedStay
  <1>6. ItemsFit(k)'
    BY <1>1 DEF ItemsFit
  <1>7. StreamFits(k)'
    <2>1. ASSUME NEW e \in Range(stream[k]) PROVE Behind(e.obj, e.v)'
      <3>1. e.obj \in Objs /\ e.v \in Nat /\ Behind(e.obj, e.v)
        BY <1>2, SeqFacts DEF StreamFits, TypeOK, Messages
      <3> QED
        BY <1>5, <3>1
    <2>2. \A o \in Objs : Says(stream[k], o, world[o])' <=> Says(stream[k], o, world[o])
      BY <1>1
    <2> QED
      BY <1>1, <1>2, <1>3, <2>1, <2>2 DEF StreamFits
  <1>8. ASSUME NEW o \in Objs, KindOf[o] = k PROVE CacheFits(o)'
    <2>1. CacheFits(o) /\ world[o].v \in Nat
      BY <1>2 DEF IInv, TypeOK, Statuses
    <2>2. Behind(o, world[o].v)'
      BY <1>1, <1>5, <2>1 DEF CacheFits
    <2>3. Quiet(o)' => Quiet(o)
      BY <1>1, <1>8 DEF Quiet
    <2> QED
      BY <1>1, <1>3, <1>8, <2>1, <2>2, <2>3 DEF CacheFits
  <1> QED
    BY <1>1, <1>3, <1>4, <1>5, <1>6, <1>7, <1>8, KindSteps

\* A watch that ends leaves nothing to publish.
LEMMA WatchEndsKeeps ==
    ASSUME IInv, NEW k \in Kinds, WatchEnds(k)
    PROVE  IInv'
  <1>1. /\ pc[k] \in {"seed", "watch"} /\ (pc[k] = "seed" => items[k] = {})
        /\ stream' = [stream EXCEPT ![k] = <<>>] /\ pc' = [pc EXCEPT ![k] = "list"]
        /\ faults' = faults + 1
        /\ UNCHANGED <<world, items, cache, served, clients, queue, shown, missed, changes>>
    BY DEF WatchEnds, Goto, Fault, served
  <1>2. TypeOK /\ ItemsFit(k) /\ <<>> \in Seq(Messages)
    BY EmptySeq DEF IInv
  <1>3. /\ pc'[k] = "list" /\ stream'[k] = <<>> /\ items'[k] = {}
        /\ \A j \in Kinds \ {k} : pc'[j] = pc[j] /\ items'[j] = items[j] /\ stream'[j] = stream[j]
    BY <1>1, <1>2 DEF TypeOK, ItemsFit
  <1>4. faults' \in Nat \ {0}
    BY <1>1, <1>2 DEF TypeOK
  <1>5. TypeOK'
    <2>1. stream' \in [Kinds -> Seq(Messages)]
      BY <1>1, <1>2 DEF TypeOK
    <2> QED
      BY <1>1, <1>2, <1>3, <1>4, <2>1 DEF TypeOK
  <1>6. /\ \A o \in Objs, v \in Nat : Behind(o, v)' <=> Behind(o, v)
        /\ \A c \in Clients : ClientFits(c)'
    BY <1>1, ServedStay
  <1>7. ItemsFit(k)' /\ StreamFits(k)'
    BY <1>3, EmptyFacts DEF ItemsFit, StreamFits
  <1>8. ASSUME NEW o \in Objs, KindOf[o] = k PROVE CacheFits(o)'
    <2>1. Behind(o, world[o].v) /\ world[o].v \in Nat
      BY <1>2 DEF IInv, CacheFits, TypeOK, Statuses
    <2>2. ~ Quiet(o)' /\ Behind(o, world[o].v)'
      BY <1>1, <1>3, <1>6, <1>8, <2>1 DEF Quiet
    <2> QED
      BY <1>4, <2>2 DEF CacheFits
  <1>9. /\ faults' = faults \/ faults' # 0
        /\ UNCHANGED world
        /\ \A o \in Objs : KindOf[o] # k => cache'[o] = cache[o]
        /\ \A o \in Objs, v \in Nat : KindOf[o] # k /\ Behind(o, v) => Behind(o, v)'
    BY <1>1, <1>4, <1>6
  <1> QED
    BY <1>3, <1>5, <1>6, <1>7, <1>8, <1>9, KindSteps

\* Without its first event, m, the watch has what it had, and of m's object nothing only if
\* m says how things stand.
LEMMA EventFacts ==
    ASSUME IInv, NEW k \in Kinds, pc[k] \in {"watch", "evict"}, stream[k] # <<>>,
           NEW m, m = Head(stream[k])
    PROVE  /\ m \in Messages /\ m.obj \in Objs /\ m.v \in Nat /\ KindOf[m.obj] = k
           /\ items[k] = {}
           /\ Behind(m.obj, m.v) /\ m.v <= world[m.obj].v
           /\ Tail(stream[k]) \in Seq(Messages)
           /\ InOrder(Tail(stream[k]))
           /\ \A e \in Range(stream[k]) : /\ e.obj \in Objs /\ e.v \in Nat /\ KindOf[e.obj] = k
                                          /\ Behind(e.obj, e.v) /\ e.v <= world[e.obj].v
                                          /\ e.obj = m.obj => m.v <= e.v
           /\ Range(Tail(stream[k])) \subseteq Range(stream[k])
           /\ \A o \in Objs : Mentions(Tail(stream[k]), o) => Says(Tail(stream[k]), o, world[o])
           /\ \A o \in Objs : Mentions(stream[k], o) => o = m.obj \/ Mentions(Tail(stream[k]), o)
           /\ Mentions(stream[k], m.obj)
           /\ ~ Mentions(Tail(stream[k]), m.obj) => Status(m) = world[m.obj]
  <1> DEFINE q == stream[k]
             t == Tail(stream[k])
  <1>1. q \in Seq(Messages) /\ StreamFits(k) /\ ItemsFit(k)
    BY DEF IInv, TypeOK
  <1>2. /\ m \in Messages /\ m \in Range(q) /\ t \in Seq(Messages)
        /\ Range(q) = Range(t) \cup {m}
        /\ \A o : Mentions(q, o) <=> o = m.obj \/ Mentions(t, o)
        /\ \A o, s : Says(q, o, s) <=>
              Says(t, o, s) \/ (o = m.obj /\ s = Status(m) /\ ~ Mentions(t, o))
        /\ InOrder(t) /\ \A e \in Range(t) : e.obj = m.obj => m.v <= e.v
    BY <1>1, TailFacts DEF StreamFits
  <1>3. \A e \in Range(q) : /\ e.obj \in Objs /\ e.v \in Nat /\ KindOf[e.obj] = k
                            /\ Behind(e.obj, e.v) /\ e.v <= world[e.obj].v
    BY <1>1, SeqFacts DEF StreamFits, Messages
  <1>4. \A e \in Range(q) : e.obj = m.obj => m.v <= e.v
    BY <1>2, <1>3
  <1>5. ASSUME NEW o \in Objs, Mentions(t, o) PROVE Says(t, o, world[o])
    <2>1. Says(q, o, world[o])
      BY <1>1, <1>2, <1>5 DEF StreamFits
    <2> QED
      BY <1>2, <1>5, <2>1
  <1>6. ASSUME ~ Mentions(t, m.obj) PROVE Status(m) = world[m.obj]
    <2>1. Says(q, m.obj, world[m.obj])
      BY <1>1, <1>2, <1>3 DEF StreamFits
    <2>2. ~ Says(t, m.obj, world[m.obj])
      BY <1>2, <1>6, SaysMentions
    <2> QED
      BY <1>2, <2>1, <2>2
  <1>7. items[k] = {}
    BY <1>1 DEF ItemsFit
  <1> QED
    BY <1>2, <1>3, <1>4, <1>5, <1>6, <1>7

\* The goroutine is done with its first event: what is left fits, if what became of the
\* event's object in the cache follows from the event.
LEMMA NextEvent ==
    ASSUME IInv, NEW k \in Kinds, pc[k] \in {"watch", "evict"}, stream[k] # <<>>,
           NEW m, m = Head(stream[k]), TypeOK',
           UNCHANGED <<world, items, faults>>,
           stream' = [stream EXCEPT ![k] = Tail(@)],
           pc'[k] = "watch", \A j \in Kinds \ {k} : pc'[j] = pc[j],
           \A o \in Objs, v \in Nat :
                Behind(o, v) /\ (o = m.obj => m.v <= v) => Behind(o, v)',
           \A o \in Objs \ {m.obj} : cache'[o] = cache[o],
           m.up => cache'[m.obj] = Status(m), ~ m.up => ~ cache'[m.obj].up,
           \A c \in Clients : ClientFits(c)'
    PROVE  IInv'
  <1> DEFINE q == stream[k]
  <1>1. PICK t : t = Tail(stream[k])
    OBVIOUS
  <1>2. /\ m \in Messages /\ m.obj \in Objs /\ m.v \in Nat /\ KindOf[m.obj] = k
        /\ items[k] = {} /\ m.v <= world[m.obj].v
        /\ InOrder(t)
        /\ \A e \in Range(t) : /\ e.obj \in Objs /\ e.v \in Nat /\ KindOf[e.obj] = k
                               /\ Behind(e.obj, e.v) /\ e.v <= world[e.obj].v
                               /\ e.obj = m.obj => m.v <= e.v
        /\ \A o \in Objs : Mentions(t, o) => Says(t, o, world[o])
        /\ \A o \in Objs : Mentions(q, o) => o = m.obj \/ Mentions(t, o)
        /\ ~ Mentions(t, m.obj) => Status(m) = world[m.obj]
    <2>1. /\ m \in Messages /\ m.obj \in Objs /\ m.v \in Nat /\ KindOf[m.obj] = k
          /\ items[k] = {} /\ m.v <= world[m.obj].v
      BY EventFacts
    <2>2. /\ InOrder(Tail(stream[k]))
          /\ ~ Mentions(Tail(stream[k]), m.obj) => Status(m) = world[m.obj]
      BY EventFacts
    <2>3. \A e \in Range(Tail(stream[k])) :
             /\ e.obj \in Objs /\ e.v \in Nat /\ KindOf[e.obj] = k
             /\ Behind(e.obj, e.v) /\ e.v <= world[e.obj].v
             /\ e.obj = m.obj => m.v <= e.v
      BY EventFacts, ZenonT(60)
    <2>4. \A o \in Objs : Mentions(Tail(stream[k]), o) => Says(Tail(stream[k]), o, world[o])
      BY EventFacts
    <2>5. \A o \in Objs : Mentions(stream[k], o) => o = m.obj \/ Mentions(Tail(stream[k]), o)
      BY EventFacts
    <2> QED
      BY <1>1, <2>1, <2>2, <2>3, <2>4, <2>5
  <1>3. stream'[k] = t /\ \A j \in Kinds \ {k} : stream'[j] = stream[j]
    BY <1>1 DEF IInv, TypeOK
  <1>4. ItemsFit(k)'
    BY <1>2 DEF ItemsFit
  <1>5. StreamFits(k)'
    <2>1. ASSUME NEW e \in Range(t) PROVE Behind(e.obj, e.v)'
      BY <1>2
    <2>2. \A o \in Objs : Says(stream[k], o, world[o])' <=> Says(t, o, world[o])
      BY <1>3
    <2> QED
      BY <1>2, <1>3, <2>1, <2>2 DEF StreamFits
  <1>6. ASSUME NEW o \in Objs, KindOf[o] = k PROVE CacheFits(o)'
    <2>1. CacheFits(o) /\ world[o].v \in Nat
      BY DEF IInv, TypeOK, Statuses
    <2>2. Behind(o, world[o].v)'
      BY <1>2, <2>1 DEF CacheFits
    <2>3. CASE o = m.obj
      <3>1. Quiet(o)' => Status(m) = world[o]
        BY <1>2, <1>3, <1>6, <2>3 DEF Quiet
      <3>2. Status(m).up = m.up
        BY <1>2, StatusFacts
      <3> QED
        BY <1>6, <2>2, <2>3, <3>1, <3>2 DEF CacheFits
    <2>4. CASE o # m.obj
      <3>1. Quiet(o)' => Quiet(o)
        BY <1>2, <1>3, <1>6, <2>4 DEF Quiet
      <3> QED
        BY <1>6, <2>1, <2>2, <2>4, <3>1 DEF CacheFits
    <2> QED
      BY <2>3, <2>4
  <1>7. /\ \A j \in Kinds \ {k} : pc'[j] = pc[j] /\ items'[j] = items[j] /\ stream'[j] = stream[j]
        /\ \A o \in Objs, v \in Nat : KindOf[o] # k /\ Behind(o, v) => Behind(o, v)'
        /\ \A o \in Objs : KindOf[o] # k => cache'[o] = cache[o]
        /\ faults' = faults \/ faults' # 0
    BY <1>2, <1>3
  <1> QED
    BY <1>4, <1>5, <1>6, <1>7, KindSteps

\* An event is dealt with in one step, but for a deleted pod, of which the clients are told
\* first.
LEMMA HandleKeeps ==
    ASSUME IInv, NEW k \in Kinds, Handle(k)
    PROVE  IInv'
  <1>1. /\ pc[k] = "watch" /\ stream[k] # <<>> /\ stream[k] \in Seq(Messages) /\ TypeOK
        /\ UNCHANGED <<world, items, changes, faults>>
    BY DEF Handle, IInv, TypeOK
  <1>2. PICK m : m = Head(stream[k])
    OBVIOUS
  <1>3. /\ m \in Messages /\ m.obj \in Objs /\ m.v \in Nat /\ KindOf[m.obj] = k
        /\ Behind(m.obj, m.v) /\ items[k] = {} /\ Tail(stream[k]) \in Seq(Messages)
    BY <1>1, <1>2, EventFacts
  <1>4. CASE m.up \/ k = Pod
    <2>1. /\ cache' \in [Objs -> Statuses] /\ cache'[m.obj] = Status(m)
          /\ \A o \in Objs \ {m.obj} : cache'[o] = cache[o]
          /\ queue' \in [Clients -> Seq(Messages)] /\ \A c \in Clients : Len(queue'[c]) <= Capacity
          /\ missed' \in SUBSET clients /\ UNCHANGED <<clients, shown>>
          /\ \A o \in Objs, v \in Nat : Behind(o, v) /\ (o = m.obj => m.v <= v) => Behind(o, v)'
          /\ \A c \in Clients : ClientFits(c)'
      <3>1. Publish(m)
        BY <1>2, <1>4 DEF Handle
      <3> QED
        BY <1>3, <3>1, PublishFacts
    <2>2. CASE m.up
      <3>1. UNCHANGED pc /\ stream' = [stream EXCEPT ![k] = Tail(@)]
        BY <1>2, <2>2 DEF Handle
      <3>2. stream' \in [Kinds -> Seq(Messages)] /\ \A j \in Kinds \ {k} : stream'[j] = stream[j]
        BY <1>1, <1>3, <3>1 DEF TypeOK
      <3>3. TypeOK'
        BY <1>1, <2>1, <3>1, <3>2 DEF TypeOK
      <3> QED
        BY <1>1, <1>2, <2>1, <2>2, <3>1, <3>3, NextEvent
    <2>3. CASE ~ m.up /\ k = Pod
      <3>1. pc' = [pc EXCEPT ![k] = "evict"] /\ UNCHANGED stream
        BY <1>2, <2>3 DEF Handle, Goto
      <3>2. pc'[k] = "evict" /\ \A j \in Kinds \ {k} : pc'[j] = pc[j]
        BY <1>1, <3>1 DEF TypeOK
      <3>3. TypeOK'
        BY <1>1, <1>2, <2>1, <2>3, <3>1, <3>2 DEF TypeOK
      <3>4. StreamFits(k) /\ Mentions(stream[k], m.obj)
            /\ \A e \in Range(stream[k]) : /\ e.obj \in Objs /\ e.v \in Nat /\ Behind(e.obj, e.v)
                                           /\ e.obj = m.obj => m.v <= e.v
        BY <1>1, <1>2, EventFacts DEF IInv
      <3>5. StreamFits(k)'
        <4>1. ASSUME NEW e \in Range(stream[k]) PROVE Behind(e.obj, e.v)'
          BY <2>1, <3>4
        <4>2. \A o \in Objs : Says(stream[k], o, world[o])' <=> Says(stream[k], o, world[o])
          BY <1>1, <3>1
        <4> QED
          BY <1>1, <1>2, <2>1, <3>1, <3>2, <3>4, <4>1, <4>2 DEF StreamFits
      <3>6. ItemsFit(k)'
        BY <1>1, <1>3 DEF ItemsFit
      <3>7. ASSUME NEW o \in Objs, KindOf[o] = k PROVE CacheFits(o)'
        <4>1. CacheFits(o) /\ world[o].v \in Nat
          BY DEF IInv, TypeOK, Statuses
        <4>2. m.v <= world[m.obj].v
          BY <1>1, <1>2, EventFacts
        <4>3. Behind(o, world[o].v)'
          BY <1>1, <2>1, <4>1, <4>2 DEF CacheFits
        <4>4. Quiet(o)' => Quiet(o) /\ o # m.obj
          BY <1>1, <3>1, <3>4, <3>7 DEF Quiet
        <4> QED
          BY <1>1, <2>1, <3>2, <3>7, <4>1, <4>3, <4>4 DEF CacheFits
      <3>8. /\ \A j \in Kinds \ {k} : pc'[j] = pc[j] /\ items'[j] = items[j]
                                      /\ stream'[j] = stream[j]
            /\ \A o \in Objs, v \in Nat : KindOf[o] # k /\ Behind(o, v) => Behind(o, v)'
            /\ \A o \in Objs : KindOf[o] # k => cache'[o] = cache[o]
            /\ faults' = faults \/ faults' # 0
        BY <1>1, <1>3, <2>1, <3>1, <3>2
      <3> QED
        BY <1>1, <2>1, <3>3, <3>5, <3>6, <3>7, <3>8, KindSteps
    <2> QED
      BY <1>4, <2>2, <2>3
  <1>5. CASE ~ (m.up \/ k = Pod)
    <2>1. /\ cache' = [cache EXCEPT ![m.obj] = Absent] /\ UNCHANGED served
          /\ UNCHANGED pc /\ stream' = [stream EXCEPT ![k] = Tail(@)]
      BY <1>2, <1>5 DEF Handle
    <2>2. /\ cache' \in [Objs -> Statuses] /\ cache'[m.obj] = Absent
          /\ \A o \in Objs \ {m.obj} : cache'[o] = cache[o]
          /\ \A o \in Objs, v \in Nat : Behind(o, v) => Behind(o, v)'
          /\ \A c \in Clients : ClientFits(c)'
      BY <1>3, <1>5, <2>1, EvictFacts
    <2>3. stream' \in [Kinds -> Seq(Messages)] /\ \A j \in Kinds \ {k} : stream'[j] = stream[j]
      BY <1>1, <1>3, <2>1 DEF TypeOK
    <2>4. TypeOK'
      BY <1>1, <2>1, <2>2, <2>3 DEF TypeOK, served
    <2>5. ~ cache'[m.obj].up
      BY <2>2, StatusFacts
    <2> QED
      BY <1>1, <1>2, <1>5, <2>1, <2>2, <2>4, <2>5, NextEvent
  <1> QED
    BY <1>4, <1>5

\* The deleted pod leaves the cache.
LEMMA EvictKeeps ==
    ASSUME IInv, NEW k \in Kinds, Evict(k)
    PROVE  IInv'
  <1>1. /\ pc[k] = "evict" /\ TypeOK /\ pc' = [pc EXCEPT ![k] = "watch"]
        /\ stream' = [stream EXCEPT ![k] = Tail(@)]
        /\ UNCHANGED <<world, items, served, changes, faults>>
    BY DEF Evict, IInv, Goto
  <1>2. PICK m : m = Head(stream[k])
    OBVIOUS
  <1>3. stream[k] # <<>> /\ ~ m.up /\ stream[k] \in Seq(Messages)
    BY <1>1, <1>2 DEF TypeOK
  <1>4. /\ m \in Messages /\ m.obj \in Objs /\ KindOf[m.obj] = k /\ Tail(stream[k]) \in Seq(Messages)
    BY <1>1, <1>2, <1>3, EventFacts
  <1>5. cache' = [cache EXCEPT ![m.obj] = Absent] /\ ~ cache[m.obj].up
    <2>1. cache[m.obj] = Status(m)
      BY <1>1, <1>2 DEF IInv, StreamFits
    <2> QED
      BY <1>2, <1>3, <1>4, <2>1, StatusFacts DEF Evict
  <1>6. /\ cache' \in [Objs -> Statuses] /\ cache'[m.obj] = Absent
        /\ \A o \in Objs \ {m.obj} : cache'[o] = cache[o]
        /\ \A o \in Objs, v \in Nat : Behind(o, v) => Behind(o, v)'
        /\ \A c \in Clients : ClientFits(c)'
    BY <1>1, <1>4, <1>5, EvictFacts
  <1>7. /\ stream' \in [Kinds -> Seq(Messages)] /\ \A j \in Kinds \ {k} : stream'[j] = stream[j]
        /\ pc'[k] = "watch" /\ \A j \in Kinds \ {k} : pc'[j] = pc[j]
    BY <1>1, <1>4 DEF TypeOK
  <1>8. TypeOK'
    BY <1>1, <1>6, <1>7 DEF TypeOK, served
  <1>9. ~ cache'[m.obj].up
    BY <1>6, StatusFacts
  <1> QED
    BY <1>1, <1>2, <1>3, <1>6, <1>7, <1>8, <1>9, NextEvent

\* A restart leaves the cluster as it is, and nothing known of it.
LEMMA RestartKeeps ==
    ASSUME IInv, Restart
    PROVE  IInv'
  <1>1. /\ TypeOK /\ <<>> \in Seq(Messages) /\ Len(<<>>) = 0
        /\ Absent \in Statuses /\ Absent.v = 0 /\ ~ Absent.up
    BY EmptySeq, StatusFacts DEF IInv
  <1>2. TypeOK'
    BY <1>1, CapacityAssumption DEF Restart, Fault, TypeOK
  <1>3. ASSUME NEW o \in Objs, NEW v \in Nat PROVE Behind(o, v)'
    BY <1>1, EmptyFacts DEF Restart, Behind
  <1>4. ASSUME NEW k \in Kinds PROVE ItemsFit(k)' /\ StreamFits(k)'
    BY EmptyFacts DEF Restart, ItemsFit, StreamFits
  <1>5. ASSUME NEW o \in Objs PROVE CacheFits(o)'
    <2>1. Behind(o, world[o].v)'
      <3>1. world[o].v \in Nat /\ UNCHANGED world
        BY <1>1 DEF TypeOK, Statuses, Restart
      <3> QED
        BY <1>3, <3>1
    <2> QED
      BY <1>1, <2>1, KindAssumption DEF Restart, CacheFits, Quiet
  <1>6. ASSUME NEW c \in Clients PROVE ClientFits(c)'
    BY EmptyFacts DEF Restart, ClientFits
  <1> QED
    BY <1>2, <1>4, <1>5, <1>6 DEF IInv

\* Every step of the cluster, the watchers and the clients keeps it.
LEMMA NextKeeps == IInv /\ [Next]_vars => IInv'
  <1> SUFFICES ASSUME IInv, [Next]_vars PROVE IInv'
    OBVIOUS
  <1>1. ASSUME NEW k \in Kinds, Work(k) \/ ListFails(k) \/ WatchEnds(k) PROVE IInv'
    BY <1>1, ListKeeps, SeedKeeps, WatchKeeps, HandleKeeps, EvictKeeps, ListFailsKeeps,
       WatchEndsKeeps DEF Work
  <1>2. ASSUME NEW c \in Clients, Subscribe(c) \/ Receive(c) \/ Leave(c) PROVE IInv'
    BY <1>2, SubscribeKeeps, ReceiveKeeps, LeaveKeeps
  <1>3. CASE UNCHANGED vars
    <2>1. TypeOK'
      BY <1>3 DEF IInv, TypeOK, vars, watchers, served
    <2>2. UNCHANGED <<world, watchers, cache, served>> /\ faults' = faults
      BY <1>3 DEF vars
    <2> QED
      BY <2>1, <2>2, ServedStay, WatchersStay DEF IInv
  <1> QED
    BY <1>1, <1>2, <1>3, ChangeKeeps, RestartKeeps DEF Next

\* What the theorems below have in common.
LEMMA Inductive == Safety => []IInv
  BY InitIInv, NextKeeps, PTL DEF Safety

\* The variables keep their types: no channel holds more than its capacity, nothing is
\* missed by who is not there, and a pod is evicted only while its deletion is the event
\* at hand (broadcaster, watchPods).
THEOREM TypeCorrect == Safety => []TypeOK
  <1>1. IInv => TypeOK
    BY DEF IInv
  <1> QED
    BY <1>1, Inductive, PTL

\* Once all is quiet a client for which nothing was dropped has the current status of every
\* object there is (watchResource, watchPods, publish, subscribe).
THEOREM SettledAgree == Safety => []SettledClientsAgree
  <1>1. ASSUME IInv, NEW c \in Clients, NEW o \in Objs, Settled(c, o), world[o].up
        PROVE  shown[c][o] = world[o]
    <2> DEFINE k == KindOf[o]
    <2>1. /\ pc[k] = "watch" /\ stream[k] = <<>> /\ k \in Kinds
          /\ c \in clients \ missed /\ queue[c] = <<>>
      BY <1>1, KindAssumption DEF Settled
    <2>2. Quiet(o)
      BY <1>1, <2>1, EmptyFacts DEF IInv, ItemsFit, Quiet
    <2>3. cache[o] = world[o] /\ cache[o] # Absent
      BY <1>1, <2>2, StatusFacts DEF IInv, CacheFits
    <2>4. Knows(c, o, cache[o])
      BY <1>1, <2>1, <2>3 DEF IInv, ClientFits
    <2> QED
      BY <2>1, <2>3, <2>4, EmptyFacts DEF Knows
  <1>2. IInv => SettledClientsAgree
    BY <1>1 DEF SettledClientsAgree
  <1> QED
    BY <1>2, Inductive, PTL

\* As long as no list or watch has failed, a settled client shows no pod that is gone
\* (watchPods publishes a deletion before it takes the pod out of the cache).
THEOREM GonePodsLeave == Safety => []PodsLeave
  <1>1. ASSUME IInv, faults = 0, NEW c \in Clients, NEW o \in Objs, Lingers(c, o)
        PROVE  FALSE
    <2> DEFINE k == KindOf[o]
    <2>1. /\ pc[k] = "watch" /\ stream[k] = <<>> /\ k \in Kinds /\ k = Pod
          /\ c \in clients \ missed /\ queue[c] = <<>>
          /\ shown[c][o].up /\ ~ world[o].up /\ shown[c][o] \in Statuses
      BY <1>1, KindAssumption DEF Lingers, Settled, IInv, TypeOK
    <2>2. Quiet(o)
      BY <1>1, <2>1, EmptyFacts DEF IInv, ItemsFit, Quiet
    <2>3. Knows(c, o, shown[c][o])
      BY <2>1, EmptyFacts DEF Knows
    <2>4. cache[o] = shown[c][o]
      BY <1>1, <2>1, <2>3 DEF IInv, ClientFits
    <2> QED
      BY <1>1, <2>1, <2>2, <2>4 DEF IInv, CacheFits
  <1>2. IInv => PodsLeave
    BY <1>1 DEF PodsLeave
  <1> QED
    BY <1>2, Inductive, PTL

\* On one connection no object goes back to an older status, whatever of the snapshot, the
\* listed statuses and the events comes first (subscribe, publish).
THEOREM NothingGoesBack == Safety => NeverBack
  <1>1. ASSUME IInv, [Next]_vars, NEW c \in clients \cap clients', NEW o \in Objs
        PROVE  shown'[c][o].v >= shown[c][o].v
    <2>1. c \in Clients /\ shown \in [Clients -> [Objs -> Statuses]]
      BY <1>1 DEF IInv, TypeOK
    <2>2. shown[c][o].v \in Nat
      BY <2>1 DEF Statuses
    <2>3. CASE \E d \in Clients : Receive(d)
      <3>1. PICK d \in Clients : Receive(d)
        BY <2>3
      <3>2. PICK m : m = Head(queue[d])
        OBVIOUS
      <3>3. /\ queue[d] \in Seq(Messages) /\ queue[d] # <<>>
            /\ shown' = [shown EXCEPT ![d][m.obj] = Status(m)]
        BY <1>1, <3>1, <3>2 DEF Receive, IInv, TypeOK
      <3>4. m \in Range(queue[d]) /\ m \in Messages
        BY <3>2, <3>3, TailFacts
      <3>5. /\ shown[d][m.obj].v <= m.v /\ m.obj \in Objs /\ m.v \in Nat /\ Status(m).v = m.v
        BY <1>1, <3>4, StatusFacts DEF IInv, ClientFits, Messages
      <3>6. CASE c = d /\ o = m.obj
        <4>1. shown'[c][o] = Status(m)
          BY <2>1, <3>3, <3>5, <3>6
        <4> QED
          BY <2>2, <3>5, <3>6, <4>1
      <3>7. CASE ~ (c = d /\ o = m.obj)
        <4>1. shown'[c][o] = shown[c][o]
          BY <2>1, <3>3, <3>7
        <4> QED
          BY <2>2, <4>1
      <3> QED
        BY <3>6, <3>7
    <2>4. CASE \E d \in Clients : Leave(d)
      <3>1. PICK d \in Clients : Leave(d)
        BY <2>4
      <3>2. c # d /\ shown'[c] = shown[c]
        BY <1>1, <2>1, <3>1 DEF Leave
      <3> QED
        BY <2>2, <3>2
    <2>5. CASE Restart
      BY <1>1, <2>5 DEF Restart
    <2>6. CASE shown' = shown
      BY <2>2, <2>6
    <2> QED
      <3>1. CASE \E d \in Clients : Subscribe(d)
        BY <2>6, <3>1 DEF Subscribe
      <3>2. CASE \E p \in Objs : Change(p)
        BY <2>6, <3>2 DEF Change, served
      <3>3. CASE \E k \in Kinds : Work(k) \/ ListFails(k) \/ WatchEnds(k)
        BY <2>6, <3>3 DEF Work, List, Seed, Watch, Handle, Evict, ListFails, WatchEnds, Publish,
           served
      <3>4. CASE UNCHANGED vars
        BY <2>6, <3>4 DEF vars, served
      <3> QED
        BY <1>1, <2>3, <2>4, <2>5, <3>1, <3>2, <3>3, <3>4 DEF Next
  <1>2. IInv /\ [Next]_vars =>
          [\A c \in clients \cap clients', o \in Objs : shown'[c][o].v >= shown[c][o].v]_vars
    BY <1>1
  <1> QED
    BY <1>2, Inductive, PTL DEF Safety, NeverBack

==============================================================================
