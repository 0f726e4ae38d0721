------------------------- MODULE PollSessionsProofs -------------------------
(* Theorems about the sessions of PollSessions.                            *)
EXTENDS PollSessions, SequenceTheorems, TLAPS

Exchanging(t) == task[t].phase \notin {"idle", "waiting"}

\* The queue of a lock holds polls of its key that have begun, each one once.
QueueOf(k) ==
  /\ \A i \in 1..Len(lock[k]) : task[lock[k][i]].phase # "idle" /\ task[lock[k][i]].key = k
  /\ \A i, j \in 1..Len(lock[k]) : lock[k][i] = lock[k][j] => i = j

\* Every poll that has begun is in the queue of its key, and at its head during
\* the exchange.
Queues ==
  /\ \A k \in Key : QueueOf(k)
  /\ \A t \in Task : task[t].phase # "idle" =>
       /\ task[t].key \in Key /\ task[t].endpoint \in Endpoint
       /\ \E i \in 1..Len(lock[task[t].key]) : lock[task[t].key][i] = t
  /\ \A t \in Task : Exchanging(t) => Head(lock[task[t].key]) = t

\* The clients of one poll, by its phase.
ClientsOf(t) ==
  /\ task[t].phase \in {"idle", "waiting"} => task[t].client = None
  /\ task[t].phase \notin {"reconnecting", "rereading"} => task[t].replacement = None
  /\ task[t].phase \in {"connecting", "reading"} =>
       /\ task[t].client \in Client
       /\ pool[task[t].key] = task[t].client
       /\ target[task[t].client] = task[t].endpoint
  /\ task[t].phase \in {"reconnecting", "rereading"} =>
       /\ task[t].client \in Client /\ task[t].replacement \in Client
       /\ task[t].client \notin Pooled /\ task[t].client \notin open
       /\ task[t].blocks > 0
       /\ pool[task[t].key] = task[t].replacement
       /\ target[task[t].replacement] = task[t].endpoint
  /\ task[t].phase = "reconnecting" => task[t].replacement \notin open

\* Polls do not share clients, nor do keys.
ClientsApart ==
  /\ \A t, u \in Task : t # u /\ task[t].client = task[u].client => task[t].client = None
  /\ \A k, l \in Key : k # l /\ pool[k] = pool[l] => pool[k] = None

\* The inductive invariant.
SessionsInv ==
  /\ SessionsTypeOK
  /\ Queues
  /\ \A t \in Task : ClientsOf(t)
  /\ ClientsApart
  /\ OpenSessionsAreKnown
  /\ FailedSessionsAreNotReused

-----------------------------------------------------------------------------
(* Queues.                                                                 *)

\* Only one poll of a key exchanges, the one at the head of the queue.
LEMMA OneExchange ==
  ASSUME Queues, NEW t \in Task, NEW u \in Task, t # u, HoldsLock(t), Exchanging(u)
  PROVE  task[t].key # task[u].key
BY DEF Queues, HoldsLock

\* A poll that goes on to another phase leaves the queues as they are.
LEMMA QueuesSame ==
  ASSUME SessionsTypeOK, Queues, NEW t \in Task, HoldsLock(t), NEW x \in TaskState,
         x.phase # "idle", x.key = task[t].key, x.endpoint = task[t].endpoint,
         task' = [task EXCEPT ![t] = x], lock' = lock
  PROVE  Queues'
<1>1. \A u \in Task : task'[u] = IF u = t THEN x ELSE task[u]
  BY DEF SessionsTypeOK
<1>2. \A k \in Key : lock[k] \in Seq(Task)
  BY DEF SessionsTypeOK
<1>3. \A k \in Key : QueueOf(k)'
  <2> SUFFICES ASSUME NEW k \in Key PROVE QueueOf(k)'
    OBVIOUS
  <2>1. QueueOf(k)
    BY DEF Queues
  <2>2. \A i \in 1..Len(lock[k]) : lock[k][i] \in Task
    BY <1>2
  <2>3. task[t].phase # "idle"
    BY DEF HoldsLock
  <2> QED BY <1>1, <2>1, <2>2, <2>3 DEF QueueOf
<1>4. \A u \in Task : task'[u].phase # "idle" =>
        /\ task'[u].key \in Key /\ task'[u].endpoint \in Endpoint
        /\ \E i \in 1..Len(lock'[task'[u].key]) : lock'[task'[u].key][i] = u
  <2>1. task[t].phase # "idle"
    BY DEF HoldsLock
  <2> QED BY <1>1, <2>1 DEF Queues
<1>5. \A u \in Task : Exchanging(u)' => Head(lock'[task'[u].key]) = u
  BY <1>1 DEF Queues, Exchanging, HoldsLock
<1> QED BY <1>3, <1>4, <1>5 DEF Queues

\* A poll that begins joins the end of a queue.
LEMMA QueuesAppend ==
  ASSUME SessionsTypeOK, Queues, NEW t \in Task, NEW k \in Key, Begin(t, k)
  PROVE  Queues'
<1>1. /\ task[t].phase = "idle"
      /\ lock' = [lock EXCEPT ![k] = Append(@, t)]
  BY DEF Begin
<1>2. PICK n \in 0..MaxBlocks :
        task' = [task EXCEPT ![t] = [Idle EXCEPT !.phase = "waiting", !.key = k,
                                                 !.endpoint = config[k], !.blocks = n]]
  BY Zenon DEF Begin
<1>3. /\ \A u \in Task \ {t} : task'[u] = task[u]
      /\ task'[t].phase = "waiting" /\ task'[t].key = k /\ task'[t].endpoint = config[k]
  BY <1>2 DEF SessionsTypeOK, Idle
<1>4. config[k] \in Endpoint
  BY DEF Begin, SessionsTypeOK
<1>5. \A l \in Key : lock[l] \in Seq(Task) /\ lock'[l] = IF l = k THEN Append(lock[k], t) ELSE lock[l]
  BY <1>1 DEF SessionsTypeOK
<1>6. \A l \in Key : \A i \in 1..Len(lock[l]) : lock[l][i] \in Task \ {t} /\ lock'[l][i] = lock[l][i]
  BY <1>1, <1>5 DEF Queues, QueueOf
<1>7. /\ Len(lock'[k]) = Len(lock[k]) + 1 /\ lock'[k][Len(lock[k]) + 1] = t
      /\ \A l \in Key \ {k} : Len(lock'[l]) = Len(lock[l])
  <2>1. lock[k] \in Seq(Task) /\ lock'[k] = Append(lock[k], t)
    BY <1>5
  <2>2. \A l \in Key \ {k} : lock'[l] = lock[l]
    BY <1>5
  <2>3. Len(Append(lock[k], t)) = Len(lock[k]) + 1 /\ Append(lock[k], t)[Len(lock[k]) + 1] = t
    BY <2>1, AppendProperties
  <2> QED BY <2>1, <2>2, <2>3
<1>8. \A l \in Key : Len(lock[l]) \in Nat
  BY <1>5
<1>9. \A l \in Key : QueueOf(l)'
  <2> SUFFICES ASSUME NEW l \in Key PROVE QueueOf(l)'
    OBVIOUS
  <2>1. QueueOf(l)
    BY DEF Queues
  <2>2. CASE l # k
    <3>1. lock'[l] = lock[l]
      BY <1>5, <2>2
    <3> QED BY <1>3, <1>6, <2>1, <3>1 DEF QueueOf
  <2>3. CASE l = k
    <3>1. \A i \in 1..Len(lock'[k]) : i \in 1..Len(lock[k]) \/ i = Len(lock[k]) + 1
      BY <1>7, <1>8
    <3>2. ASSUME NEW i \in 1..Len(lock'[k])
          PROVE  task'[lock'[k][i]].phase # "idle" /\ task'[lock'[k][i]].key = k
      <4>1. CASE i \in 1..Len(lock[k])
        BY <1>3, <1>6, <2>1, <2>3, <4>1 DEF QueueOf
      <4>2. CASE i = Len(lock[k]) + 1
        BY <1>3, <1>7, <4>2
      <4> QED BY <3>1, <4>1, <4>2
    <3>3. ASSUME NEW i \in 1..Len(lock'[k]), NEW j \in 1..Len(lock'[k]), lock'[k][i] = lock'[k][j]
          PROVE  i = j
      <4>1. CASE i \in 1..Len(lock[k]) /\ j \in 1..Len(lock[k])
        BY <1>6, <2>1, <2>3, <3>3, <4>1 DEF QueueOf
      <4>2. CASE i = Len(lock[k]) + 1 \/ j = Len(lock[k]) + 1
        BY <1>6, <1>7, <3>1, <3>3, <4>2
      <4> QED BY <3>1, <4>1, <4>2
    <3> QED BY <2>3, <3>2, <3>3 DEF QueueOf
  <2> QED BY <2>2, <2>3
<1>10. ASSUME NEW u \in Task, task'[u].phase # "idle"
       PROVE  /\ task'[u].key \in Key /\ task'[u].endpoint \in Endpoint
              /\ \E i \in 1..Len(lock'[task'[u].key]) : lock'[task'[u].key][i] = u
  <2>1. CASE u = t
    BY <1>3, <1>4, <1>7, <1>8, <2>1
  <2>2. CASE u # t
    <3>1. /\ task'[u] = task[u] /\ task[u].key \in Key /\ task[u].endpoint \in Endpoint
      BY <1>3, <1>10, <2>2 DEF Queues
    <3>2. PICK i \in 1..Len(lock[task[u].key]) : lock[task[u].key][i] = u
      BY <1>3, <1>10, <2>2 DEF Queues
    <3>3. i \in 1..Len(lock'[task[u].key]) /\ lock'[task[u].key][i] = u
      BY <1>6, <1>7, <1>8, <3>1, <3>2
    <3> QED BY <3>1, <3>3
  <2> QED BY <2>1, <2>2
<1>11. ASSUME NEW u \in Task, Exchanging(u)'
       PROVE  Head(lock'[task'[u].key]) = u
  <2>1. u # t /\ task'[u] = task[u] /\ Exchanging(u)
    BY <1>3, <1>11 DEF Exchanging
  <2>2. /\ task[u].key \in Key /\ Head(lock[task[u].key]) = u
        /\ lock[task[u].key] # <<>>
    BY <1>5, <2>1 DEF Queues, Exchanging
  <2>3. Head(Append(lock[k], t)) = IF lock[k] = <<>> THEN t ELSE Head(lock[k])
    BY <1>5, HeadTailAppend
  <2> QED BY <1>5, <2>1, <2>2, <2>3
<1> QED BY <1>9, <1>10, <1>11 DEF Queues

\* A poll that ends leaves the head of its queue.
LEMMA QueuesRelease ==
  ASSUME SessionsTypeOK, Queues, NEW t \in Task, Exchanging(t), Release(t)
  PROVE  Queues'
<1> DEFINE k == task[t].key
<1>1. k \in Key /\ Head(lock[k]) = t /\ lock[k] \in Seq(Task) /\ lock[k] # <<>>
  BY DEF Queues, Exchanging, SessionsTypeOK
<1>2. /\ \A u \in Task \ {t} : task'[u] = task[u]
      /\ task'[t] = Idle
  BY DEF Release, SessionsTypeOK
<1>3. \A l \in Key : lock[l] \in Seq(Task) /\ lock'[l] = IF l = k THEN Tail(lock[k]) ELSE lock[l]
  BY DEF Release, SessionsTypeOK
<1>4. /\ Len(lock[k]) \in Nat \ {0} /\ Len(lock'[k]) = Len(lock[k]) - 1
      /\ \A i \in 1..Len(lock'[k]) : lock'[k][i] = lock[k][i + 1]
      /\ lock[k][1] = t
  <2>1. lock'[k] = Tail(lock[k])
    BY <1>1, <1>3
  <2>2. /\ Len(Tail(lock[k])) = Len(lock[k]) - 1
        /\ \A i \in 1..Len(Tail(lock[k])) : Tail(lock[k])[i] = lock[k][i + 1]
    BY <1>1, HeadTailProperties
  <2>3. Len(lock[k]) \in Nat \ {0} /\ Head(lock[k]) = lock[k][1]
    BY <1>1
  <2> QED BY <1>1, <2>1, <2>2, <2>3
<1>5. \A i \in 1..Len(lock'[k]) : lock'[k][i] # t
  <2>1. \A i \in 1..Len(lock'[k]) : i + 1 \in 1..Len(lock[k]) /\ i + 1 # 1
    BY <1>4
  <2>2. \A i, j \in 1..Len(lock[k]) : lock[k][i] = lock[k][j] => i = j
    BY <1>1 DEF Queues, QueueOf
  <2>3. 1 \in 1..Len(lock[k])
    BY <1>4
  <2> QED BY <1>4, <2>1, <2>2, <2>3
<1>6. \A l \in Key \ {k} : \A i \in 1..Len(lock[l]) : lock[l][i] # t
  BY <1>1 DEF Queues, QueueOf
<1>7. \A l \in Key : QueueOf(l)'
  <2> SUFFICES ASSUME NEW l \in Key PROVE QueueOf(l)'
    OBVIOUS
  <2>1. QueueOf(l)
    BY DEF Queues
  <2>2. CASE l # k
    BY <1>2, <1>3, <1>6, <2>1, <2>2 DEF QueueOf
  <2>3. CASE l = k
    <3>1. \A i \in 1..Len(lock'[k]) : i \in Int /\ i + 1 \in 1..Len(lock[k])
      BY <1>4
    <3>2. \A i \in 1..Len(lock'[k]) : /\ lock'[k][i] \in Task \ {t}
                                      /\ task[lock'[k][i]].phase # "idle"
                                      /\ task[lock'[k][i]].key = k
      <4> TAKE i \in 1..Len(lock'[k])
      <4>1. lock'[k][i] = lock[k][i + 1] /\ i + 1 \in 1..Len(lock[k])
        BY <1>4, <3>1
      <4> QED BY <1>1, <1>5, <2>1, <2>3, <4>1 DEF QueueOf
    <3>3. \A i, j \in 1..Len(lock'[k]) : lock'[k][i] = lock'[k][j] => i = j
      <4> TAKE i, j \in 1..Len(lock'[k])
      <4>1. lock'[k][i] = lock'[k][j] => i + 1 = j + 1
        BY <1>4, <2>1, <2>3, <3>1 DEF QueueOf
      <4> QED BY <3>1, <4>1
    <3> QED BY <1>2, <2>3, <3>2, <3>3 DEF QueueOf
  <2> QED BY <2>2, <2>3
<1>8. ASSUME NEW u \in Task, task'[u].phase # "idle"
      PROVE  /\ task'[u].key \in Key /\ task'[u].endpoint \in Endpoint
             /\ \E i \in 1..Len(lock'[task'[u].key]) : lock'[task'[u].key][i] = u
  <2>1. u # t /\ task'[u] = task[u] /\ task[u].key \in Key /\ task[u].endpoint \in Endpoint
    BY <1>2, <1>8 DEF Idle, Queues
  <2>2. PICK i \in 1..Len(lock[task[u].key]) : lock[task[u].key][i] = u
    BY <1>8, <2>1 DEF Queues
  <2>3. CASE task[u].key # k
    BY <1>3, <2>1, <2>2, <2>3
  <2>4. CASE task[u].key = k
    <3>1. i # 1 /\ i - 1 \in 1..Len(lock'[k])
      BY <1>4, <2>1, <2>2, <2>4
    <3>2. lock'[k][i - 1] = u
      BY <1>4, <2>2, <2>4, <3>1
    <3> QED BY <2>1, <2>4, <3>1, <3>2
  <2> QED BY <2>1, <2>3, <2>4
<1>9. ASSUME NEW u \in Task, Exchanging(u)'
      PROVE  Head(lock'[task'[u].key]) = u
  <2>1. u # t /\ task'[u] = task[u] /\ Exchanging(u)
    BY <1>2, <1>9 DEF Exchanging, Idle
  <2>2. task[u].key # k /\ task[u].key \in Key /\ Head(lock[task[u].key]) = u
    BY <1>1, <2>1 DEF Queues, Exchanging
  <2> QED BY <1>3, <2>1, <2>2
<1> QED BY <1>7, <1>8, <1>9 DEF Queues

-----------------------------------------------------------------------------
(* Clients.                                                                *)

\* A step of the poll that holds the lock of a key may put None or a fresh client
\* there and open what it put; that disturbs neither the clients of the other
\* polls nor those of the other keys.
LEMMA OthersKept ==
  ASSUME SessionAssumption, SessionsInv, NEW t \in Task, HoldsLock(t),
         NEW c \in Client \cup {None},
         c = None \/ c = pool[task[t].key] \/ c \in Fresh,
         \A u \in Task \ {t} : task'[u] = task[u],
         pool' = [pool EXCEPT ![task[t].key] = c],
         \A d \in Client \ Fresh : target'[d] = target[d],
         open' \subseteq open \cup {c}
  PROVE  /\ \A u \in Task \ {t} : ClientsOf(u)'
         /\ \A k, l \in Key : k # l /\ pool'[k] = pool'[l] => pool'[k] = None
         /\ Pooled' \subseteq Pooled \cup {c}
<1> DEFINE held == task[t].key
<1>1. /\ held \in Key
      /\ \A k \in Key : pool[k] \in Client \cup {None} /\ pool'[k] = IF k = held THEN c ELSE pool[k]
  BY DEF SessionsInv, SessionsTypeOK, Queues, HoldsLock
<1>2. \A k, l \in Key : k # l /\ pool[k] = pool[l] => pool[k] = None
  BY DEF SessionsInv, ClientsApart
<1>3. \A k \in Key : c # None /\ pool[k] = c => k = held
  BY <1>1, <1>2 DEF Fresh, Pooled
<1>4. \A k, l \in Key : k # l /\ pool'[k] = pool'[l] => pool'[k] = None
  BY <1>1, <1>2, <1>3
<1>5. Pooled' \subseteq Pooled \cup {c}
  BY <1>1 DEF Pooled
<1>6. ASSUME NEW u \in Task \ {t} PROVE ClientsOf(u)'
  <2>1. task'[u] = task[u] /\ ClientsOf(u)
    BY DEF SessionsInv
  <2>2. CASE ~Exchanging(u)
    BY <2>1, <2>2 DEF ClientsOf, Exchanging
  <2>3. CASE Exchanging(u)
    <3>1. task[u].key \in Key \ {held} /\ pool'[task[u].key] = pool[task[u].key]
      BY <1>1, <2>3, OneExchange DEF SessionsInv, Queues, Exchanging
    <3>2. pool[task[u].key] # None => pool[task[u].key] # c
      BY <1>3, <3>1
    <3>3. task[u].client \notin Fresh /\ task[u].replacement \notin Fresh
      BY DEF Fresh, InUse, SessionAssumption
    <3>4. CASE task[u].phase \in {"connecting", "reading"}
      BY <2>1, <3>1, <3>3, <3>4 DEF ClientsOf
    <3>5. CASE task[u].phase \in {"reconnecting", "rereading"}
      <4>1. /\ task[u].client \in Client /\ task[u].replacement \in Client
            /\ task[u].client \notin Pooled /\ task[u].client \notin open
            /\ pool[task[u].key] = task[u].replacement
        BY <2>1, <3>5 DEF ClientsOf
      <4>2. task[u].client # c /\ task[u].replacement # c
        <5>1. task[u].client # None /\ task[u].replacement # None
          BY <4>1 DEF SessionAssumption
        <5>2. task[u].replacement # c
          BY <3>2, <4>1, <5>1
        <5>3. task[u].client # c
          BY <1>1, <3>3, <4>1, <5>1 DEF Pooled
        <5> QED BY <5>2, <5>3
      <4>3. task[u].client \notin Pooled' /\ task[u].client \notin open'
        BY <1>5, <4>1, <4>2
      <4>4. target'[task[u].replacement] = target[task[u].replacement]
        BY <3>3, <4>1
      <4>5. task[u].replacement \notin open => task[u].replacement \notin open'
        BY <4>2
      <4> QED BY <2>1, <3>1, <3>5, <4>1, <4>3, <4>4, <4>5 DEF ClientsOf
    <3>6. task[u].phase \in Phase
      BY DEF SessionsInv, SessionsTypeOK, TaskState
    <3> QED BY <2>3, <3>4, <3>5, <3>6 DEF Exchanging, Phase
  <2> QED BY <2>2, <2>3
<1> QED BY <1>4, <1>5, <1>6

-----------------------------------------------------------------------------
(* Steps.                                                                  *)

\* What the invariant says of the poll that takes a step.
LEMMA Holder ==
  ASSUME SessionAssumption, SessionsInv, NEW t \in Task, HoldsLock(t)
  PROVE  /\ task[t] \in TaskState /\ task[t].phase # "idle"
         /\ task[t].key \in Key /\ task[t].endpoint \in Endpoint
         /\ pool[task[t].key] \in Client \cup {None}
         /\ ClientsOf(t)
BY DEF SessionsInv, SessionsTypeOK, Queues, HoldsLock

\* During the exchange a poll holds the lock.
LEMMA ExchangingHolds ==
  ASSUME SessionsInv, NEW t \in Task, Exchanging(t)
  PROVE  HoldsLock(t)
BY DEF SessionsInv, Queues, Exchanging, HoldsLock

\* The client of a poll that reads or connects, and the replacement of one that
\* recovers, belongs to no other poll.
LEMMA PooledClientIsOwn ==
  ASSUME SessionAssumption, SessionsInv, NEW t \in Task, HoldsLock(t),
         NEW u \in Task \ {t}, pool[task[t].key] # None
  PROVE  pool[task[t].key] \notin {task[u].client, task[u].replacement}
<1>1. CASE ~Exchanging(u)
  BY <1>1 DEF SessionsInv, ClientsOf, Exchanging
<1>2. CASE Exchanging(u)
  <2>1. task[u].key \in Key /\ task[t].key \in Key /\ task[u].key # task[t].key
    BY <1>2, OneExchange DEF SessionsInv, Queues, Exchanging, HoldsLock
  <2>2. pool[task[u].key] # pool[task[t].key]
    BY <2>1 DEF SessionsInv, ClientsApart
  <2>3. pool[task[t].key] \in Pooled
    BY <2>1 DEF Pooled
  <2>4. task[u].phase \in Phase /\ ClientsOf(u)
    BY DEF SessionsInv, SessionsTypeOK, TaskState
  <2> QED BY <1>2, <2>2, <2>3, <2>4 DEF ClientsOf, Exchanging, Phase
<1> QED BY <1>1, <1>2

\* Begin: the poll has no client yet.
LEMMA BeginSafe ==
  ASSUME SessionAssumption, SessionsInv, NEW t \in Task, NEW k \in Key, Begin(t, k)
  PROVE  SessionsInv'
<1>1. PICK n \in 0..MaxBlocks :
        task' = [task EXCEPT ![t] = [Idle EXCEPT !.phase = "waiting", !.key = k,
                                                 !.endpoint = config[k], !.blocks = n]]
  BY Zenon DEF Begin
<1>2. /\ \A u \in Task \ {t} : task'[u] = task[u]
      /\ task'[t] = [phase |-> "waiting", key |-> k, endpoint |-> config[k], blocks |-> n,
                     client |-> None, replacement |-> None]
  BY <1>1 DEF SessionsInv, SessionsTypeOK, Idle
<1>3. UNCHANGED <<config, pool, target, open, abandoned>>
  BY DEF Begin
<1>4. SessionsTypeOK'
  <2>1. config[k] \in Endpoint
    BY DEF Begin, SessionsInv, SessionsTypeOK
  <2>2. task'[t] \in TaskState
    BY <1>2, <2>1 DEF TaskState, Phase
  <2>3. task' \in [Task -> TaskState]
    BY <1>1, <1>2, <2>2 DEF SessionsInv, SessionsTypeOK
  <2>4. lock' \in [Key -> Seq(Task)]
    BY DEF Begin, SessionsInv, SessionsTypeOK
  <2> QED BY <1>3, <2>3, <2>4 DEF SessionsInv, SessionsTypeOK
<1>5. Queues'
  BY QueuesAppend DEF SessionsInv
<1>6. \A u \in Task : ClientsOf(u)'
  BY <1>2, <1>3 DEF SessionsInv, ClientsOf, Pooled
<1>7. ClientsApart'
  BY <1>2, <1>3 DEF SessionsInv, ClientsApart
<1>8. OpenSessionsAreKnown' /\ FailedSessionsAreNotReused'
  BY <1>3 DEF SessionsInv, OpenSessionsAreKnown, FailedSessionsAreNotReused, Pooled
<1> QED BY <1>4, <1>5, <1>6, <1>7, <1>8 DEF SessionsInv

\* Configurations change beside the polls; a connection is dropped.
LEMMA EnvironmentSafe ==
  ASSUME SessionAssumption, SessionsInv, UNCHANGED <<pool, target, task, lock>>,
         config' \in [Key -> Endpoint \cup {None}],
         NEW lost \in SUBSET Client, open' = open \ lost, abandoned' = abandoned \ lost
  PROVE  SessionsInv'
<1>1. SessionsTypeOK'
  BY DEF SessionsInv, SessionsTypeOK
<1>2. Queues'
  BY DEF SessionsInv, Queues, QueueOf, Exchanging
<1>3. \A u \in Task : ClientsOf(u)'
  BY DEF SessionsInv, ClientsOf, Pooled
<1>4. ClientsApart' /\ OpenSessionsAreKnown' /\ FailedSessionsAreNotReused'
  BY DEF SessionsInv, ClientsApart, OpenSessionsAreKnown, FailedSessionsAreNotReused, Pooled
<1> QED BY <1>1, <1>2, <1>3, <1>4 DEF SessionsInv

\* A step by which poll t, with the lock of its key, becomes x, puts c into the
\* pool, opens nothing but c, and abandons the sessions in left.
StepOf(t, c, x, left) ==
  /\ HoldsLock(t)
  /\ c = None \/ c = pool[task[t].key] \/ c \in Fresh
  /\ x \in TaskState /\ task' = [task EXCEPT ![t] = x]
  /\ pool' = [pool EXCEPT ![task[t].key] = c]
  /\ target' \in [Client -> Endpoint \cup {None}]
  /\ \A d \in Client \ Fresh : target'[d] = target[d]
  /\ left \subseteq {pool[task[t].key]} \cap open \cap open'
  /\ left = {} \/ c = None
  /\ open' \ left \subseteq ((open \ {pool[task[t].key]}) \cup {c}) \cap Client
  /\ abandoned \subseteq open' /\ abandoned' = abandoned \cup left
  /\ config' = config /\ lock' \in [Key -> Seq(Task)]
  /\ \A u \in Task \ {t} : x.client # None => x.client # task[u].client

\* What is left to show of such a step is that its own queue and clients fit.
LEMMA StepSafe ==
  ASSUME SessionAssumption, SessionsInv, NEW t \in Task, NEW c \in Client \cup {None},
         NEW x, NEW left, StepOf(t, c, x, left), Queues', ClientsOf(t)'
  PROVE  SessionsInv'
<1> USE DEF StepOf
<1> DEFINE held == task[t].key
<1>1. /\ held \in Key
      /\ \A k \in Key : pool[k] \in Client \cup {None} /\ pool'[k] = IF k = held THEN c ELSE pool[k]
  BY Holder DEF SessionsInv, SessionsTypeOK
<1>2. task'[t] = x /\ \A u \in Task \ {t} : task'[u] = task[u]
  BY DEF SessionsInv, SessionsTypeOK
<1>3. open' \subseteq open \cup {c}
  OBVIOUS
<1>4. /\ \A u \in Task \ {t} : ClientsOf(u)'
      /\ \A k, l \in Key : k # l /\ pool'[k] = pool'[l] => pool'[k] = None
      /\ Pooled' \subseteq Pooled \cup {c}
  BY <1>2, <1>3, OthersKept
<1>5. SessionsTypeOK'
  <2>1. open' \subseteq Client
    BY DEF SessionsInv, SessionsTypeOK
  <2>2. task' \in [Task -> TaskState] /\ pool' \in [Key -> Client \cup {None}]
    BY DEF SessionsInv, SessionsTypeOK
  <2> QED BY <2>1, <2>2 DEF SessionsInv, SessionsTypeOK
<1>6. ClientsApart'
  BY <1>2, <1>4 DEF SessionsInv, ClientsApart
<1>7. OpenSessionsAreKnown'
  <2>1. Pooled \ {pool[held]} \subseteq Pooled'
    BY <1>1 DEF Pooled
  <2>2. c # None => c \in Pooled'
    BY <1>1 DEF Pooled
  <2>3. None \notin open'
    BY <1>5 DEF SessionsTypeOK, SessionAssumption
  <2> QED BY <2>1, <2>2, <2>3 DEF SessionsInv, OpenSessionsAreKnown
<1>8. FailedSessionsAreNotReused'
  <2>1. abandoned \subseteq open /\ open \subseteq Client /\ None \notin Client
    BY DEF SessionsInv, SessionsTypeOK, SessionAssumption
  <2>2. Pooled' \cap abandoned = {}
    <3>1. c # None /\ c = pool[held] => c \in Pooled
      BY <1>1 DEF Pooled
    <3>2. c \in Fresh => c \notin open
      BY DEF Fresh
    <3>3. c \notin abandoned
      BY <2>1, <3>1, <3>2 DEF SessionsInv, FailedSessionsAreNotReused
    <3> QED BY <1>4, <3>3 DEF SessionsInv, FailedSessionsAreNotReused
  <2>3. CASE left = {}
    BY <2>2, <2>3 DEF FailedSessionsAreNotReused
  <2>4. CASE c = None
    <3>1. pool[held] # None => pool[held] \notin Pooled'
      BY <1>1, <2>4 DEF Pooled, SessionsInv, ClientsApart
    <3> QED BY <2>1, <2>2, <3>1 DEF FailedSessionsAreNotReused
  <2> QED BY <2>3, <2>4
<1>9. \A u \in Task : ClientsOf(u)'
  BY <1>4
<1> QED BY <1>5, <1>6, <1>7, <1>8, <1>9 DEF SessionsInv

\* What a poll reads and what it is when it goes on to another phase.
LEMMA GoesOn ==
  ASSUME SessionAssumption, SessionsInv, NEW t \in Task, HoldsLock(t), NEW x \in TaskState,
         x.phase # "idle", x.key = task[t].key, x.endpoint = task[t].endpoint,
         task' = [task EXCEPT ![t] = x], lock' = lock
  PROVE  Queues' /\ lock' \in [Key -> Seq(Task)] /\ task'[t] = x
BY QueuesSame DEF SessionsInv, SessionsTypeOK

\* A client that leaves the pool is not an abandoned one.
LEMMA PooledNotAbandoned ==
  ASSUME SessionAssumption, SessionsInv, NEW k \in Key
  PROVE  pool[k] \notin abandoned /\ abandoned \subseteq open /\ open \subseteq Client
BY DEF SessionsInv, SessionsTypeOK, FailedSessionsAreNotReused, Pooled, SessionAssumption

\* A fresh client replaces the one with another signature, which is closed.
LEMMA NewClientSafe ==
  ASSUME SessionAssumption, SessionsInv, NEW t \in Task, NewClient(t)
  PROVE  SessionsInv'
<1> DEFINE k == task[t].key
<1>1. /\ HoldsLock(t) /\ task[t].phase = "waiting"
      /\ open' = open \ {pool[k]}
      /\ UNCHANGED <<config, lock, abandoned>>
  BY DEF NewClient
<1>2. PICK c \in Client : /\ Replace(k, task[t].endpoint, c)
                          /\ task' = [task EXCEPT ![t].client = c, ![t].phase = "connecting"]
  BY Zenon DEF NewClient
<1>3. /\ c \in Fresh /\ c # None
      /\ pool' = [pool EXCEPT ![k] = c]
      /\ target' = [target EXCEPT ![c] = task[t].endpoint]
  BY <1>2 DEF Replace, SessionAssumption
<1>4. /\ task[t] \in TaskState /\ k \in Key /\ task[t].endpoint \in Endpoint
      /\ pool[k] \in Client \cup {None} /\ task[t].replacement = None
  BY <1>1, Holder DEF ClientsOf
<1> DEFINE x == [task[t] EXCEPT !.client = c, !.phase = "connecting"]
<1>5. /\ x \in TaskState /\ task' = [task EXCEPT ![t] = x]
      /\ x.phase = "connecting" /\ x.client = c /\ x.replacement = None
      /\ x.key = k /\ x.endpoint = task[t].endpoint
  BY <1>2, <1>4 DEF SessionsInv, SessionsTypeOK, TaskState, Phase
<1> HIDE DEF x
<1>6. Queues' /\ lock' \in [Key -> Seq(Task)] /\ task'[t] = x
  BY <1>1, <1>5, GoesOn
<1>7. /\ target' \in [Client -> Endpoint \cup {None}]
      /\ \A d \in Client \ Fresh : target'[d] = target[d]
      /\ pool'[k] = c /\ target'[c] = task[t].endpoint
  BY <1>3, <1>4 DEF SessionsInv, SessionsTypeOK, Fresh
<1>8. ClientsOf(t)'
  BY <1>5, <1>6, <1>7 DEF ClientsOf
<1>9. \A u \in Task \ {t} : x.client # task[u].client
  BY <1>3, <1>5 DEF Fresh, InUse
<1>10. abandoned \subseteq open'
  BY <1>1, <1>4, PooledNotAbandoned
<1>11. StepOf(t, c, x, {})
  BY <1>1, <1>3, <1>4, <1>5, <1>6, <1>7, <1>9, <1>10, PooledNotAbandoned DEF StepOf
<1> QED BY <1>6, <1>8, <1>11, StepSafe

\* A step that leaves the pool and the clients made for it alone.
LEMMA PoolKept ==
  ASSUME SessionAssumption, SessionsInv, NEW k \in Key, UNCHANGED <<pool, target>>
  PROVE  /\ pool' = [pool EXCEPT ![k] = pool[k]] /\ pool[k] \in Client \cup {None}
         /\ target' \in [Client -> Endpoint \cup {None}]
         /\ \A d \in Client : target'[d] = target[d]
BY DEF SessionsInv, SessionsTypeOK

\* The client of the pool is the poll's own from now on.
LEMMA ReuseClientSafe ==
  ASSUME SessionAssumption, SessionsInv, NEW t \in Task, ReuseClient(t)
  PROVE  SessionsInv'
<1> DEFINE k == task[t].key
           c == pool[k]
           x == [task[t] EXCEPT !.client = c,
                                !.phase = IF c \in open THEN "reading" ELSE "connecting"]
<1>1. /\ HoldsLock(t) /\ task[t].phase = "waiting"
      /\ c # None /\ target[c] = task[t].endpoint
      /\ task' = [task EXCEPT ![t].client = c,
                              ![t].phase = IF c \in open THEN "reading" ELSE "connecting"]
      /\ UNCHANGED <<config, pool, target, open, lock, abandoned>>
  BY DEF ReuseClient, Usable
<1>2. /\ task[t] \in TaskState /\ k \in Key /\ task[t].endpoint \in Endpoint
      /\ c \in Client /\ task[t].replacement = None
  BY <1>1, Holder DEF ClientsOf
<1>3. /\ x \in TaskState /\ task' = [task EXCEPT ![t] = x]
      /\ x.phase \in {"connecting", "reading"} /\ x.client = c /\ x.replacement = None
      /\ x.key = k /\ x.endpoint = task[t].endpoint
  BY <1>1, <1>2 DEF SessionsInv, SessionsTypeOK, TaskState, Phase
<1> HIDE DEF x
<1>4. Queues' /\ lock' \in [Key -> Seq(Task)] /\ task'[t] = x
  BY <1>1, <1>3, GoesOn
<1>5. ClientsOf(t)'
  BY <1>1, <1>2, <1>3, <1>4 DEF ClientsOf
<1>6. \A u \in Task \ {t} : x.client # task[u].client
  BY <1>1, <1>3, PooledClientIsOwn
<1>7. StepOf(t, c, x, {})
  BY <1>1, <1>2, <1>3, <1>4, <1>6, PoolKept, PooledNotAbandoned DEF StepOf
<1> QED BY <1>2, <1>4, <1>5, <1>7, StepSafe

\* The client that is opened is in the pool.
LEMMA ConnectSucceedsSafe ==
  ASSUME SessionAssumption, SessionsInv, NEW t \in Task, ConnectSucceeds(t)
  PROVE  SessionsInv'
<1> DEFINE k == task[t].key
           c == task[t].client
           x == [task[t] EXCEPT !.phase = "reading"]
<1>1. /\ Exchanging(t) /\ task[t].phase = "connecting"
      /\ open' = open \cup {c}
      /\ task' = [task EXCEPT ![t].phase = "reading"]
      /\ UNCHANGED <<config, pool, target, lock, abandoned>>
  BY DEF ConnectSucceeds, Exchanging
<1>2. HoldsLock(t)
  BY <1>1, ExchangingHolds
<1>3. /\ task[t] \in TaskState /\ k \in Key
      /\ c \in Client /\ pool[k] = c /\ target[c] = task[t].endpoint
      /\ task[t].replacement = None
  BY <1>1, <1>2, Holder DEF ClientsOf
<1>4. /\ x \in TaskState /\ task' = [task EXCEPT ![t] = x]
      /\ x.phase = "reading" /\ x.client = c /\ x.replacement = None
      /\ x.key = k /\ x.endpoint = task[t].endpoint
  BY <1>1, <1>3 DEF SessionsInv, SessionsTypeOK, TaskState, Phase
<1> HIDE DEF x
<1>5. Queues' /\ lock' \in [Key -> Seq(Task)] /\ task'[t] = x
  BY <1>1, <1>2, <1>4, GoesOn
<1>6. ClientsOf(t)'
  BY <1>1, <1>3, <1>4, <1>5 DEF ClientsOf
<1>7. \A u \in Task \ {t} : x.client # None => x.client # task[u].client
  BY <1>2, <1>3, <1>4, PooledClientIsOwn
<1>8. abandoned \subseteq open' /\ open' \ {} \subseteq ((open \ {pool[k]}) \cup {c}) \cap Client
  <2>1. abandoned \subseteq open /\ open \subseteq Client
    BY <1>3, PooledNotAbandoned
  <2> QED BY <1>1, <1>3, <2>1
<1>9. /\ pool' = [pool EXCEPT ![k] = c] /\ target' \in [Client -> Endpoint \cup {None}]
      /\ \A d \in Client : target'[d] = target[d]
  BY <1>1, <1>3, PoolKept
<1>10. abandoned' = abandoned \cup {} /\ config' = config
  BY <1>1
<1>11. StepOf(t, c, x, {})
  BY <1>2, <1>3, <1>4, <1>5, <1>7, <1>8, <1>9, <1>10 DEF StepOf
<1> QED BY <1>3, <1>5, <1>6, <1>11, StepSafe

\* The replacement that is opened is in the pool; the first client stays closed.
LEMMA ReconnectSucceedsSafe ==
  ASSUME SessionAssumption, SessionsInv, NEW t \in Task, ReconnectSucceeds(t)
  PROVE  SessionsInv'
<1> DEFINE k == task[t].key
           c == task[t].replacement
           x == [task[t] EXCEPT !.phase = "rereading"]
<1>1. /\ Exchanging(t) /\ task[t].phase = "reconnecting"
      /\ open' = open \cup {c}
      /\ task' = [task EXCEPT ![t].phase = "rereading"]
      /\ UNCHANGED <<config, pool, target, lock, abandoned>>
  BY DEF ReconnectSucceeds, Exchanging
<1>2. HoldsLock(t)
  BY <1>1, ExchangingHolds
<1>3. /\ task[t] \in TaskState /\ k \in Key /\ task[t].blocks > 0
      /\ c \in Client /\ pool[k] = c /\ target[c] = task[t].endpoint
      /\ task[t].client \in Client /\ task[t].client \notin Pooled /\ task[t].client \notin open
  BY <1>1, <1>2, Holder DEF ClientsOf
<1>4. /\ x \in TaskState /\ task' = [task EXCEPT ![t] = x]
      /\ x.phase = "rereading" /\ x.client = task[t].client /\ x.replacement = c
      /\ x.key = k /\ x.endpoint = task[t].endpoint /\ x.blocks = task[t].blocks
  BY <1>1, <1>3 DEF SessionsInv, SessionsTypeOK, TaskState, Phase
<1> HIDE DEF x
<1>5. Queues' /\ lock' \in [Key -> Seq(Task)] /\ task'[t] = x
  BY <1>1, <1>2, <1>4, GoesOn
<1>6. ClientsOf(t)'
  <2>1. Pooled' = Pooled /\ task[t].client # c
    BY <1>1, <1>3 DEF Pooled, SessionAssumption
  <2> QED BY <1>1, <1>3, <1>4, <1>5, <2>1 DEF ClientsOf
<1>7. \A u \in Task \ {t} : x.client # None => x.client # task[u].client
  BY <1>4 DEF SessionsInv, ClientsApart
<1>8. abandoned \subseteq open' /\ open' \ {} \subseteq ((open \ {pool[k]}) \cup {c}) \cap Client
  <2>1. abandoned \subseteq open /\ open \subseteq Client
    BY <1>3, PooledNotAbandoned
  <2> QED BY <1>1, <1>3, <2>1
<1>9. /\ pool' = [pool EXCEPT ![k] = c] /\ target' \in [Client -> Endpoint \cup {None}]
      /\ \A d \in Client : target'[d] = target[d]
  BY <1>1, <1>3, PoolKept
<1>10. abandoned' = abandoned \cup {} /\ config' = config
  BY <1>1
<1>11. StepOf(t, c, x, {})
  BY <1>2, <1>3, <1>4, <1>5, <1>7, <1>8, <1>9, <1>10 DEF StepOf
<1> QED BY <1>3, <1>5, <1>6, <1>11, StepSafe

\* A read changes nothing but the blocks left.
LEMMA ReadSucceedsSafe ==
  ASSUME SessionAssumption, SessionsInv, NEW t \in Task, ReadSucceeds(t)
  PROVE  SessionsInv'
<1> DEFINE k == task[t].key
           c == task[t].client
           x == [task[t] EXCEPT !.blocks = @ - 1]
<1>1. /\ Exchanging(t) /\ task[t].phase = "reading" /\ task[t].blocks > 0
      /\ task' = [task EXCEPT ![t].blocks = @ - 1]
      /\ UNCHANGED <<config, pool, target, open, lock, abandoned>>
  BY DEF ReadSucceeds, Exchanging
<1>2. HoldsLock(t)
  BY <1>1, ExchangingHolds
<1>3. /\ task[t] \in TaskState /\ k \in Key
      /\ c \in Client /\ pool[k] = c /\ target[c] = task[t].endpoint
      /\ task[t].replacement = None
  BY <1>1, <1>2, Holder DEF ClientsOf
<1>4. /\ x \in TaskState /\ task' = [task EXCEPT ![t] = x]
      /\ x.phase = "reading" /\ x.client = c /\ x.replacement = None
      /\ x.key = k /\ x.endpoint = task[t].endpoint
  <2>1. task[t].blocks - 1 \in 0..MaxBlocks
    BY <1>1, <1>3 DEF TaskState, SessionAssumption
  <2>2. x \in TaskState
    BY <1>3, <2>1 DEF TaskState
  <2>3. task' = [task EXCEPT ![t] = x]
    BY <1>1, <1>3 DEF SessionsInv, SessionsTypeOK, TaskState
  <2> QED BY <1>1, <1>3, <2>2, <2>3 DEF TaskState
<1> HIDE DEF x
<1>5. Queues' /\ lock' \in [Key -> Seq(Task)] /\ task'[t] = x
  BY <1>1, <1>2, <1>4, GoesOn
<1>6. ClientsOf(t)'
  BY <1>1, <1>3, <1>4, <1>5 DEF ClientsOf
<1>7. \A u \in Task \ {t} : x.client # None => x.client # task[u].client
  BY <1>4 DEF SessionsInv, ClientsApart
<1>8. StepOf(t, c, x, {})
  BY <1>1, <1>2, <1>3, <1>4, <1>5, <1>7, PoolKept, PooledNotAbandoned DEF StepOf
<1> QED BY <1>3, <1>5, <1>6, <1>8, StepSafe

\* The replacement becomes the client of the poll.
LEMMA RereadSucceedsSafe ==
  ASSUME SessionAssumption, SessionsInv, NEW t \in Task, RereadSucceeds(t)
  PROVE  SessionsInv'
<1> DEFINE k == task[t].key
           c == task[t].replacement
           x == [task[t] EXCEPT !.phase = "reading", !.blocks = @ - 1,
                                !.client = c, !.replacement = None]
<1>1. /\ Exchanging(t) /\ task[t].phase = "rereading"
      /\ task' = [task EXCEPT ![t].phase = "reading", ![t].blocks = @ - 1,
                              ![t].client = c, ![t].replacement = None]
      /\ UNCHANGED <<config, pool, target, open, lock, abandoned>>
  BY DEF RereadSucceeds, Exchanging
<1>2. HoldsLock(t)
  BY <1>1, ExchangingHolds
<1>3. /\ task[t] \in TaskState /\ k \in Key /\ task[t].blocks > 0
      /\ c \in Client /\ pool[k] = c /\ target[c] = task[t].endpoint
  BY <1>1, <1>2, Holder DEF ClientsOf
<1>4. /\ x \in TaskState /\ task' = [task EXCEPT ![t] = x]
      /\ x.phase = "reading" /\ x.client = c /\ x.replacement = None
      /\ x.key = k /\ x.endpoint = task[t].endpoint
  BY <1>1, <1>3 DEF SessionsInv, SessionsTypeOK, TaskState, Phase, SessionAssumption
<1> HIDE DEF x
<1>5. Queues' /\ lock' \in [Key -> Seq(Task)] /\ task'[t] = x
  BY <1>1, <1>2, <1>4, GoesOn
<1>6. ClientsOf(t)'
  BY <1>1, <1>3, <1>4, <1>5 DEF ClientsOf
<1>7. \A u \in Task \ {t} : x.client # None => x.client # task[u].client
  BY <1>2, <1>3, <1>4, PooledClientIsOwn
<1>8. StepOf(t, c, x, {})
  BY <1>1, <1>2, <1>3, <1>4, <1>5, <1>7, PoolKept, PooledNotAbandoned DEF StepOf
<1> QED BY <1>3, <1>5, <1>6, <1>8, StepSafe

\* The client is closed and leaves the pool; no other poll has the fresh one.
LEMMA ReadRaisesSafe ==
  ASSUME SessionAssumption, SessionsInv, NEW t \in Task, ReadRaises(t)
  PROVE  SessionsInv'
<1> DEFINE k == task[t].key
           old == task[t].client
<1>1. /\ Exchanging(t) /\ task[t].phase = "reading" /\ task[t].blocks > 0
      /\ open' = open \ {old}
      /\ UNCHANGED <<config, lock, abandoned>>
  BY DEF ReadRaises, Exchanging
<1>2. PICK c \in Client :
        /\ Replace(k, task[t].endpoint, c)
        /\ task' = [task EXCEPT ![t].phase = "reconnecting", ![t].replacement = c]
  BY Zenon DEF ReadRaises
<1>3. /\ c \in Fresh /\ c # None
      /\ pool' = [pool EXCEPT ![k] = c]
      /\ target' = [target EXCEPT ![c] = task[t].endpoint]
  BY <1>2 DEF Replace, SessionAssumption
<1>4. HoldsLock(t)
  BY <1>1, ExchangingHolds
<1>5. /\ task[t] \in TaskState /\ k \in Key /\ task[t].endpoint \in Endpoint
      /\ old \in Client /\ pool[k] = old
  BY <1>1, <1>4, Holder DEF ClientsOf
<1> DEFINE x == [task[t] EXCEPT !.phase = "reconnecting", !.replacement = c]
<1>6. /\ x \in TaskState /\ task' = [task EXCEPT ![t] = x]
      /\ x.phase = "reconnecting" /\ x.client = old /\ x.replacement = c
      /\ x.key = k /\ x.endpoint = task[t].endpoint /\ x.blocks = task[t].blocks
  BY <1>2, <1>5 DEF SessionsInv, SessionsTypeOK, TaskState, Phase
<1> HIDE DEF x
<1>7. Queues' /\ lock' \in [Key -> Seq(Task)] /\ task'[t] = x
  BY <1>1, <1>4, <1>6, GoesOn
<1>8. /\ target' \in [Client -> Endpoint \cup {None}]
      /\ \A d \in Client \ Fresh : target'[d] = target[d]
      /\ pool'[k] = c /\ target'[c] = task[t].endpoint
  BY <1>3, <1>5 DEF SessionsInv, SessionsTypeOK, Fresh
<1>9. ClientsOf(t)'
  <2>1. old \notin Pooled'
    <3>1. \A l \in Key : pool'[l] = IF l = k THEN c ELSE pool[l]
      BY <1>3 DEF SessionsInv, SessionsTypeOK
    <3>2. \A l \in Key \ {k} : pool[l] # old
      BY <1>5 DEF SessionsInv, ClientsApart, SessionAssumption
    <3>3. c # old
      BY <1>3, <1>5 DEF Fresh, Pooled, SessionAssumption
    <3> QED BY <3>1, <3>2, <3>3 DEF Pooled
  <2>2. old \notin open' /\ c \notin open'
    BY <1>1, <1>3 DEF Fresh
  <2> QED BY <1>1, <1>5, <1>6, <1>7, <1>8, <2>1, <2>2 DEF ClientsOf
<1>10. \A u \in Task \ {t} : x.client # None => x.client # task[u].client
  BY <1>6 DEF SessionsInv, ClientsApart
<1>11. abandoned \subseteq open' /\ open \subseteq Client
  BY <1>1, <1>5, PooledNotAbandoned
<1>12. StepOf(t, c, x, {})
  BY <1>1, <1>3, <1>4, <1>5, <1>6, <1>7, <1>8, <1>10, <1>11 DEF StepOf
<1> QED BY <1>7, <1>9, <1>12, StepSafe

\* A poll that ends is idle, without clients.
LEMMA Ends ==
  ASSUME SessionAssumption, SessionsInv, NEW t \in Task, Exchanging(t), Release(t)
  PROVE  /\ Queues' /\ lock' \in [Key -> Seq(Task)] /\ ClientsOf(t)'
         /\ HoldsLock(t) /\ Idle \in TaskState /\ task' = [task EXCEPT ![t] = Idle]
<1>1. HoldsLock(t)
  BY ExchangingHolds
<1>2. Queues'
  BY QueuesRelease DEF SessionsInv
<1>3. lock' \in [Key -> Seq(Task)]
  <2>1. task[t].key \in Key /\ lock[task[t].key] \in Seq(Task) /\ lock[task[t].key] # <<>>
    <3>1. task[t].key \in Key /\ \E i \in 1..Len(lock[task[t].key]) : lock[task[t].key][i] = t
      BY DEF SessionsInv, Queues, Exchanging
    <3>2. lock[task[t].key] # <<>>
      BY <3>1
    <3> QED BY <3>1, <3>2 DEF SessionsInv, SessionsTypeOK
  <2>2. Tail(lock[task[t].key]) \in Seq(Task)
    BY <2>1, HeadTailProperties
  <2> QED BY <2>2 DEF Release, SessionsInv, SessionsTypeOK
<1>4. Idle \in TaskState /\ task' = [task EXCEPT ![t] = Idle]
  BY DEF Release, Idle, TaskState, Phase, SessionAssumption
<1>5. ClientsOf(t)'
  <2>1. task'[t] = Idle
    BY <1>4 DEF SessionsInv, SessionsTypeOK
  <2> QED BY <2>1 DEF ClientsOf, Idle
<1> QED BY <1>1, <1>2, <1>3, <1>4, <1>5

\* A poll that ends leaves its session in the pool for the next one.
LEMMA FinishSafe ==
  ASSUME SessionAssumption, SessionsInv, NEW t \in Task, Finish(t)
  PROVE  SessionsInv'
<1> DEFINE k == task[t].key
           c == pool[k]
<1>1. Exchanging(t) /\ Release(t) /\ UNCHANGED <<config, pool, target, open, abandoned>>
  BY DEF Finish, Exchanging
<1>2. /\ Queues' /\ lock' \in [Key -> Seq(Task)] /\ ClientsOf(t)'
      /\ HoldsLock(t) /\ Idle \in TaskState /\ task' = [task EXCEPT ![t] = Idle]
  BY <1>1, Ends
<1>3. k \in Key
  BY <1>2, Holder
<1>4. Idle.client = None
  BY DEF Idle
<1>5. c \in Client \cup {None}
  BY <1>1, <1>3, PoolKept
<1>6. abandoned \subseteq open' /\ open' \ {} \subseteq ((open \ {c}) \cup {c}) \cap Client
  BY <1>1, <1>3, PooledNotAbandoned
<1>7. StepOf(t, c, Idle, {})
  BY <1>1, <1>2, <1>3, <1>4, <1>6, PoolKept DEF StepOf
<1> QED BY <1>2, <1>5, <1>7, StepSafe

\* The handler of exceptions: it closes the client the poll knows, empties the
\* key, and leaves the session in left open.
LEMMA FailSafe ==
  ASSUME SessionAssumption, SessionsInv, NEW t \in Task, Exchanging(t), Fail(t),
         NEW left, left = {pool[task[t].key]} \cap open',
         abandoned' = abandoned \cup left
  PROVE  SessionsInv'
<1> DEFINE k == task[t].key
<1>1. /\ Release(t) /\ open' = open \ {task[t].client}
      /\ pool' = [pool EXCEPT ![k] = None]
      /\ UNCHANGED <<config, target>>
  BY DEF Fail
<1>2. /\ Queues' /\ lock' \in [Key -> Seq(Task)] /\ ClientsOf(t)'
      /\ HoldsLock(t) /\ Idle \in TaskState /\ task' = [task EXCEPT ![t] = Idle]
  BY <1>1, Ends
<1>3. /\ k \in Key /\ task[t] \in TaskState /\ ClientsOf(t)
  BY <1>2, Holder
<1>4. Idle.client = None
  BY DEF Idle
<1>5. abandoned \subseteq open'
  <2>1. task[t].client = pool[k] \/ task[t].client \notin open
    BY <1>3 DEF ClientsOf, Exchanging, TaskState, Phase
  <2> QED BY <1>1, <1>3, <2>1, PooledNotAbandoned
<1>6. /\ open' \ left \subseteq ((open \ {pool[k]}) \cup {None}) \cap Client
      /\ left \subseteq {pool[k]} \cap open \cap open'
  BY <1>1, <1>3, PooledNotAbandoned
<1>7. /\ target' \in [Client -> Endpoint \cup {None}]
      /\ \A d \in Client : target'[d] = target[d]
  BY <1>1 DEF SessionsInv, SessionsTypeOK
<1>8. StepOf(t, None, Idle, left)
  BY <1>1, <1>2, <1>4, <1>5, <1>6, <1>7 DEF StepOf
<1> QED BY <1>2, <1>8, StepSafe

\* The client that fails is the pooled one: closed, and nothing is left open.
LEMMA ConnectOrAnswerFailsSafe ==
  ASSUME SessionAssumption, SessionsInv, NEW t \in Task, ConnectOrAnswerFails(t)
  PROVE  SessionsInv'
<1>1. /\ Exchanging(t) /\ Fail(t) /\ abandoned' = abandoned
      /\ task[t].phase \in {"connecting", "reading"}
  BY DEF ConnectOrAnswerFails, Exchanging
<1>2. pool[task[t].key] = task[t].client
  BY <1>1 DEF SessionsInv, ClientsOf
<1>3. {pool[task[t].key]} \cap open' = {}
  BY <1>1, <1>2 DEF Fail
<1> QED BY <1>1, <1>3, FailSafe

\* The replacement that could not be opened leaves the pool, the first client is closed.
LEMMA ReconnectFailsSafe ==
  ASSUME SessionAssumption, SessionsInv, NEW t \in Task, ReconnectFails(t)
  PROVE  SessionsInv'
<1>1. /\ Exchanging(t) /\ Fail(t) /\ abandoned' = abandoned
      /\ task[t].phase = "reconnecting"
  BY DEF ReconnectFails, Exchanging
<1>2. pool[task[t].key] = task[t].replacement /\ task[t].replacement \notin open
  BY <1>1 DEF SessionsInv, ClientsOf
<1>3. {pool[task[t].key]} \cap open' = {}
  BY <1>1, <1>2 DEF Fail
<1> QED BY <1>1, <1>3, FailSafe

\* The one step that leaves a session open: the replacement, which leaves the pool.
LEMMA RereadRaisesSafe ==
  ASSUME SessionAssumption, SessionsInv, NEW t \in Task, RereadRaises(t)
  PROVE  SessionsInv'
<1>1. /\ Exchanging(t) /\ Fail(t) /\ task[t].phase = "rereading"
      /\ abandoned' = abandoned \cup ({task[t].replacement} \cap open)
      /\ open' = open \ {task[t].client}
  BY DEF RereadRaises, Exchanging, Fail
<1>2. /\ pool[task[t].key] = task[t].replacement /\ task[t].client \notin open
  BY <1>1 DEF SessionsInv, ClientsOf
<1>3. {pool[task[t].key]} \cap open' = {task[t].replacement} \cap open
  BY <1>1, <1>2
<1> QED BY <1>1, <1>3, FailSafe

-----------------------------------------------------------------------------
(* The invariant.                                                          *)

\* No client exists at the start.
LEMMA SessionsStart ==
  ASSUME SessionAssumption, SessionsInit
  PROVE  SessionsInv
<1>1. SessionsTypeOK
  BY DEF SessionsInit, SessionsTypeOK, Idle, TaskState, Phase, SessionAssumption
<1>2. \A t \in Task : task[t] = Idle
  BY DEF SessionsInit
<1>3. \A k \in Key : pool[k] = None /\ lock[k] = <<>>
  BY DEF SessionsInit
<1>4. Queues
  BY <1>2, <1>3 DEF Queues, QueueOf, Exchanging, Idle
<1>5. \A t \in Task : ClientsOf(t)
  BY <1>2 DEF ClientsOf, Idle
<1>6. ClientsApart
  BY <1>2, <1>3 DEF ClientsApart, Idle
<1>7. OpenSessionsAreKnown /\ FailedSessionsAreNotReused
  BY DEF SessionsInit, OpenSessionsAreKnown, FailedSessionsAreNotReused
<1> QED BY <1>1, <1>4, <1>5, <1>6, <1>7 DEF SessionsInv

\* Every step keeps the invariant.
LEMMA SessionsStep ==
  ASSUME SessionAssumption, SessionsInv, [SessionsNext]_sessionVars
  PROVE  SessionsInv'
<1>1. CASE \E t \in Task : PollStep(t)
  BY <1>1, NewClientSafe, ReuseClientSafe, ConnectSucceedsSafe, ConnectOrAnswerFailsSafe,
     ReadSucceedsSafe, FinishSafe, ReadRaisesSafe, ReconnectSucceedsSafe,
     ReconnectFailsSafe, RereadSucceedsSafe, RereadRaisesSafe DEF PollStep
<1>2. CASE \E t \in Task, k \in Key : Begin(t, k)
  BY <1>2, BeginSafe
<1>3. CASE \E k \in Key, endpoint \in Endpoint \cup {None} : Configure(k, endpoint)
  <2>1. /\ UNCHANGED <<pool, target, task, lock>>
        /\ config' \in [Key -> Endpoint \cup {None}]
        /\ open' = open \ {} /\ abandoned' = abandoned \ {} /\ {} \in SUBSET Client
    BY <1>3 DEF Configure, SessionsInv, SessionsTypeOK
  <2> QED BY <2>1, EnvironmentSafe
<1>4. CASE \E c \in Client : PeerCloses(c)
  <2>1. PICK c \in Client : PeerCloses(c)
    BY <1>4
  <2>2. /\ UNCHANGED <<pool, target, task, lock>>
        /\ config' \in [Key -> Endpoint \cup {None}]
        /\ open' = open \ {c} /\ abandoned' = abandoned \ {c} /\ {c} \in SUBSET Client
    BY <2>1 DEF PeerCloses, SessionsInv, SessionsTypeOK
  <2> QED BY <2>2, EnvironmentSafe
<1>5. CASE UNCHANGED sessionVars
  <2>1. /\ UNCHANGED <<pool, target, task, lock>>
        /\ config' \in [Key -> Endpoint \cup {None}]
        /\ open' = open \ {} /\ abandoned' = abandoned \ {} /\ {} \in SUBSET Client
    BY <1>5 DEF sessionVars, SessionsInv, SessionsTypeOK
  <2> QED BY <2>1, EnvironmentSafe
<1> QED BY <1>1, <1>2, <1>3, <1>4, <1>5 DEF SessionsNext

\* A poll that reads has the pooled client of its key, and no other poll has it.
LEMMA OwnSession ==
  ASSUME SessionAssumption, SessionsInv
  PROVE  ReadsItsOwnSession
<1> SUFFICES ASSUME NEW t \in Task, task[t].phase = "reading"
             PROVE  /\ target[task[t].client] = task[t].endpoint
                    /\ pool[task[t].key] = task[t].client
                    /\ \A u \in Task \ {t} :
                         task[t].client \notin {task[u].client, task[u].replacement}
  BY DEF ReadsItsOwnSession
<1>1. HoldsLock(t)
  BY ExchangingHolds DEF Exchanging
<1>2. /\ target[task[t].client] = task[t].endpoint
      /\ pool[task[t].key] = task[t].client /\ task[t].client # None
  BY DEF SessionsInv, ClientsOf, SessionAssumption
<1> QED BY <1>1, <1>2, PooledClientIsOwn

\* The invariant of pool, sessions and polls holds whatever the polls do.
THEOREM SessionsInvariant == SessionsSpec => []SessionsInv
<1>1. SessionsInit => SessionsInv
  BY SessionAssumption, SessionsStart
<1>2. SessionsInv /\ [SessionsNext]_sessionVars => SessionsInv'
  BY SessionAssumption, SessionsStep
<1> QED BY <1>1, <1>2, PTL DEF SessionsSpec

\* Polls, recoveries and configuration changes never mix sessions up: a poll reads
\* on a session of its own for the endpoint it was started for.
THEOREM SessionsAreOwn == SessionsSpec => []ReadsItsOwnSession
<1>1. SessionsInv => ReadsItsOwnSession
  BY SessionAssumption, OwnSession
<1> QED BY <1>1, SessionsInvariant, PTL

\* No open session is lost: it is in the pool, or its recovery failed.
THEOREM SessionsAreKnown == SessionsSpec => []OpenSessionsAreKnown
<1>1. SessionsInv => OpenSessionsAreKnown
  BY DEF SessionsInv
<1> QED BY <1>1, SessionsInvariant, PTL

\* A session whose recovery failed is never used again.
THEOREM FailuresAreNotReused == SessionsSpec => []FailedSessionsAreNotReused
<1>1. SessionsInv => FailedSessionsAreNotReused
  BY DEF SessionsInv
<1> QED BY <1>1, SessionsInvariant, PTL

\* Every variable of the pool keeps its type, whatever the polls do.
THEOREM SessionsTypeCorrect == SessionsSpec => []SessionsTypeOK
<1>1. SessionsInv => SessionsTypeOK
  BY DEF SessionsInv
<1> QED BY <1>1, SessionsInvariant, PTL
=============================================================================
