---------------------------- MODULE PollSessions ----------------------------
(***************************************************************************)
(* The Modbus sessions of an Edge: the pool of clients, the lock of each   *)
(* key, and the exchange of a poll, which retries a failed read once on a  *)
(* fresh session.                                                          *)
(*                                                                         *)
(* A direct TCP device has a key of its own, the devices of a bus or of a  *)
(* gateway share the key of their connection (_client_key), so that the    *)
(* endpoint is a function of the key.  A poll reads the configuration      *)
(* before it waits for the lock and uses what it read afterwards.          *)
(***************************************************************************)
EXTENDS Naturals, Sequences, FiniteSets

CONSTANTS
  Key, Direct,      \* keys of the pool; those of direct TCP devices
  Endpoint,         \* host and port, or serial port, with its parameters
  Task,             \* polls that may be in progress at once (bound)
  Client,           \* client objects; those not in use are reused (bound)
  None,
  MaxBlocks,        \* read blocks of a poll (bound)
  MaxAbandoned,     \* sessions left open by failed recoveries (bound)
  ReadsMayFail      \* whether devices and the network fail

ASSUME SessionAssumption ==
  /\ Direct \subseteq Key
  /\ None \notin Key \cup Endpoint \cup Client
  /\ MaxBlocks \in Nat /\ MaxAbandoned \in Nat
  /\ ReadsMayFail \in BOOLEAN

VARIABLES
  config,     \* the endpoint of each key, None if it has no device
  pool,       \* _clients
  target,     \* the endpoint a client was made for (_client_signatures)
  open,       \* clients with an open socket
  task,       \* the polls in progress
  lock,       \* polls at the lock of each key; the first one holds it
  abandoned   \* history: open clients whose read failed after a recovery

sessionVars == <<config, pool, target, open, task, lock, abandoned>>

Phase == {"idle", "waiting", "connecting", "reading", "reconnecting", "rereading"}

\* What a poll holds: key and endpoint as it captured them, the blocks still to
\* be read, its client, and the replacement while a recovery is in progress.
TaskState == [phase : Phase, key : Key \cup {None}, endpoint : Endpoint \cup {None},
              blocks : 0..MaxBlocks, client : Client \cup {None},
              replacement : Client \cup {None}]

Idle == [phase |-> "idle", key |-> None, endpoint |-> None, blocks |-> 0,
         client |-> None, replacement |-> None]

Pooled == {pool[k] : k \in Key} \ {None}
InUse == (UNION {{task[t].client, task[t].replacement} : t \in Task}) \ {None}
Fresh == Client \ (Pooled \cup InUse \cup open)

-----------------------------------------------------------------------------
(* The pool.                                                               *)

\* Mutant: the signature is not compared.
UsableWhateverSignature(k, endpoint) == pool[k] # None

Usable(k, endpoint) == pool[k] # None /\ target[pool[k]] = endpoint

\* A client is made for the endpoint and enters the pool; the objects are alike,
\* so that any one of the fresh ones will do.
Replace(k, endpoint, c) ==
  /\ c \in Fresh /\ c = CHOOSE fresh \in Fresh : TRUE
  /\ pool' = [pool EXCEPT ![k] = c]
  /\ target' = [target EXCEPT ![c] = endpoint]

\* The exchange ends and the lock passes to the next poll.
Release(t) ==
  /\ task' = [task EXCEPT ![t] = Idle]
  /\ lock' = [lock EXCEPT ![task[t].key] = Tail(@)]

\* Mutant: the client of a failed exchange stays in the pool.
FailPooled(t) ==
  /\ open' = open \ {task[t].client}
  /\ Release(t)
  /\ UNCHANGED <<config, pool, target>>

\* The handler of every exception of an exchange: it closes the client that the
\* poll knows of and empties the key.
Fail(t) ==
  /\ open' = open \ {task[t].client}
  /\ pool' = [pool EXCEPT ![task[t].key] = None]
  /\ Release(t)
  /\ UNCHANGED <<config, target>>

-----------------------------------------------------------------------------
(* One poll.                                                               *)

Begin(t, k) ==
  /\ task[t].phase = "idle"
  /\ config[k] # None
  /\ \E n \in 0..MaxBlocks :
       task' = [task EXCEPT ![t] = [Idle EXCEPT !.phase = "waiting", !.key = k,
                                                !.endpoint = config[k], !.blocks = n]]
  /\ lock' = [lock EXCEPT ![k] = Append(@, t)]
  /\ UNCHANGED <<config, pool, target, open, abandoned>>

HoldsLock(t) == task[t].phase # "idle" /\ Head(lock[task[t].key]) = t

\* Mutant: a client with another signature is dropped without closing it.
NewClientUnclosed(t) ==
  LET k == task[t].key IN
    /\ HoldsLock(t) /\ task[t].phase = "waiting"
    /\ ~Usable(k, task[t].endpoint)
    /\ \E c \in Client :
         /\ Replace(k, task[t].endpoint, c)
         /\ task' = [task EXCEPT ![t].client = c, ![t].phase = "connecting"]
    /\ UNCHANGED <<config, open, lock, abandoned>>

\* With the lock, but without a usable client: one is made for the endpoint and
\* the one in the pool, if any, is closed.
NewClient(t) ==
  LET k == task[t].key IN
    /\ HoldsLock(t) /\ task[t].phase = "waiting"
    /\ ~Usable(k, task[t].endpoint)
    /\ \E c \in Client :
         /\ Replace(k, task[t].endpoint, c)
         /\ task' = [task EXCEPT ![t].client = c, ![t].phase = "connecting"]
    /\ open' = open \ {pool[k]}
    /\ UNCHANGED <<config, lock, abandoned>>

\* With the lock and a usable client, which may have lost its connection.
ReuseClient(t) ==
  LET c == pool[task[t].key] IN
    /\ HoldsLock(t) /\ task[t].phase = "waiting"
    /\ Usable(task[t].key, task[t].endpoint)
    /\ task' = [task EXCEPT ![t].client = c,
                            ![t].phase = IF c \in open THEN "reading" ELSE "connecting"]
    /\ UNCHANGED <<config, pool, target, open, lock, abandoned>>

ConnectSucceeds(t) ==
  /\ task[t].phase = "connecting"
  /\ open' = open \cup {task[t].client}
  /\ task' = [task EXCEPT ![t].phase = "reading"]
  /\ UNCHANGED <<config, pool, target, lock, abandoned>>

\* The connection is refused, a block is answered with an error or cannot be decoded.
ConnectOrAnswerFails(t) ==
  /\ ReadsMayFail
  /\ task[t].phase \in {"connecting", "reading"}
  /\ Fail(t)
  /\ UNCHANGED abandoned

\* Mutant: one block too many is read.
ReadPastTheLast(t) ==
  /\ task[t].phase = "reading"
  /\ task[t].client \in open
  /\ task' = [task EXCEPT ![t].blocks = @ - 1]
  /\ UNCHANGED <<config, pool, target, open, lock, abandoned>>

ReadSucceeds(t) ==
  /\ task[t].phase = "reading" /\ task[t].blocks > 0
  /\ task[t].client \in open
  /\ task' = [task EXCEPT ![t].blocks = @ - 1]
  /\ UNCHANGED <<config, pool, target, open, lock, abandoned>>

Finish(t) ==
  /\ task[t].phase = "reading" /\ task[t].blocks = 0
  /\ Release(t)
  /\ UNCHANGED <<config, pool, target, open, abandoned>>

\* A read raises: its client is closed and leaves the pool, a fresh one enters it.
ReadRaises(t) ==
  /\ ReadsMayFail
  /\ task[t].phase = "reading" /\ task[t].blocks > 0
  /\ open' = open \ {task[t].client}
  /\ \E c \in Client :
       /\ Replace(task[t].key, task[t].endpoint, c)
       /\ task' = [task EXCEPT ![t].phase = "reconnecting", ![t].replacement = c]
  /\ UNCHANGED <<config, lock, abandoned>>

ReconnectSucceeds(t) ==
  /\ task[t].phase = "reconnecting"
  /\ open' = open \cup {task[t].replacement}
  /\ task' = [task EXCEPT ![t].phase = "rereading"]
  /\ UNCHANGED <<config, pool, target, lock, abandoned>>

ReconnectFails(t) ==
  /\ task[t].phase = "reconnecting"
  /\ Fail(t)
  /\ UNCHANGED abandoned

\* The second read succeeds, and only now the poll learns of its new client.
RereadSucceeds(t) ==
  /\ task[t].phase = "rereading"
  /\ task[t].replacement \in open
  /\ task' = [task EXCEPT ![t].phase = "reading", ![t].blocks = @ - 1,
                          ![t].client = task[t].replacement, ![t].replacement = None]
  /\ UNCHANGED <<config, pool, target, open, lock, abandoned>>

\* Mutant: the recovery is tried again until a read succeeds.
RetryWithoutLimit(t) ==
  /\ task[t].phase = "rereading"
  /\ open' = open \ {task[t].replacement}
  /\ task' = [task EXCEPT ![t].phase = "reconnecting"]
  /\ UNCHANGED <<config, pool, target, lock, abandoned>>

\* The second read raises too: the handler closes the first client once more.
RereadRaises(t) ==
  /\ task[t].phase = "rereading"
  /\ abandoned' = abandoned \cup ({task[t].replacement} \cap open)
  /\ Cardinality(abandoned') <= MaxAbandoned
  /\ Fail(t)

PollStep(t) ==
  \/ NewClient(t) \/ ReuseClient(t) \/ ConnectSucceeds(t) \/ ConnectOrAnswerFails(t)
  \/ ReadSucceeds(t) \/ Finish(t) \/ ReadRaises(t) \/ ReconnectSucceeds(t)
  \/ ReconnectFails(t) \/ RereadSucceeds(t) \/ RereadRaises(t)

-----------------------------------------------------------------------------
(* Configuration and the other end.                                        *)

\* Two direct TCP devices have different endpoints (_assert_device_address_available).
AddressesDiffer(endpointOf) ==
  \A k, l \in Direct : k # l /\ endpointOf[k] = endpointOf[l] => endpointOf[k] = None

\* A device is created, given another endpoint, removed or deactivated.
Configure(k, endpoint) ==
  /\ endpoint # config[k]
  /\ config' = [config EXCEPT ![k] = endpoint]
  /\ endpoint # None => AddressesDiffer(config')
  /\ UNCHANGED <<pool, target, open, task, lock, abandoned>>

\* A device or the network drops a connection.
PeerCloses(c) ==
  /\ ReadsMayFail
  /\ c \in open
  /\ open' = open \ {c}
  /\ abandoned' = abandoned \ {c}
  /\ UNCHANGED <<config, pool, target, task, lock>>

SessionsInit ==
  /\ config \in [Key -> Endpoint \cup {None}]
  /\ AddressesDiffer(config)
  /\ pool = [k \in Key |-> None]
  /\ target = [c \in Client |-> None]
  /\ open = {}
  /\ task = [t \in Task |-> Idle]
  /\ lock = [k \in Key |-> <<>>]
  /\ abandoned = {}

SessionsNext ==
  \/ \E t \in Task : PollStep(t) \/ \E k \in Key : Begin(t, k)
  \/ \E k \in Key, endpoint \in Endpoint \cup {None} : Configure(k, endpoint)
  \/ \E c \in Client : PeerCloses(c)

SessionsSpec == SessionsInit /\ [][SessionsNext]_sessionVars

\* asyncio resumes every poll, its locks are fair, and pymodbus bounds every
\* connection and read by a timeout.
FairSessionsSpec == SessionsSpec /\ \A t \in Task : WF_sessionVars(PollStep(t))

-----------------------------------------------------------------------------
(* Properties.                                                             *)

SessionsTypeOK ==
  /\ config \in [Key -> Endpoint \cup {None}]
  /\ pool \in [Key -> Client \cup {None}]
  /\ target \in [Client -> Endpoint \cup {None}]
  /\ open \subseteq Client /\ abandoned \subseteq open
  /\ task \in [Task -> TaskState]
  /\ lock \in [Key -> Seq(Task)]

\* A poll that reads does so on the session of the endpoint it was started for,
\* and no other poll reads on that session, however configurations change and
\* recoveries replace clients while polls wait (_pooled_client, _connection_locks).
ReadsItsOwnSession ==
  \A t \in Task : task[t].phase = "reading" =>
    /\ target[task[t].client] = task[t].endpoint
    /\ pool[task[t].key] = task[t].client
    /\ \A u \in Task \ {t} : task[t].client \notin {task[u].client, task[u].replacement}

\* Every open session is in the pool, where close_clients and the next poll find
\* it, or was left by a failed recovery: no other path loses a client.
OpenSessionsAreKnown == open \subseteq Pooled \cup abandoned

\* "Never retain a session after a failed recovery" (polling.py:263): whatever
\* becomes of its socket, no later poll gets a session whose recovery failed.
FailedSessionsAreNotReused == Pooled \cap abandoned = {}

\* Every poll ends, with whatever result, and lets the next one have the lock.
EveryPollEnds == \A t \in Task : task[t].phase # "idle" ~> task[t].phase = "idle"
=============================================================================
