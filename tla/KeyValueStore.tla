----------------------------- MODULE KeyValueStore -----------------------------
(* A key-value store kept in Redis with a copy in memory for when Redis is    *)
(* not there (redis_manager.py). Each call decides by itself where it works;  *)
(* nothing written to the one is ever moved to the other. One name of every   *)
(* type stands for all. What a call gave back is reply.                       *)
EXTENDS Integers, Sequences, SequencesExt

CONSTANTS Members,         \* values of sets, sorted sets and streams
          MaxCount,        \* bounds counters and streams
          Channels

VARIABLES server,          \* Redis answers
          _connected,
          redis, memory,   \* the same types on either side
          pubsub,          \* channels with a callback, channels listened to, and the thread
          reply,
          used             \* the type the program uses: only flushdb touches several
keyValueVars == <<used, server, _connected, redis, memory, pubsub, reply>>

\* What a plain key holds: nothing, a counter, a hash with a counter in it, or
\* a value json cannot write.
Held(type, n) == [type |-> type, n |-> n]
Absent == Held("none", 0)
\* Replies of different kinds.
Says(truth) == [truth |-> truth]
Counts(n) == [counts |-> n]
Lists(values) == [lists |-> values]
Raised == [raised |-> TRUE]
NewStore == [key |-> Absent, set |-> {}, sorted |-> << >>, stream |-> << >>]
NoPubSub == [made |-> FALSE, callbacks |-> {}, listening |-> {}, _running |-> FALSE, thread |-> FALSE]
KeyValueInit ==
  /\ server \in BOOLEAN /\ _connected = FALSE /\ redis = NewStore /\ memory = NewStore
  /\ pubsub = NoPubSub /\ reply = Says(TRUE) /\ used \in {"keys", "sets", "sorted sets", "streams", "channels"}

-----------------------------------------------------------------------------
\* A call to a server that is gone raises the library's own error, which the
\* caller sees, or one of the system's, which is caught.
Answers == _connected /\ server
Raises == _connected /\ ~server /\ reply' = Raised /\ UNCHANGED <<redis, memory>>
FallsBack == ~_connected \/ ~server
OnRedis(there, says) == Answers /\ redis' = there /\ reply' = says /\ UNCHANGED memory
InMemory(there, says) == FallsBack /\ memory' = there /\ reply' = says /\ UNCHANGED redis
\* f gives a store its next state, g what the call says of it.
Write(f(_), g(_)) == OnRedis(f(redis), g(redis)) \/ InMemory(f(memory), g(memory)) \/ Raises
Read(g(_)) == Write(LAMBDA s : s, g)
\* Redis refuses a key of another type; memory does not look.
KeyCall(type, f(_), g(_)) ==
  IF Answers /\ redis.key.type \notin {"none", type} THEN reply' = Raised /\ UNCHANGED <<redis, memory>> ELSE Write(f, g)

Coerced(h) == IF h.type = "count" THEN h.n ELSE 0
HashIn(h) == IF h.type = "hash" THEN h.n ELSE 0
Existed(s) == Says(s.key # Absent)

set(v) ==
  \/ v.type # "object" /\ Write(LAMBDA s : [s EXCEPT !.key = v], LAMBDA s : Says(TRUE))
  \* What json cannot write goes to memory although Redis is there, and get
  \* will not find it.
  \/ v.type = "object" /\ memory' = [memory EXCEPT !.key = v] /\ reply' = Says(TRUE) /\ UNCHANGED redis
get == KeyCall("count", LAMBDA s : s, LAMBDA s : [holds |-> s.key])
delete == Write(LAMBDA s : [s EXCEPT !.key = Absent], Existed)
exists == Read(Existed)
keys == Read(Existed)
incr(n) ==
  /\ \A s \in {redis, memory} : Coerced(s.key) + n \in 0 .. MaxCount
  /\ KeyCall("count", LAMBDA s : [s EXCEPT !.key = Held("count", Coerced(@) + n)], LAMBDA s : Counts(Coerced(s.key) + n))
\* A name that held something else becomes a hash in memory. When Redis fails,
\* hincrby counts in memory and hset only says False.
hset ==
  \/ (server \/ ~_connected) /\ KeyCall("hash", LAMBDA s : [s EXCEPT !.key = Held("hash", 1)], LAMBDA s : Says(s.key.type = "none"))
  \/ _connected /\ ~server /\ reply' \in {Raised, Says(FALSE)} /\ UNCHANGED <<redis, memory>>
hincrby ==
  /\ \A s \in {redis, memory} : HashIn(s.key) < MaxCount
  /\ KeyCall("hash", LAMBDA s : [s EXCEPT !.key = Held("hash", HashIn(@) + 1)], LAMBDA s : Counts(HashIn(s.key) + 1))
hget == KeyCall("hash", LAMBDA s : s, LAMBDA s : Counts(HashIn(s.key)))
\* Redis forgets a hash that is empty, memory keeps it.
hdel ==
  LET left(s) == IF s.key.type # "hash" THEN s.key ELSE IF Answers THEN Absent ELSE Held("hash", 0)
  IN KeyCall("hash", LAMBDA s : [s EXCEPT !.key = left(s)], LAMBDA s : Says(s.key.type = "hash"))
sadd(v) == Write(LAMBDA s : [s EXCEPT !.set = @ \cup {v}], LAMBDA s : Says(v \notin s.set))
srem(v) == Write(LAMBDA s : [s EXCEPT !.set = @ \ {v}], LAMBDA s : Says(v \in s.set))
smembers == Read(LAMBDA s : Lists(s.set))
\* The member goes to the low or the high end.
Placed(z, v, low) == LET rest == Remove(z, v) IN IF low THEN <<v>> \o rest ELSE Append(rest, v)
zadd(v, low) == Write(LAMBDA s : [s EXCEPT !.sorted = Placed(@, v, low)], LAMBDA s : Says(TRUE))
zrem(v) == Write(LAMBDA s : [s EXCEPT !.sorted = Remove(@, v)], LAMBDA s : Says(Contains(s.sorted, v)))
zrange(from) == Read(LAMBDA s : Lists(SubSeq(s.sorted, from, Len(s.sorted))))
xadd(v) == /\ \A s \in {redis, memory} : Len(s.stream) < MaxCount
           /\ Write(LAMBDA s : [s EXCEPT !.stream = Append(@, v)], LAMBDA s : Says(TRUE))
\* The oldest in Redis, the newest in memory.
xrange == \/ OnRedis(redis, Lists(<<Head(redis.stream \o <<"none">>)>>))
          \/ InMemory(memory, Lists(<<Last(<<"none">> \o memory.stream)>>)) \/ Raises
\* All or nothing in Redis. In memory one by one: each ends where it would alone.
transaction(v) ==
  \/ OnRedis([redis EXCEPT !.key = Absent, !.set = @ \cup {v}], Says(TRUE))
  \/ _connected /\ ~server /\ reply' \in {Raised, Says(FALSE)} /\ UNCHANGED <<redis, memory>>
  \/ ~_connected /\ InMemory([memory EXCEPT !.key = Absent, !.set = @ \cup {v}], Says(TRUE))
\* Sorted sets and streams in memory stay.
flushdb == OnRedis(NewStore, Says(TRUE)) \/ InMemory([memory EXCEPT !.key = Absent, !.set = {}], Says(TRUE)) \/ Raises

Call ==
  \/ flushdb
  \/ used = "keys" /\ \/ get \/ delete \/ exists \/ keys \/ incr(1) \/ incr(-1) \/ hset \/ hincrby \/ hget \/ hdel
                      \/ \E v \in {Held("count", 0), Held("object", 1)} : set(v)
  \/ used = "sets" /\ \/ smembers \/ \E v \in Members : sadd(v) \/ srem(v) \/ transaction(v)
  \/ used = "sorted sets" /\ \E v \in Members : zrem(v) \/ zrange(1) \/ zrange(2) \/ \E low \in BOOLEAN : zadd(v, low)
  \/ used = "streams" /\ \/ xrange \/ \E v \in Members : xadd(v)
UseStore == Call /\ UNCHANGED <<used, server, _connected, pubsub>>
ServerChanges == server' = ~server /\ UNCHANGED <<used, _connected, redis, memory, pubsub, reply>>

-----------------------------------------------------------------------------
\* A failed attempt forgets what memory held, but only one whose error is
\* caught; otherwise an earlier connection counts on.
connect_redis ==
  /\ \/ server /\ _connected' = TRUE /\ pubsub' = [NoPubSub EXCEPT !.made = TRUE] /\ reply' = Says(TRUE) /\ UNCHANGED memory
     \/ ~server /\ _connected' = FALSE /\ memory' = NewStore /\ reply' = Says(FALSE) /\ UNCHANGED pubsub
     \/ ~server /\ reply' = Raised /\ UNCHANGED <<_connected, memory, pubsub>>
  /\ UNCHANGED <<used, server, redis>>
disconnect_redis ==
  /\ _connected' = FALSE /\ pubsub' = NoPubSub /\ UNCHANGED <<used, server, redis, memory, reply>>

PubSub(new) == used = "channels" /\ pubsub.made /\ pubsub' = new /\ UNCHANGED <<used, server, _connected, redis, memory, reply>>
subscribe(c) == PubSub([pubsub EXCEPT !.callbacks = @ \cup {c}])
unsubscribe(c) == PubSub([pubsub EXCEPT !.callbacks = @ \ {c}])
\* The channels known when the thread begins are the ones it listens to.
start_listening ==
  /\ ~pubsub._running /\ _connected
  /\ PubSub([pubsub EXCEPT !._running = TRUE, !.thread = TRUE, !.listening = pubsub.callbacks])
stop_listening == PubSub([pubsub EXCEPT !._running = FALSE, !.thread = FALSE])
\* A lost connection, or the first message when replies are decoded already
\* (the default): it still counts as running, so it is never started again.
ListenerDies == pubsub.thread /\ PubSub([pubsub EXCEPT !.thread = FALSE])
publish(c) ==
  /\ used = "channels"
  /\ \/ Answers /\ reply' \in {Says(TRUE), Says(FALSE)} /\ (pubsub.thread /\ c \in pubsub.listening => reply' = Says(TRUE))
     \/ ~Answers /\ reply' \in {Says(FALSE)} \cup (IF _connected THEN {Raised} ELSE {})
  /\ UNCHANGED <<used, server, _connected, redis, memory, pubsub>>

KeyValueNext ==
  \/ UseStore \/ ServerChanges \/ connect_redis \/ disconnect_redis \/ start_listening \/ stop_listening \/ ListenerDies
  \/ \E c \in Channels : subscribe(c) \/ unsubscribe(c) \/ publish(c)
=============================================================================
