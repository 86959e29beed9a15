------------------------------ MODULE EventStreams ------------------------------
(* The event streams of the admin interface (admin_stream) and their limits   *)
(* (sse_limits.py): so many at once, so many from one address, and so many    *)
(* bytes a second. Time is counted in the transmission times of one byte.     *)
EXTENDS Integers, FiniteSetsExt, Functions

CONSTANTS Viewers, Address,  \* who opens event streams, and from where
          MaxStreams, MaxPerIp, ByteRate,
          Chunks,            \* sizes of a snapshot
          MaxTicks           \* bounds time

VARIABLES open,              \* limiter: total, and by address
          stream,            \* viewer -> its admin_stream, and the SseByteBudget of it
          clock
eventStreamsVars == <<open, stream, clock>>

NoStream == [pc |-> "closed", allowance |-> 0, last |-> 0, remaining |-> 0, wakes |-> 0]
EventStreamsInit ==
  /\ open = [total |-> 0, per_ip |-> [ip \in Range(Address) |-> 0]]
  /\ stream = [v \in Viewers |-> NoStream] /\ clock = 0

Stream(v, s) == stream' = [stream EXCEPT ![v] = s]
\* Too many in all or from this address: 429. Both limits are read at every try.
try_acquire(v) ==
  /\ stream[v].pc = "closed" /\ open.total < MaxStreams /\ open.per_ip[Address[v]] < MaxPerIp
  /\ open' = [total |-> open.total + 1, per_ip |-> [open.per_ip EXCEPT ![Address[v]] = @ + 1]]
  /\ Stream(v, [NoStream EXCEPT !.pc = "snapshot", !.allowance = ByteRate, !.last = clock])
  /\ UNCHANGED clock
\* The stream ends where it waits: its client is gone, or the task is cancelled.
release(v) ==
  /\ stream[v].pc # "closed" /\ Stream(v, NoStream)
  /\ open' = IF open.per_ip[Address[v]] = 0 THEN open
             ELSE [total |-> Max({0, open.total - 1}), per_ip |-> [open.per_ip EXCEPT ![Address[v]] = @ - 1]]
  /\ UNCHANGED clock
admin_stream(v) ==
  /\ stream[v].pc = "snapshot"
  /\ \E n \in Chunks : Stream(v, [stream[v] EXCEPT !.pc = "budget", !.remaining = n, !.wakes = clock])
  /\ UNCHANGED <<open, clock>>
\* One turn of the loop: what has been saved up, at most one second's worth, is enough, or it is spent
\* and the rest slept over. A chunk of several seconds is credited with one of them at each turn.
SavedUp(s) == Min({ByteRate, s.allowance + (clock - s.last)})
wait_for(v) ==
  /\ stream[v].pc = "budget" /\ stream[v].wakes <= clock
  /\ LET s == stream[v]
     IN Stream(v, IF SavedUp(s) >= s.remaining
                  THEN [s EXCEPT !.pc = "pause", !.allowance = SavedUp(s) - s.remaining, !.last = clock, !.wakes = clock + 2 * ByteRate, !.remaining = 0]
                  ELSE [s EXCEPT !.allowance = 0, !.last = clock, !.remaining = @ - SavedUp(s), !.wakes = clock + s.remaining - SavedUp(s)])
  /\ UNCHANGED <<open, clock>>
WakesUp(v) ==
  /\ stream[v].pc = "pause" /\ stream[v].wakes <= clock /\ Stream(v, [stream[v] EXCEPT !.pc = "snapshot"])
  /\ UNCHANGED <<open, clock>>
Tick == clock < MaxTicks /\ clock' = clock + 1 /\ UNCHANGED <<open, stream>>

EventStreamsNext ==
  \/ \E v \in Viewers : try_acquire(v) \/ release(v) \/ admin_stream(v) \/ wait_for(v) \/ WakesUp(v)
  \/ Tick
=============================================================================
