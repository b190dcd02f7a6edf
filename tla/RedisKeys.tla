------------------------------ MODULE RedisKeys ------------------------------
(***************************************************************************)
(* What the session manager uses of Redis: a key is present or absent, and *)
(* a present key either carries a deadline or lives until it is deleted.   *)
(* Every command is atomic.  The server is external to the repository; the *)
(* operators below are its commands as RedisHelper (app/db/redis.py) and   *)
(* the services call them, reduced to what they do to the deadline of one  *)
(* key.  The contents of a key are kept by the modules that own them.      *)
(***************************************************************************)
EXTENDS Integers

Gone == 0          \* the deadline of a key that does not exist
Persist == -1      \* the deadline of a key that has no time to live

Deadline == Nat \cup {Persist}

\* EXISTS
Live(d) == d # Gone

\* EXPIRE key ttl: nothing happens to an absent key.
Expire(d, now, ttl) == IF Live(d) THEN now + ttl ELSE Gone

\* SETEX key ttl value: value and deadline in one command.
SetEx(now, ttl) == now + ttl

\* HSET and RPUSH: a present key keeps its deadline, an absent one is
\* created without any.
Write(d) == IF Live(d) THEN d ELSE Persist

\* SET: the value is replaced and a former deadline is discarded.
Overwrite(d) == Persist

\* What the clock leaves of a key at time t.
Surviving(d, t) == IF d # Persist /\ d <= t THEN Gone ELSE d

=============================================================================
