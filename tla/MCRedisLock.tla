----------------------------- MODULE MCRedisLock -----------------------------
(* Two lock objects of one thread and one of another.                       *)
EXTENDS RedisLock

CONSTANTS l1, l2, l3

MCThread == [i \in Locks |-> IF i = l3 THEN "b" ELSE "a"]
=============================================================================
