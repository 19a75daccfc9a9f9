----------------------------- MODULE MCConnPool -----------------------------
(***************************************************************************)
(* Small instances of ConnPool and, beside it, of RedisConn: `part' names  *)
(* the one that a behaviour is about, and the other rests.                 *)
(***************************************************************************)
EXTENDS ConnPool

CONSTANTS Object, Database

VARIABLES part, live, context, dbindex, configured, state, on, strayed, crashed

redisVars == <<live, context, dbindex, configured, state, on, strayed, crashed>>

Redis == INSTANCE RedisConn WITH Context <- Addr, NoContext <- NoConn

MCInit == part \in {"pool", "redis"} /\ Init /\ Redis!Init

MCNext == /\ UNCHANGED part
          /\ \/ part = "pool" /\ Next /\ UNCHANGED redisVars
             \/ part = "redis" /\ Redis!Next /\ UNCHANGED vars

\* What is fair is never enabled while the pool rests.
MCSpec == /\ MCInit /\ [][MCNext]_<<part, vars, redisVars>>
          /\ \A h \in Holder : WF_vars(SafeStep(h))

ContextsAccounted == Redis!ContextsAccounted
RightDatabase     == Redis!RightDatabase

=============================================================================
