------------------------------- MODULE ConnPool -------------------------------
(***************************************************************************)
(* cncpp::MyConnPool and cncpp::MyScopedConn (src/Base/ConnectionPool.h)   *)
(* over RedisConn (src/Base/RedisConn.cpp).                                *)
(*                                                                         *)
(* Every member function of the pool holds mutex_ from its first to its    *)
(* last access of pool_, so each call is one step; safe_grab() and         *)
(* exchange() are several calls, and their steps interleave.  A connection *)
(* is its address, and an address may be used again after delete.  The     *)
(* entries of pool_ are kept as a set: the order of the list only decides  *)
(* which of two entries with the same last_used std::max_element returns,  *)
(* and the model allows either.                                            *)
(***************************************************************************)
EXTENDS Integers, FiniteSets

CONSTANTS Holder,     \* scopes that hold a connection at the same time: a
                      \* MyScopedConn, or a caller with a plain pointer
          Addr,       \* addresses of connections
          NoConn,     \* no connection
          MaxIdle,    \* max_idle_time()
          MaxNow,     \* bound on the clock
          MaxBreaks   \* bound on the commands that fail

ASSUME HolderAssumption == IsFiniteSet(Holder)
ASSUME ConnAssumption == NoConn \notin Addr
ASSUME TimeAssumption == MaxIdle \in Nat \ {0} /\ MaxNow \in Nat /\ MaxBreaks \in Nat

VARIABLES pool,       \* the addresses of the connections in pool_
          in_use,     \* those whose entry has in_use set
          last_used,  \* per address in pool: last_used of its entry
          broken,     \* connections for which isConnected() is false
          held,       \* per holder: the pointer it holds
          pc,         \* per holder: where it is
          now,        \* time(0)
          torn,       \* history: clear() destroyed a connection in use
          breaks      \* history: commands that failed

entries == <<pool, in_use, last_used>>
vars == <<entries, broken, held, pc, now, torn, breaks>>

Init == /\ pool = {} /\ in_use = {} /\ broken = {}
        /\ last_used = [c \in Addr |-> 0]
        /\ held = [h \in Holder |-> NoConn]
        /\ pc = [h \in Holder |-> "idle"]
        /\ now = 0 /\ torn = FALSE /\ breaks = 0

Goto(h, c, l) == /\ held' = [held EXCEPT ![h] = c]
                 /\ pc' = [pc EXCEPT ![h] = l]

\* destroy() and erase() of some entries.
Destroy(S) == /\ pool' = pool \ S
              /\ in_use' = in_use \ S
              /\ broken' = broken \ S
              /\ last_used' = [c \in Addr |-> IF c \in S THEN 0 ELSE last_used[c]]

-----------------------------------------------------------------------------
(* grab() *)

TooOldEvenInUse(c) == last_used[c] <= now - MaxIdle

\* TooOld::operator(): not in use, and last used at least max_idle_time() ago.
TooOld(c) == c \notin in_use /\ last_used[c] <= now - MaxIdle

Expired == {c \in pool : TooOld(c)}
Kept    == pool \ Expired
Idle    == Kept \ in_use

\* Mutant: the comparison is the wrong way round.
IsLru(c) == c \in Idle /\ \A d \in Idle : last_used[c] <= last_used[d]

\* find_mru(): the greatest entry by operator<, where idle ones are greater than
\* those in use and the last used ones among them are the greatest.
IsMru(c) == c \in Idle /\ \A d \in Idle : last_used[d] <= last_used[c]

\* Mutant: an entry that is handed out again is not marked.
HandOutUnmarked(h, c, l) ==
    /\ Destroy(Expired)
    /\ IsMru(c)
    /\ Goto(h, c, l)

\* An idle entry is marked and handed out; last_used keeps its value.
HandOut(h, c, l) ==
    /\ IsMru(c)
    /\ pool' = Kept
    /\ in_use' = in_use \cup {c}
    /\ broken' = broken \ Expired
    /\ last_used' = [d \in Addr |-> IF d \in Expired THEN 0 ELSE last_used[d]]
    /\ Goto(h, c, l)

\* create() gives a connected connection, whose entry starts in use.
Create(h, c, l) ==
    /\ Idle = {}
    /\ c \in Addr \ Kept
    /\ pool' = Kept \cup {c}
    /\ in_use' = in_use \cup {c}
    /\ broken' = broken \ (Expired \cup {c})
    /\ last_used' = [d \in Addr |-> IF d = c THEN now
                                    ELSE IF d \in Expired THEN 0 ELSE last_used[d]]
    /\ Goto(h, c, l)

\* The constructor of the connection throws: nothing is added, the lock is
\* released, and the exception leaves grab().
CreateThrows(h) ==
    /\ Idle = {}
    /\ Destroy(Expired)
    /\ Goto(h, NoConn, "idle")

GrabTo(h, l) == (\E c \in Addr : HandOut(h, c, l) \/ Create(h, c, l)) \/ CreateThrows(h)

\* MyScopedConn(pool), or grab() called directly.
Grab(h) ==
    /\ pc[h] = "idle"
    /\ GrabTo(h, "using")
    /\ UNCHANGED <<now, torn, breaks>>

-----------------------------------------------------------------------------
(* safe_grab(): grab, look at the connection without the lock, and start again *)

SafeGrab(h) ==
    /\ pc[h] \in {"idle", "again"}
    /\ GrabTo(h, "checking")
    /\ UNCHANGED <<now, torn, breaks>>

\* isConnected(); of a connection destroyed in between it may say anything.
Check(h) ==
    /\ pc[h] = "checking"
    /\ \/ held[h] \notin broken /\ Goto(h, held[h], "using")
       \/ held[h] \notin pool \ broken /\ Goto(h, held[h], "removing")
    /\ UNCHANGED <<entries, broken, now, torn, breaks>>

\* Mutant: the broken connection is released instead of removed.
DiscardReleases(h) ==
    /\ pc[h] = "removing" /\ in_use' = in_use \ {held[h]}
    /\ Goto(h, NoConn, "again")
    /\ UNCHANGED <<pool, last_used, broken, now, torn, breaks>>

\* remove(pc)
Discard(h) ==
    /\ pc[h] = "removing"
    /\ Destroy({held[h]} \cap pool)
    /\ Goto(h, NoConn, "again")
    /\ UNCHANGED <<now, torn, breaks>>

-----------------------------------------------------------------------------
(* What a holder does with its connection *)

\* A command fails: hiredis sets err in the context.
Break(h) ==
    /\ pc[h] = "using" /\ held[h] \in pool
    /\ breaks < MaxBreaks
    /\ breaks' = breaks + 1
    /\ broken' = broken \cup {held[h]}
    /\ UNCHANGED <<entries, held, pc, now, torn>>

\* command_v() and command_argv() connect again; command() does not.
Reconnect(h) ==
    /\ pc[h] = "using" /\ held[h] \in broken
    /\ broken' = broken \ {held[h]}
    /\ UNCHANGED <<entries, held, pc, now, torn, breaks>>

\* Mutant: the entry is freed without a look at its connection.
ReleaseAny(h) ==
    /\ pc[h] = "using"
    /\ \E c \in in_use : /\ in_use' = in_use \ {c}
                         /\ last_used' = [last_used EXCEPT ![c] = now]
    /\ Goto(h, NoConn, "idle")
    /\ UNCHANGED <<pool, broken, now, torn, breaks>>

\* ~MyScopedConn() or release(): a pointer that is in no entry is ignored.
Release(h) ==
    /\ pc[h] = "using"
    /\ IF held[h] \in pool
       THEN /\ in_use' = in_use \ {held[h]}
            /\ last_used' = [last_used EXCEPT ![held[h]] = now]
       ELSE UNCHANGED <<in_use, last_used>>
    /\ Goto(h, NoConn, "idle")
    /\ UNCHANGED <<pool, broken, now, torn, breaks>>

\* exchange(pc), called with a plain pointer: remove(pc), then grab().
ExchangeRemove(h) ==
    /\ pc[h] = "using"
    /\ Destroy({held[h]} \cap pool)
    /\ Goto(h, NoConn, "exchanging")
    /\ UNCHANGED <<now, torn, breaks>>

ExchangeGrab(h) ==
    /\ pc[h] = "exchanging"
    /\ GrabTo(h, "using")
    /\ UNCHANGED <<now, torn, breaks>>

-----------------------------------------------------------------------------
(* Upkeep *)

Shrink ==
    /\ Destroy(pool \ in_use)
    /\ UNCHANGED <<held, pc, now, torn, breaks>>

\* clear(), which only the destructor of the pool calls in this program.
Clear ==
    /\ Destroy(pool)
    /\ torn' = (torn \/ in_use # {})
    /\ UNCHANGED <<held, pc, now, breaks>>

Tick ==
    /\ now < MaxNow
    /\ now' = now + 1
    /\ UNCHANGED <<entries, broken, held, pc, torn, breaks>>

SafeStep(h) == (pc[h] = "again" /\ SafeGrab(h)) \/ Check(h) \/ Discard(h)

HolderStep(h) == \/ Grab(h) \/ SafeGrab(h) \/ Check(h) \/ Discard(h)
                 \/ Break(h) \/ Reconnect(h) \/ Release(h)
                 \/ ExchangeRemove(h) \/ ExchangeGrab(h)

Next == (\E h \in Holder : HolderStep(h)) \/ Shrink \/ Clear \/ Tick

Spec == Init /\ [][Next]_vars

\* A thread inside safe_grab() keeps running; nothing else is assumed.
FairSpec == Spec /\ \A h \in Holder : WF_vars(SafeStep(h))

-----------------------------------------------------------------------------
(* Properties *)

TypeOK ==
    /\ pool \subseteq Addr
    /\ in_use \subseteq pool
    /\ broken \subseteq pool
    /\ last_used \in [Addr -> Nat]
    /\ held \in [Holder -> Addr \cup {NoConn}]
    /\ pc \in [Holder -> {"idle", "checking", "removing", "again", "using", "exchanging"}]
    /\ \A h \in Holder : held[h] # NoConn <=> pc[h] \in {"checking", "removing", "using"}
    /\ now \in Nat /\ breaks \in Nat
    /\ torn \in BOOLEAN

\* Two holders never use one connection, and the pool never closes or forgets a
\* connection under its holder, through all expiry, shrinking, exchanging and reuse
\* of addresses.  It holds until clear() hits a connection in use: from then on a
\* stale pointer may equal the address of somebody else's new connection.
Exclusive ==
    ~torn => /\ \A h \in Holder : held[h] # NoConn => held[h] \in in_use
             /\ \A h, g \in Holder : held[h] = held[g] /\ held[h] # NoConn => h = g

\* No connection is lost: one that is marked in use is held by somebody who will
\* release it, even after clear(), failed constructors and stale releases.
InUseIsHeld == \A c \in in_use : \E h \in Holder : held[h] = c

\* max_conn_size_ is never read, yet the pool is bounded: it has at most as many
\* connections as there are holders at the same time.
Bounded == Cardinality(pool) <= Cardinality(Holder)

\* Both: no connection is lost and none is created needlessly.
PoolAccounted == InUseIsHeld /\ Bounded

\* A connection that was idle for max_idle_time() is never handed out again, and
\* of the others it is the one used last, so that the rest can grow old.  (A
\* connection whose last_used changes is a new one at an address just freed.)
FreshestFirst ==
    [][\A c \in pool \cap pool' :
          c \in in_use' \ in_use /\ last_used'[c] = last_used[c] =>
              /\ now - last_used[c] < MaxIdle
              /\ \A d \in pool \ in_use : last_used[d] <= last_used[c]]_vars

Lease == INSTANCE ConnLease WITH
            Conn  <- Addr,
            lease <- held,
            spare <- pool \ in_use,
            sound <- ~torn

\* The pool implements the lending of connections.
LeaseSpec == Lease!Spec

\* safe_grab() gets through all broken connections in the pool: it returns, or
\* throws, as long as only finitely many commands fail and nobody clears the pool
\* under its holders.
SafeGrabReturns ==
    \A h \in Holder : (pc[h] = "checking") ~> (pc[h] \in {"using", "idle"} \/ torn)

=============================================================================
