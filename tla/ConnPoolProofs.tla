---------------------------- MODULE ConnPoolProofs ----------------------------
(***************************************************************************)
(* ConnPool lends a connection to one holder at a time and stays bounded   *)
(* by the number of holders, for any holders, addresses and idle time; and *)
(* RedisConn, in the instance of MCConnPool, loses no working context and  *)
(* keeps each on its database, for any objects, contexts and databases.    *)
(***************************************************************************)
EXTENDS MCConnPool, FiniteSetTheorems, TLAPS

IInv == /\ TypeOK /\ Exclusive /\ InUseIsHeld
        /\ IsFiniteSet(pool) /\ Bounded

\* The numeric side of an entry plays no part below.
LEMMA ExpiredIdle == Expired \subseteq pool /\ Expired \cap in_use = {}
BY DEF Expired, TooOld

LEMMA InitIInv == Init => IInv
<1> SUFFICES ASSUME Init PROVE IInv
  OBVIOUS
<1>1. TypeOK /\ Exclusive /\ InUseIsHeld
  BY ConnAssumption DEF Init, TypeOK, Exclusive, InUseIsHeld
<1>2. IsFiniteSet(pool) /\ Cardinality(pool) = 0
  BY FS_EmptySet DEF Init
<1>3. Cardinality(Holder) \in Nat
  BY HolderAssumption, FS_CardinalityType
<1> QED
  BY <1>1, <1>2, <1>3 DEF IInv, Bounded

\* Entries that are destroyed while they are idle, or while their own holder lets
\* go of them, leave everybody else alone.
LEMMA FewerEntries ==
  ASSUME IInv, pool' \subseteq pool PROVE IsFiniteSet(pool)' /\ Bounded'
<1>1. IsFiniteSet(pool') /\ Cardinality(pool') <= Cardinality(pool)
  BY FS_Subset DEF IInv
<1>2. Cardinality(pool) \in Nat /\ Cardinality(pool') \in Nat /\ Cardinality(Holder) \in Nat
  BY <1>1, HolderAssumption, FS_CardinalityType DEF IInv
<1> QED
  BY <1>1, <1>2 DEF IInv, Bounded

\* Where all that is kept is in use, each connection has a holder of its own among
\* the others, so there is room for one more.
LEMMA RoomForOneMore ==
  ASSUME IInv, NEW h \in Holder, held[h] = NoConn, Kept \subseteq in_use
  PROVE  IsFiniteSet(Kept) /\ Cardinality(Kept) + 1 <= Cardinality(Holder)
<1> DEFINE others == Holder \ {h}
           holder == [c \in Kept |-> CHOOSE g \in others : held[g] = c]
<1>1. \A c \in Kept : \E g \in others : held[g] = c
  BY ConnAssumption DEF IInv, InUseIsHeld, TypeOK
<1>2. \A c \in Kept : holder[c] \in others /\ held[holder[c]] = c
  BY <1>1
<1>3. holder \in Injection(Kept, others)
  BY <1>2 DEF Injection, IsInjective
<1>4. IsFiniteSet(others) /\ Cardinality(others) = Cardinality(Holder) - 1
  BY HolderAssumption, FS_RemoveElement
<1>5. IsFiniteSet(Kept) /\ Cardinality(Kept) <= Cardinality(others)
  BY <1>3, <1>4, FS_Injection
<1>6. Cardinality(Kept) \in Nat /\ Cardinality(Holder) \in Nat
  BY <1>5, HolderAssumption, FS_CardinalityType
<1> QED
  BY <1>4, <1>5, <1>6

-----------------------------------------------------------------------------
(* grab() *)

LEMMA HandOutIInv ==
  ASSUME IInv, NEW h \in Holder, NEW c \in Addr, NEW l \in {"using", "checking"},
         held[h] = NoConn, HandOut(h, c, l), UNCHANGED <<now, torn, breaks>>
  PROVE  IInv'
<1> USE ExpiredIdle DEF IInv
<1>1. /\ c \in pool /\ c \notin Expired /\ c \notin in_use
      /\ pool' = pool \ Expired /\ in_use' = in_use \cup {c} /\ broken' = broken \ Expired
      /\ \A g \in Holder : held'[g] = (IF g = h THEN c ELSE held[g])
      /\ \A g \in Holder : pc'[g] = (IF g = h THEN l ELSE pc[g])
  BY DEF HandOut, Goto, IsMru, Idle, Kept, TypeOK
<1>2. TypeOK'
  <2>1. last_used' \in [Addr -> Nat]
    BY DEF HandOut, TypeOK
  <2>2. /\ held' \in [Holder -> Addr \cup {NoConn}]
        /\ pc' \in [Holder -> {"idle", "checking", "removing", "again", "using", "exchanging"}]
    BY DEF HandOut, Goto, TypeOK
  <2>3. \A g \in Holder : held'[g] # NoConn <=> pc'[g] \in {"checking", "removing", "using"}
    BY <1>1, ConnAssumption DEF TypeOK
  <2> QED
    BY <1>1, <2>1, <2>2, <2>3 DEF TypeOK
<1>3. Exclusive'
  BY <1>1, ConnAssumption DEF Exclusive
<1>4. InUseIsHeld'
  BY <1>1, ConnAssumption DEF InUseIsHeld, TypeOK
<1> QED
  BY <1>1, <1>2, <1>3, <1>4, FewerEntries

LEMMA CreateIInv ==
  ASSUME IInv, NEW h \in Holder, NEW c \in Addr, NEW l \in {"using", "checking"},
         held[h] = NoConn, Create(h, c, l), UNCHANGED <<now, torn, breaks>>
  PROVE  IInv'
<1> USE ExpiredIdle DEF IInv
<1>1. /\ c \notin Kept /\ Kept = pool \ Expired /\ Kept \subseteq in_use /\ in_use \subseteq Kept
      /\ pool' = Kept \cup {c} /\ in_use' = in_use \cup {c} /\ broken' = broken \ (Expired \cup {c})
      /\ \A g \in Holder : held'[g] = (IF g = h THEN c ELSE held[g])
      /\ \A g \in Holder : pc'[g] = (IF g = h THEN l ELSE pc[g])
  BY DEF Create, Goto, Idle, Kept, TypeOK
<1>2. TypeOK'
  <2>1. last_used' \in [Addr -> Nat]
    BY DEF Create, TypeOK
  <2>2. /\ held' \in [Holder -> Addr \cup {NoConn}]
        /\ pc' \in [Holder -> {"idle", "checking", "removing", "again", "using", "exchanging"}]
    BY DEF Create, Goto, TypeOK
  <2>3. \A g \in Holder : held'[g] # NoConn <=> pc'[g] \in {"checking", "removing", "using"}
    BY <1>1, ConnAssumption DEF TypeOK
  <2> QED
    BY <1>1, <2>1, <2>2, <2>3 DEF TypeOK
<1>3. Exclusive'
  BY <1>1, ConnAssumption DEF Exclusive
<1>4. InUseIsHeld'
  BY <1>1, ConnAssumption DEF InUseIsHeld, TypeOK
<1>5. IsFiniteSet(pool)' /\ Bounded'
  <2>1. IsFiniteSet(Kept) /\ Cardinality(Kept) + 1 <= Cardinality(Holder)
    BY <1>1, RoomForOneMore
  <2>2. IsFiniteSet(pool') /\ Cardinality(pool') = Cardinality(Kept) + 1
    BY <1>1, <2>1, FS_AddElement
  <2> QED
    BY <2>1, <2>2 DEF Bounded
<1> QED
  BY <1>2, <1>3, <1>4, <1>5

LEMMA CreateThrowsIInv ==
  ASSUME IInv, NEW h \in Holder, held[h] = NoConn, CreateThrows(h),
         UNCHANGED <<now, torn, breaks>>
  PROVE  IInv'
<1> USE ExpiredIdle DEF IInv
<1>1. /\ pool' = pool \ Expired /\ in_use' = in_use /\ broken' = broken \ Expired
      /\ \A g \in Holder : held'[g] = held[g]
      /\ \A g \in Holder : pc'[g] = (IF g = h THEN "idle" ELSE pc[g])
  BY DEF CreateThrows, Destroy, Goto, TypeOK
<1>2. TypeOK'
  BY <1>1, ConnAssumption DEF CreateThrows, Destroy, Goto, TypeOK
<1> QED
  BY <1>1, <1>2, FewerEntries DEF Exclusive, InUseIsHeld

LEMMA GrabIInv ==
  ASSUME IInv, NEW h \in Holder, NEW l \in {"using", "checking"},
         held[h] = NoConn, GrabTo(h, l), UNCHANGED <<now, torn, breaks>>
  PROVE  IInv'
BY HandOutIInv, CreateIInv, CreateThrowsIInv DEF GrabTo

-----------------------------------------------------------------------------
(* Everything else *)

\* remove(pc) by its holder.
LEMMA RemoveIInv ==
  ASSUME IInv, NEW h \in Holder, NEW l \in {"again", "exchanging"},
         held[h] # NoConn, Destroy({held[h]} \cap pool), Goto(h, NoConn, l),
         UNCHANGED <<now, torn, breaks>>
  PROVE  IInv'
<1> USE DEF IInv
<1>1. /\ pool' = pool \ {held[h]} /\ in_use' = in_use \ {held[h]} /\ broken' = broken \ {held[h]}
      /\ \A g \in Holder : held'[g] = (IF g = h THEN NoConn ELSE held[g])
      /\ \A g \in Holder : pc'[g] = (IF g = h THEN l ELSE pc[g])
  BY DEF Destroy, Goto, TypeOK
<1>2. TypeOK'
  <2>1. last_used' \in [Addr -> Nat]
    BY DEF Destroy, TypeOK
  <2>2. /\ held' \in [Holder -> Addr \cup {NoConn}]
        /\ pc' \in [Holder -> {"idle", "checking", "removing", "again", "using", "exchanging"}]
    BY DEF Goto, TypeOK
  <2>3. \A g \in Holder : held'[g] # NoConn <=> pc'[g] \in {"checking", "removing", "using"}
    BY <1>1 DEF TypeOK
  <2> QED
    BY <1>1, <2>1, <2>2, <2>3 DEF TypeOK
<1>3. Exclusive' /\ InUseIsHeld'
  BY <1>1 DEF Exclusive, InUseIsHeld
<1> QED
  BY <1>1, <1>2, <1>3, FewerEntries

LEMMA ReleaseIInv == ASSUME IInv, NEW h \in Holder, Release(h) PROVE IInv'
<1> USE DEF IInv
<1>1. /\ pool' = pool /\ in_use' = in_use \ {held[h]} /\ broken' = broken
      /\ held[h] \in Addr
      /\ UNCHANGED <<now, torn, breaks>>
      /\ \A g \in Holder : held'[g] = (IF g = h THEN NoConn ELSE held[g])
      /\ \A g \in Holder : pc'[g] = (IF g = h THEN "idle" ELSE pc[g])
  BY DEF Release, Goto, TypeOK
<1>2. TypeOK'
  <2>1. last_used' \in [Addr -> Nat]
    BY <1>1 DEF Release, TypeOK
  <2>2. /\ held' \in [Holder -> Addr \cup {NoConn}]
        /\ pc' \in [Holder -> {"idle", "checking", "removing", "again", "using", "exchanging"}]
    BY DEF Release, Goto, TypeOK
  <2>3. \A g \in Holder : held'[g] # NoConn <=> pc'[g] \in {"checking", "removing", "using"}
    BY <1>1 DEF TypeOK
  <2> QED
    BY <1>1, <2>1, <2>2, <2>3 DEF TypeOK
<1>3. Exclusive' /\ InUseIsHeld'
  BY <1>1 DEF Exclusive, InUseIsHeld
<1> QED
  BY <1>1, <1>2, <1>3, FewerEntries

LEMMA CheckIInv == ASSUME IInv, NEW h \in Holder, Check(h) PROVE IInv'
<1> USE DEF IInv
<1>1. /\ UNCHANGED <<pool, in_use, last_used, broken, now, torn, breaks>>
      /\ \A g \in Holder : held'[g] = held[g]
      /\ held' \in [Holder -> Addr \cup {NoConn}]
      /\ pc' \in [Holder -> {"idle", "checking", "removing", "again", "using", "exchanging"}]
      /\ \A g \in Holder : pc'[g] = pc[g] \/ (g = h /\ pc[g] = "checking" /\ pc'[g] \in {"removing", "using"})
  BY DEF Check, Goto, entries, TypeOK
<1>2. TypeOK'
  BY <1>1 DEF TypeOK
<1> QED
  BY <1>1, <1>2, FewerEntries DEF Exclusive, InUseIsHeld

LEMMA UpkeepIInv == ASSUME IInv, Shrink \/ Clear \/ Tick PROVE IInv'
<1> USE DEF IInv
<1>1. UNCHANGED <<held, pc, breaks>> /\ now' \in Nat
  BY DEF Shrink, Clear, Tick, TypeOK
<1>2. CASE Shrink
  <2>1. /\ pool' = in_use /\ in_use' = in_use /\ broken' \subseteq in_use /\ torn' = torn
        /\ last_used' \in [Addr -> Nat]
    BY <1>2 DEF Shrink, Destroy, TypeOK
  <2>2. TypeOK' /\ pool' \subseteq pool
    BY <1>1, <2>1 DEF TypeOK
  <2> QED
    BY <1>1, <2>1, <2>2, FewerEntries DEF Exclusive, InUseIsHeld
<1>3. CASE Clear
  <2>1. /\ pool' = {} /\ in_use' = {} /\ broken' = {} /\ torn' = (torn \/ in_use # {})
        /\ last_used' \in [Addr -> Nat]
    BY <1>3 DEF Clear, Destroy, TypeOK
  <2>2. torn' \in BOOLEAN
    BY <1>3, Zenon DEF Clear, TypeOK
  <2>3. TypeOK' /\ pool' \subseteq pool
    BY <1>1, <2>1, <2>2 DEF TypeOK
  <2> QED
    BY <1>1, <2>1, <2>3, FewerEntries DEF Exclusive, InUseIsHeld
<1>4. CASE Tick
  <2>1. UNCHANGED <<pool, in_use, last_used, broken, torn>>
    BY <1>4 DEF Tick, entries
  <2>2. TypeOK' /\ pool' \subseteq pool
    BY <1>1, <2>1 DEF TypeOK
  <2> QED
    BY <1>1, <2>1, <2>2, FewerEntries DEF Exclusive, InUseIsHeld
<1> QED
  BY <1>2, <1>3, <1>4

LEMMA ConnectionIInv == ASSUME IInv, NEW h \in Holder, Break(h) \/ Reconnect(h) PROVE IInv'
<1> USE DEF IInv
<1>1. UNCHANGED <<pool, in_use, last_used, held, pc, now, torn>>
  BY DEF Break, Reconnect, entries
<1>2. broken' \subseteq pool /\ breaks' \in Nat
  BY DEF Break, Reconnect, TypeOK
<1>3. TypeOK' /\ pool' \subseteq pool
  BY <1>1, <1>2 DEF TypeOK
<1> QED
  BY <1>1, <1>3, FewerEntries DEF Exclusive, InUseIsHeld

LEMMA NextIInv == IInv /\ [Next]_vars => IInv'
<1> SUFFICES ASSUME IInv, [Next]_vars PROVE IInv'
  OBVIOUS
<1>1. CASE UNCHANGED vars
  BY <1>1 DEF vars, entries, IInv, TypeOK, Exclusive, InUseIsHeld, Bounded
<1>2. ASSUME NEW h \in Holder, HolderStep(h) PROVE IInv'
  <2>1. (pc[h] \in {"idle", "again", "exchanging"} => held[h] = NoConn)
        /\ (pc[h] \in {"removing", "using"} => held[h] # NoConn)
    BY DEF IInv, TypeOK
  <2>2. CASE Grab(h) \/ SafeGrab(h) \/ ExchangeGrab(h)
    BY <2>1, <2>2, GrabIInv DEF Grab, SafeGrab, ExchangeGrab
  <2>3. CASE Discard(h) \/ ExchangeRemove(h)
    BY <2>1, <2>3, RemoveIInv DEF Discard, ExchangeRemove
  <2> QED
    BY <1>2, <2>2, <2>3, CheckIInv, ConnectionIInv, ReleaseIInv DEF HolderStep
<1> QED
  BY <1>1, <1>2, UpkeepIInv DEF Next

LEMMA Invariance == Spec => []IInv
BY InitIInv, NextIInv, PTL DEF Spec

\* Two holders never share a connection, and none is closed under its holder, as
\* long as the pool was not cleared of connections in use.
THEOREM OneHolder == Spec => []Exclusive
<1>1. IInv => Exclusive
  BY DEF IInv
<1> QED
  BY <1>1, Invariance, PTL

\* No entry stays in use without a holder, so none can be lost for good; and the pool has
\* at most as many connections as there are holders at the same time.
THEOREM NoneLost == Spec => []PoolAccounted
<1>1. IInv => PoolAccounted
  BY DEF IInv, PoolAccounted
<1> QED
  BY <1>1, Invariance, PTL

\* The pool's state keeps its types.
THEOREM TypeCorrect == Spec => []TypeOK
<1>1. IInv => TypeOK
  BY DEF IInv
<1> QED
  BY <1>1, Invariance, PTL

-----------------------------------------------------------------------------
(* Expiry and the choice of the connection *)

LEMMA GrabFreshest ==
  ASSUME IInv, NEW h \in Holder, NEW l, GrabTo(h, l),
         NEW c \in pool \cap pool', c \in in_use' \ in_use, last_used'[c] = last_used[c],
         now \in Nat
  PROVE  /\ now - last_used[c] < MaxIdle
         /\ \A d \in pool \ in_use : last_used[d] <= last_used[c]
<1> USE TimeAssumption DEF IInv, TypeOK
<1>1. c \in Addr /\ last_used[c] \in Nat /\ \A d \in pool : d \in Addr /\ last_used[d] \in Nat
  OBVIOUS
<1>2. \A d \in Expired : last_used[d] <= now - MaxIdle
  BY DEF Expired, TooOld
<1>3. ASSUME NEW a \in Addr, HandOut(h, a, l)
      PROVE  /\ now - last_used[c] < MaxIdle
             /\ \A d \in pool \ in_use : last_used[d] <= last_used[c]
  <2>1. a = c /\ c \in Idle /\ \A d \in Idle : last_used[d] <= last_used[c]
    BY <1>3 DEF HandOut, IsMru
  <2>2. ~(last_used[c] <= now - MaxIdle)
    BY <2>1 DEF Idle, Kept, Expired, TooOld
  <2>3. \A d \in pool \ in_use : d \in Idle \/ d \in Expired
    BY DEF Idle, Kept
  <2> QED
    BY <1>1, <1>2, <2>1, <2>2, <2>3
<1>4. ASSUME NEW a \in Addr, Create(h, a, l)
      PROVE  FALSE
  <2>1. a = c /\ Idle = {} /\ last_used'[c] = now
    BY <1>4 DEF Create
  <2>2. c \in Expired
    BY <2>1 DEF Idle, Kept
  <2>3. last_used[c] <= now - MaxIdle
    BY <1>2, <2>2
  <2> QED
    BY <1>1, <2>1, <2>3
<1>5. ~CreateThrows(h)
  BY DEF CreateThrows, Destroy
<1> QED
  BY <1>3, <1>4, <1>5 DEF GrabTo

\* No grab() hands out a connection that was idle for too long, nor an older one
\* than the one used last.
THEOREM Freshest == Spec => FreshestFirst
<1>1. ASSUME IInv, [Next]_vars,
             NEW c \in pool \cap pool', c \in in_use' \ in_use, last_used'[c] = last_used[c]
      PROVE  /\ now - last_used[c] < MaxIdle
             /\ \A d \in pool \ in_use : last_used[d] <= last_used[c]
  <2>1. ~UNCHANGED vars /\ ~Shrink /\ ~Clear /\ ~Tick
    BY <1>1 DEF vars, entries, Shrink, Clear, Tick, Destroy
  <2>2. PICK h \in Holder : HolderStep(h)
    BY <1>1, <2>1 DEF Next
  <2>3. ~Check(h) /\ ~Discard(h) /\ ~Break(h) /\ ~Reconnect(h) /\ ~Release(h) /\ ~ExchangeRemove(h)
    BY <1>1 DEF Check, Discard, Break, Reconnect, Release, ExchangeRemove, entries, Destroy
  <2>4. GrabTo(h, "using") \/ GrabTo(h, "checking")
    BY <2>2, <2>3 DEF HolderStep, Grab, SafeGrab, ExchangeGrab
  <2>5. now \in Nat
    BY <1>1 DEF IInv, TypeOK
  <2> QED
    BY <1>1, <2>4, <2>5, GrabFreshest
<1>2. IInv /\ [Next]_vars =>
        [\A c \in pool \cap pool' :
           c \in in_use' \ in_use /\ last_used'[c] = last_used[c] =>
              /\ now - last_used[c] < MaxIdle
              /\ \A d \in pool \ in_use : last_used[d] <= last_used[c]]_vars
  BY <1>1
<1> QED
  BY <1>2, Invariance, PTL DEF Spec, FreshestFirst

-----------------------------------------------------------------------------
(* The refinement: a lease is a pointer that a holder holds. *)

LEMMA GrabLease ==
  ASSUME IInv, NEW h \in Holder, NEW l, held[h] = NoConn, GrabTo(h, l), torn' = torn, ~torn
  PROVE  Lease!Next
<1> USE ExpiredIdle DEF IInv
<1>1. ASSUME NEW c \in Addr, HandOut(h, c, l)
      PROVE  Lease!Next
  <2>1. Lease!Lend(h, c)
    BY <1>1 DEF HandOut, IsMru, Idle, Kept, Goto, Lease!Lend
  <2> QED
    BY <2>1 DEF Lease!Next
<1>2. ASSUME NEW c \in Addr, Create(h, c, l)
      PROVE  Lease!Next
  <2>1. \A g \in Holder : held[g] # c
    BY <1>2, ConnAssumption DEF Create, Kept, Exclusive, TypeOK
  <2>2. (pool \ in_use)' = {}
    BY <1>2 DEF Create, Idle, Kept, TypeOK
  <2>3. Lease!Open(h, c)
    BY <1>2, <2>1, <2>2 DEF Create, Goto, Lease!Open, Lease!Leased
  <2> QED
    BY <2>3 DEF Lease!Next
<1>3. ASSUME CreateThrows(h)
      PROVE  Lease!Next
  <2>1. held' = held
    BY <1>3 DEF CreateThrows, Goto, TypeOK
  <2>2. Lease!CloseSpare
    BY <1>3, <2>1 DEF CreateThrows, Destroy, Lease!CloseSpare
  <2> QED
    BY <2>2 DEF Lease!Next
<1> QED
  BY <1>1, <1>2, <1>3 DEF GrabTo

LEMMA HolderLease ==
  ASSUME IInv, NEW h \in Holder, HolderStep(h), ~torn
  PROVE  Lease!Next \/ UNCHANGED Lease!vars
<1> USE DEF IInv
<1>1. /\ pc[h] \in {"idle", "again", "exchanging"} => held[h] = NoConn
      /\ pc[h] \in {"removing", "using"} => held[h] # NoConn /\ held[h] \in in_use /\ held[h] \in pool
  BY DEF TypeOK, Exclusive
<1>2. CASE Grab(h) \/ SafeGrab(h) \/ ExchangeGrab(h)
  BY <1>1, <1>2, GrabLease DEF Grab, SafeGrab, ExchangeGrab
<1>3. CASE Check(h)
  <2>1. held' = held
    BY <1>3 DEF Check, Goto, TypeOK
  <2> QED
    BY <1>3, <2>1 DEF Check, entries, Lease!vars
<1>4. CASE Discard(h) \/ ExchangeRemove(h)
  <2>1. /\ pool' = pool \ {held[h]} /\ in_use' = in_use \ {held[h]} /\ torn' = torn
        /\ held' = [held EXCEPT ![h] = NoConn] /\ pc[h] \in {"removing", "using"}
    BY <1>4 DEF Discard, ExchangeRemove, Destroy, Goto, TypeOK
  <2>2. Lease!Close(h)
    BY <1>1, <2>1 DEF Lease!Close
  <2> QED
    BY <2>2 DEF Lease!Next
<1>5. CASE Release(h)
  <2>1. /\ pool' = pool /\ in_use' = in_use \ {held[h]} /\ torn' = torn
        /\ held' = [held EXCEPT ![h] = NoConn] /\ pc[h] = "using"
    BY <1>1, <1>5 DEF Release, Goto
  <2>2. Lease!Return(h)
    BY <1>1, <2>1 DEF Lease!Return
  <2> QED
    BY <2>2 DEF Lease!Next
<1>6. CASE Break(h) \/ Reconnect(h)
  BY <1>6 DEF Break, Reconnect, entries, Lease!vars
<1> QED
  BY <1>2, <1>3, <1>4, <1>5, <1>6 DEF HolderStep

LEMMA UpkeepLease ==
  ASSUME IInv, Shrink \/ Clear \/ Tick, ~torn
  PROVE  Lease!Next \/ UNCHANGED Lease!vars
<1> USE DEF IInv
<1>1. CASE Shrink
  <2>1. Lease!CloseSpare
    BY <1>1 DEF Shrink, Destroy, Lease!CloseSpare
  <2> QED
    BY <2>1 DEF Lease!Next
<1>2. CASE Clear
  <2>1. pool' = {} /\ in_use' = {} /\ held' = held /\ (torn' <=> in_use # {})
    BY <1>2 DEF Clear, Destroy, TypeOK
  <2>2. CASE in_use = {}
    <3>1. Lease!CloseSpare
      BY <2>1, <2>2 DEF Lease!CloseSpare
    <3> QED
      BY <3>1 DEF Lease!Next
  <2>3. CASE in_use # {}
    <3>1. Lease!Clear
      BY <2>1, <2>3 DEF Lease!Clear
    <3> QED
      BY <3>1 DEF Lease!Next
  <2> QED
    BY <2>2, <2>3
<1>3. CASE Tick
  BY <1>3 DEF Tick, entries, Lease!vars
<1> QED
  BY <1>1, <1>2, <1>3

\* The pool implements the lending of connections.
THEOREM Implements == Spec => LeaseSpec
<1>1. Init => Lease!Init
  BY DEF Init, Lease!Init
<1>2. IInv /\ [Next]_vars => [Lease!Next]_(Lease!vars)
  <2> SUFFICES ASSUME IInv, [Next]_vars PROVE Lease!Next \/ UNCHANGED Lease!vars
    OBVIOUS
  <2>1. CASE UNCHANGED vars
    BY <2>1 DEF vars, entries, Lease!vars
  <2>2. CASE torn
    <3>1. UNCHANGED vars \/ torn'
      BY <2>2 DEF Next, HolderStep, Grab, SafeGrab, Check, Discard, Break, Reconnect, Release,
                  ExchangeRemove, ExchangeGrab, Shrink, Clear, Tick
    <3>2. torn' => Lease!Unsound
      BY <2>2 DEF Lease!Unsound
    <3> QED
      BY <2>1, <3>1, <3>2 DEF Lease!Next
  <2>3. CASE ~torn
    BY <2>1, <2>3, HolderLease, UpkeepLease DEF Next
  <2> QED
    BY <2>2, <2>3
<1> QED
  BY <1>1, <1>2, Invariance, PTL DEF Spec, LeaseSpec, Lease!Spec

-----------------------------------------------------------------------------
(* RedisConn *)

\* Objects that do not exist have no context, so that no constructor drops one.
RedisTypes ==
    /\ live \subseteq Object /\ configured \subseteq live
    /\ context \in [Object -> Addr \cup {NoConn}]
    /\ \A o \in Object \ live : context[o] = NoConn
    /\ dbindex \in [Object -> Database \cup {0}]
    /\ state \in [Addr -> {"free", "good", "bad"}]
    /\ on \in [Addr -> Database \cup {0}]
    /\ strayed \subseteq Addr

RedisInv == RedisTypes /\ ContextsAccounted /\ RightDatabase

\* What a step may change of the contexts: only c, and none for the null pointer.
Only(c) ==
    /\ state' \in [Addr -> {"free", "good", "bad"}]
    /\ on' \in [Addr -> Database \cup {0}]
    /\ strayed' \subseteq Addr
    /\ \A d \in Addr \ {c} : /\ state'[d] = state[d] /\ on'[d] = on[d]
                             /\ d \in strayed' <=> d \in strayed

LEMMA BecomesOnly ==
  ASSUME RedisTypes, NEW c \in Addr, NEW what \in {"free", "bad"}, Redis!Becomes(c, what)
  PROVE  Only(c) /\ state'[c] = what
BY DEF RedisTypes, Redis!Becomes, Only

\* A context that connect() leaves without an error is on the database of the
\* configuration, or marked as strayed.
LEMMA ConnectToOnly ==
  ASSUME RedisTypes, NEW o \in Object, dbindex'[o] \in Database \cup {0},
         NEW c \in Addr, Redis!ConnectTo(o, c)
  PROVE  /\ Only(c) /\ state'[c] \in {"good", "bad"}
         /\ state'[c] = "good" /\ c \notin strayed' => on'[c] = dbindex'[o]
<1>1. CASE Redis!Becomes(c, "bad")
  BY <1>1, BecomesOnly
<1>2. ASSUME NEW raw \in Redis!Answers,
             /\ state' = [state EXCEPT ![c] = "good"]
             /\ on' = [on EXCEPT ![c] = IF dbindex'[o] = 0 THEN 0
                                        ELSE Redis!Moved(raw, dbindex'[o], 0)]
             /\ strayed' = IF dbindex'[o] = 0 \/ Redis!Accepted(Redis!Parse(raw))
                           THEN strayed \ {c} ELSE strayed \cup {c}
      PROVE  /\ Only(c) /\ state'[c] \in {"good", "bad"}
             /\ state'[c] = "good" /\ c \notin strayed' => on'[c] = dbindex'[o]
  BY <1>2 DEF RedisTypes, Only, Redis!Moved
<1> QED
  BY <1>1, <1>2 DEF Redis!ConnectTo

LEMMA FreeOnly ==
  ASSUME RedisTypes, NEW c \in Addr \cup {NoConn}, Redis!Free(c)
  PROVE  Only(c) /\ (c \in Addr => state'[c] = "free")
<1>1. CASE c = NoConn
  BY <1>1, ConnAssumption DEF RedisTypes, Redis!Free, Only
<1>2. CASE c # NoConn
  BY <1>2, BecomesOnly DEF Redis!Free
<1> QED
  BY <1>1, <1>2

LEMMA InitRedisInv == Redis!Init => RedisInv
BY DEF Redis!Init, RedisInv, RedisTypes, ContextsAccounted, RightDatabase,
       Redis!ContextsAccounted, Redis!RightDatabase

LEMMA ConstructInv ==
  ASSUME RedisInv, NEW o \in Object, NEW c \in Addr, NEW i \in Database \cup {0},
         NEW fromConfig, Redis!Construct(o, c, i, fromConfig)
  PROVE  RedisInv'
<1> USE ConnAssumption DEF RedisInv
<1>1. /\ o \notin live /\ state[c] = "free"
      /\ \A p \in Object : dbindex'[p] = IF p = o THEN i ELSE dbindex[p]
      /\ dbindex' \in [Object -> Database \cup {0}]
  BY DEF Redis!Construct, RedisTypes
<1>2. /\ Only(c) /\ state'[c] \in {"good", "bad"}
      /\ state'[c] = "good" /\ c \notin strayed' => on'[c] = i
  BY <1>1, ConnectToOnly DEF Redis!Construct
<1>3. \A p \in live : context[p] # c
  BY <1>1 DEF ContextsAccounted, Redis!ContextsAccounted
<1>4. CASE state'[c] = "good"
  <2>1. /\ live' = live \cup {o} /\ context' = [context EXCEPT ![o] = c]
        /\ configured' \subseteq configured \cup {o} /\ configured \subseteq configured'
    BY <1>4 DEF Redis!Construct
  <2>2. /\ context' \in [Object -> Addr \cup {NoConn}]
        /\ \A p \in Object : context'[p] = IF p = o THEN c ELSE context[p]
    BY <2>1 DEF RedisTypes
  <2>3. RedisTypes'
    BY <1>1, <1>2, <2>1, <2>2 DEF RedisTypes, Only
  <2>4. ContextsAccounted'
    BY <1>1, <1>2, <1>3, <1>4, <2>1, <2>2
       DEF ContextsAccounted, Redis!ContextsAccounted, RedisTypes, Only
  <2>5. RightDatabase'
    BY <1>1, <1>2, <1>3, <1>4, <2>1, <2>2
       DEF RightDatabase, Redis!RightDatabase, Redis!isConnected, RedisTypes, Only
  <2> QED
    BY <2>3, <2>4, <2>5
<1>5. CASE state'[c] # "good"
  <2>1. UNCHANGED <<live, context, configured>>
    BY <1>5 DEF Redis!Construct
  <2>2. RedisTypes'
    BY <1>1, <1>2, <2>1 DEF RedisTypes, Only
  <2>3. ContextsAccounted'
    BY <1>1, <1>2, <1>3, <1>5, <2>1
       DEF ContextsAccounted, Redis!ContextsAccounted, RedisTypes, Only
  <2>4. RightDatabase'
    BY <1>1, <1>2, <1>3, <1>5, <2>1
       DEF RightDatabase, Redis!RightDatabase, Redis!isConnected, RedisTypes, Only
  <2> QED
    BY <2>2, <2>3, <2>4
<1> QED
  BY <1>4, <1>5

LEMMA DestroyInv == ASSUME RedisInv, NEW o \in Object, Redis!Destroy(o) PROVE RedisInv'
<1> USE ConnAssumption DEF RedisInv
<1> DEFINE c == context[o]
<1>1. /\ o \in live /\ live' = live \ {o} /\ configured' = configured \ {o}
      /\ context' \in [Object -> Addr \cup {NoConn}]
      /\ \A p \in Object : context'[p] = IF p = o THEN NoConn ELSE context[p]
      /\ dbindex' \in [Object -> Database \cup {0}]
      /\ \A p \in Object \ {o} : dbindex'[p] = dbindex[p]
  BY DEF Redis!Destroy, RedisTypes
<1>2. Only(c) /\ (c \in Addr => state'[c] = "free") /\ c \in Addr \cup {NoConn}
  BY FreeOnly DEF Redis!Destroy, RedisTypes
<1>3. \A p \in live \ {o} : context[p] = NoConn \/ context[p] # c
  BY <1>1 DEF ContextsAccounted, Redis!ContextsAccounted
<1>4. RedisTypes'
  BY <1>1, <1>2 DEF RedisTypes, Only
<1>5. ContextsAccounted'
  BY <1>1, <1>2, <1>3 DEF ContextsAccounted, Redis!ContextsAccounted, RedisTypes, Only
<1>6. RightDatabase'
  BY <1>1, <1>2, <1>3 DEF RightDatabase, Redis!RightDatabase, Redis!isConnected, RedisTypes, Only
<1> QED
  BY <1>4, <1>5, <1>6

\* A context in use that keeps its database, or gets an error, or is marked.
LEMMA UseInv ==
  ASSUME RedisInv, NEW o \in live, NEW c \in Addr, context[o] = c, Only(c),
         state'[c] = "bad" \/ (state'[c] = state[c] /\ (c \in strayed' \/ (on'[c] = on[c] /\ c \notin strayed))),
         UNCHANGED <<live, context, dbindex, configured>>
  PROVE  RedisInv'
<1> USE ConnAssumption DEF RedisInv
<1>1. \A p \in live \ {o} : context[p] # c
  BY DEF ContextsAccounted, Redis!ContextsAccounted
<1>2. state[c] # "free" /\ state'[c] # "free"
  BY DEF ContextsAccounted, Redis!ContextsAccounted
<1>3. RedisTypes'
  BY DEF RedisTypes, Only
<1>4. ContextsAccounted'
  BY <1>1, <1>2 DEF ContextsAccounted, Redis!ContextsAccounted, RedisTypes, Only
<1>5. RightDatabase'
  BY <1>1, <1>2 DEF RightDatabase, Redis!RightDatabase, Redis!isConnected, RedisTypes, Only
<1> QED
  BY <1>3, <1>4, <1>5

LEMMA RedisStutters ==
  ASSUME RedisInv, UNCHANGED <<live, context, dbindex, configured, state, on, strayed>>
  PROVE  RedisInv'
BY DEF RedisInv, RedisTypes, ContextsAccounted, Redis!ContextsAccounted, RightDatabase,
       Redis!RightDatabase, Redis!isConnected

LEMMA CommandInv == ASSUME RedisInv, NEW o \in Object, Redis!Command(o) PROVE RedisInv'
<1>1. o \in live /\ UNCHANGED <<live, context, dbindex, configured>>
  BY DEF Redis!Command
<1>2. CASE UNCHANGED <<state, on, strayed>>
  BY <1>1, <1>2, RedisStutters
<1>3. CASE context[o] # NoConn /\ Redis!Becomes(context[o], "bad")
  <2>1. context[o] \in Addr
    BY <1>3 DEF RedisInv, RedisTypes
  <2>2. Only(context[o]) /\ state'[context[o]] = "bad"
    BY <1>3, <2>1, BecomesOnly DEF RedisInv
  <2> QED
    BY <1>1, <2>1, <2>2, UseInv
<1> QED
  BY <1>2, <1>3 DEF Redis!Command, Redis!Ask

LEMMA SelectInv ==
  ASSUME RedisInv, NEW o \in Object, NEW i \in Database, Redis!Select(o, i) PROVE RedisInv'
<1> DEFINE c == context[o]
<1>1. o \in live /\ c \in Addr /\ UNCHANGED <<live, context, dbindex, configured>>
  BY DEF Redis!Select, Redis!isConnected
<1>2. CASE Redis!Becomes(c, "bad")
  <2>1. Only(c) /\ state'[c] = "bad"
    BY <1>1, <1>2, BecomesOnly DEF RedisInv
  <2> QED
    BY <1>1, <2>1, UseInv
<1>3. ASSUME NEW raw \in Redis!Answers, on' = [on EXCEPT ![c] = Redis!Moved(raw, i, @)],
             strayed' = strayed \cup {c}, UNCHANGED state
      PROVE  RedisInv'
  <2>1. Only(c) /\ state'[c] = state[c] /\ c \in strayed'
    BY <1>1, <1>3 DEF RedisInv, RedisTypes, Only, Redis!Moved
  <2> QED
    BY <1>1, <2>1, UseInv
<1> QED
  BY <1>2, <1>3 DEF Redis!Select

\* The context that is overwritten is null or broken.
LEMMA CheckedCommandInv ==
  ASSUME RedisInv, NEW o \in Object, NEW c \in Addr \cup {NoConn}, Redis!CheckedCommand(o, c)
  PROVE  RedisInv'
<1> USE ConnAssumption DEF RedisInv
<1>1. /\ o \in live /\ UNCHANGED <<live, dbindex, configured>>
      /\ context' \in [Object -> Addr \cup {NoConn}]
      /\ \A p \in Object : context'[p] = IF p = o THEN c ELSE context[p]
      /\ context[o] \in Addr => state[context[o]] # "good"
  BY DEF Redis!CheckedCommand, Redis!isConnected, RedisTypes
<1>2. CASE c = NoConn
  <2>1. UNCHANGED <<state, on, strayed>>
    BY <1>2 DEF Redis!CheckedCommand
  <2>2. RedisTypes'
    BY <1>1, <2>1 DEF RedisTypes
  <2>3. ContextsAccounted'
    BY <1>1, <1>2, <2>1 DEF ContextsAccounted, Redis!ContextsAccounted, RedisTypes
  <2>4. RightDatabase'
    BY <1>1, <1>2, <2>1 DEF RightDatabase, Redis!RightDatabase, Redis!isConnected, RedisTypes
  <2> QED
    BY <2>2, <2>3, <2>4
<1>3. CASE c # NoConn
  <2>1. /\ c \in Addr /\ state[c] = "free" /\ Only(c) /\ state'[c] \in {"good", "bad"}
        /\ state'[c] = "good" /\ c \notin strayed' => on'[c] = dbindex'[o]
    <3>1. c \in Addr /\ state[c] = "free" /\ Redis!ConnectTo(o, c)
      BY <1>3 DEF Redis!CheckedCommand
    <3>2. dbindex'[o] \in Database \cup {0}
      BY <1>1 DEF RedisTypes
    <3> QED
      BY <3>1, <3>2, ConnectToOnly
  <2>2. \A p \in live : context[p] # c
    BY <2>1 DEF ContextsAccounted, Redis!ContextsAccounted
  <2>3. RedisTypes'
    BY <1>1, <2>1 DEF RedisTypes, Only
  <2>4. ContextsAccounted'
    BY <1>1, <2>1, <2>2 DEF ContextsAccounted, Redis!ContextsAccounted, RedisTypes, Only
  <2>5. RightDatabase'
    BY <1>1, <2>1, <2>2
       DEF RightDatabase, Redis!RightDatabase, Redis!isConnected, RedisTypes, Only
  <2> QED
    BY <2>3, <2>4, <2>5
<1> QED
  BY <1>2, <1>3

LEMMA MoveConstructInv ==
  ASSUME RedisInv, NEW o \in Object, NEW p \in Object, Redis!MoveConstruct(o, p)
  PROVE  RedisInv'
<1> USE ConnAssumption DEF RedisInv
<1>1. /\ o \notin live /\ p \in live /\ live' = live \cup {o}
      /\ UNCHANGED <<configured, state, on, strayed>>
      /\ context' \in [Object -> Addr \cup {NoConn}]
      /\ \A q \in Object : context'[q] = IF q = p THEN NoConn
                                         ELSE IF q = o THEN context[p] ELSE context[q]
      /\ dbindex' \in [Object -> Database \cup {0}]
      /\ \A q \in Object \ {o} : dbindex'[q] = dbindex[q]
  BY DEF Redis!MoveConstruct, Redis!MoveFrom, RedisTypes
<1>2. RedisTypes'
  BY <1>1 DEF RedisTypes
<1>3. ContextsAccounted'
  BY <1>1 DEF ContextsAccounted, Redis!ContextsAccounted, RedisTypes
<1>4. RightDatabase'
  BY <1>1 DEF RightDatabase, Redis!RightDatabase, Redis!isConnected, RedisTypes
<1> QED
  BY <1>2, <1>3, <1>4

LEMMA MoveAssignInv ==
  ASSUME RedisInv, NEW o \in Object, NEW p \in Object, Redis!MoveAssign(o, p)
  PROVE  RedisInv'
<1> USE ConnAssumption DEF RedisInv
<1> DEFINE c == context[o]
<1>1. /\ o \in live /\ p \in live \ {o} /\ UNCHANGED <<live, dbindex>>
      /\ configured' = configured \ {o}
      /\ context' \in [Object -> Addr \cup {NoConn}]
      /\ \A q \in Object : context'[q] = IF q = p THEN NoConn
                                         ELSE IF q = o THEN context[p] ELSE context[q]
  BY DEF Redis!MoveAssign, Redis!MoveFrom, RedisTypes
<1>2. Only(c) /\ (c \in Addr => state'[c] = "free") /\ c \in Addr \cup {NoConn}
  BY FreeOnly DEF Redis!MoveAssign, RedisTypes
<1>3. \A q \in live \ {o} : context[q] = NoConn \/ context[q] # c
  BY <1>1 DEF ContextsAccounted, Redis!ContextsAccounted
<1>4. RedisTypes'
  BY <1>1, <1>2 DEF RedisTypes, Only
<1>5. ContextsAccounted'
  BY <1>1, <1>2, <1>3 DEF ContextsAccounted, Redis!ContextsAccounted, RedisTypes, Only
<1>6. RightDatabase'
  BY <1>1, <1>2, <1>3
     DEF RightDatabase, Redis!RightDatabase, Redis!isConnected, RedisTypes, Only
<1> QED
  BY <1>4, <1>5, <1>6

LEMMA NextRedisInv == RedisInv /\ [Redis!Next]_(Redis!redis) => RedisInv'
<1> SUFFICES ASSUME RedisInv, [Redis!Next]_(Redis!redis) PROVE RedisInv'
  OBVIOUS
<1>1. CASE UNCHANGED Redis!redis
  BY <1>1, RedisStutters DEF Redis!redis
<1>2. ASSUME NEW o \in Object, NEW c \in Addr,
             Redis!Construct(o, c, 0, FALSE) \/ \E i \in Database : Redis!Construct(o, c, i, TRUE)
      PROVE  RedisInv'
  BY <1>2, ConstructInv
<1>3. ASSUME NEW o \in Object, NEW i \in Database, Redis!Select(o, i) PROVE RedisInv'
  BY <1>3, SelectInv
<1>4. ASSUME NEW o \in Object, Redis!Destroy(o) \/ Redis!Command(o) PROVE RedisInv'
  BY <1>4, DestroyInv, CommandInv
<1>5. ASSUME NEW o \in Object, NEW c \in Addr \cup {NoConn}, Redis!CheckedCommand(o, c)
      PROVE  RedisInv'
  BY <1>5, CheckedCommandInv
<1>6. ASSUME NEW o \in Object, NEW p \in Object, Redis!MoveConstruct(o, p) \/ Redis!MoveAssign(o, p)
      PROVE  RedisInv'
  BY <1>6, MoveConstructInv, MoveAssignInv
<1> QED
  BY <1>1, <1>2, <1>3, <1>4, <1>5, <1>6 DEF Redis!Next

LEMMA RedisInvariance == Redis!Spec => []RedisInv
BY InitRedisInv, NextRedisInv, PTL DEF Redis!Spec

\* RedisConn, for any objects, contexts and databases: through failed constructors,
\* replaced contexts and moves, no context has two owners, none is used after it was
\* freed, and only broken ones are left without an owner.
THEOREM NoContextLost == Redis!Spec => []ContextsAccounted
<1>1. RedisInv => ContextsAccounted
  BY DEF RedisInv
<1> QED
  BY <1>1, RedisInvariance, PTL

\* An object made from a RedisConfig talks to the database that it names, however often
\* it was connected again or lost its context to a move.
THEOREM KeepsDatabase == Redis!Spec => []RightDatabase
<1>1. RedisInv => RightDatabase
  BY DEF RedisInv
<1> QED
  BY <1>1, RedisInvariance, PTL

=============================================================================
