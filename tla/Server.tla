------------------------------- MODULE Server -------------------------------
(***************************************************************************)
(* server1 (src/Chat/server1) with what it is made of: the io_contexts of  *)
(* IoConnectPool (src/net/IoContextPool.cpp), TcpAccepter                  *)
(* (src/net/Accepter.cpp) and AsioTimer (src/net/AsioTimer.h), and clients *)
(* (AsyncClient, src/net/TcpClient.cpp) that run on the same contexts.     *)
(*                                                                         *)
(* Each context is run by one thread, so the handlers of one context run   *)
(* one after another; the acceptor and the timer are on the first context  *)
(* that get_io_context() gave out.  boost::asio is external: an operation  *)
(* that was started completes some time, with an error or without, and     *)
(* its handler is then executed by its context.                            *)
(***************************************************************************)
EXTENDS Integers, FiniteSets

CONSTANTS PoolSizes,    \* what init() is called with
          IndexRange    \* the values of next_io_context_, 2^16 in the code

VARIABLES phase,     \* main(): "init", "run", "running", "returned"; or the process is
                     \* "undefined", past the end of io_contexts_, or "ended" by an exception
          contexts,  \* io_contexts_, by index
          index,     \* next_io_context_
          home,      \* the context of the acceptor and the timer
          callback,  \* accept_callback_ is set, to one that calls handleAcpErr()
          open,      \* the acceptor is open
          accept,    \* async_accept: "none", "pending", or done with "ok" or "error"
          timer,     \* async_wait: "none", "waiting" or "fired"
          client,    \* async_connect: "none", "pending" or "done"
          alive,     \* the contexts in run(), each with its thread
          work,      \* the contexts with a work guard
          stopped,   \* the contexts that were stopped
          ahead      \* history: the contexts that were given out once more than the others

vars == <<phase, contexts, index, home, callback, open, accept, timer, client,
          alive, work, stopped, ahead>>

Init == /\ phase = "init" /\ contexts = {} /\ index \in 0 .. IndexRange - 1
        /\ home = 0 /\ callback \in BOOLEAN /\ open = FALSE
        /\ accept = "none" /\ timer = "none" /\ client = "none"
        /\ alive = {} /\ work = {} /\ stopped = {} /\ ahead = {}

\* Mutant: the index starts again one too early.
AdvanceEarly == index' = IF index + 1 >= Cardinality(contexts') - 1 THEN 0 ELSE index + 1

\* ++next_io_context_, which starts again at the size only.
Advance == index' = IF index + 1 = Cardinality(contexts') THEN 0 ELSE (index + 1) % IndexRange

\* get_io_context(), of the contexts that there are after the step.
Draw == /\ Advance
        /\ ahead' = IF ahead \cup {index} = contexts' THEN {} ELSE ahead \cup {index}

\* Server::init(), with IoConnectPool::init(), which throws for a size of 0 and otherwise
\* makes the contexts and a work guard for each.  Then a context is drawn, past the end of
\* io_contexts_ if the index is, and the acceptor is made, which throws when it cannot bind
\* or listen.  Nobody catches what init() throws.
ServerInit(n) ==
    /\ phase = "init" /\ contexts' = 0 .. n - 1
    /\ IF n = 0 THEN phase' = "ended" /\ UNCHANGED <<index, home, open, work, ahead>>
       ELSE /\ phase' \in IF index \in contexts' THEN {"run", "ended"} ELSE {"undefined"}
            /\ home' = index /\ Draw
            /\ open' = (phase' # "ended") /\ work' = contexts'
    /\ UNCHANGED <<callback, accept, timer, client, alive, stopped>>

\* startAccept(): a socket on the next context, and async_accept(), which fails at once
\* when the acceptor is closed.
StartAccept == Draw /\ accept' = IF open' THEN "pending" ELSE "error"

\* Server::run() and IoConnectPool::run(), up to its join().
Run ==
    /\ phase = "run" /\ phase' = "running"
    /\ UNCHANGED <<contexts, open>> /\ StartAccept
    /\ timer' = "waiting" /\ alive' = contexts
    /\ UNCHANGED <<home, callback, client, work, stopped>>

\* A client connects, or accepting fails.
Complete(result) ==
    /\ accept = "pending" /\ accept' = result
    /\ UNCHANGED <<phase, contexts, index, home, callback, open, timer, client,
                   alive, work, stopped, ahead>>

Serving(c) == phase = "running" /\ c \in alive

\* Mutant: the handler accepts again only after a success, and sees an error again and again.
HandlerUnlessError ==
    /\ open' = (open /\ ~(callback /\ accept = "error"))
    /\ IF accept = "ok" THEN StartAccept ELSE UNCHANGED <<accept, index, ahead>>

\* The handler: the callback, if there is one, which closes the acceptor after an error by
\* handleAcpErr() and stopAccept(); then startAccept(), whatever happened.
Handler ==
    /\ open' = (open /\ ~(callback /\ accept = "error"))
    /\ StartAccept

AcceptHandler ==
    /\ Serving(home) /\ accept \in {"ok", "error"}
    /\ UNCHANGED contexts /\ Handler
    /\ UNCHANGED <<phase, home, callback, timer, client, alive, work, stopped>>

\* stopAccept() by another handler of the acceptor's context.
StopAccept ==
    /\ Serving(home) /\ open /\ open' = FALSE
    /\ accept' = IF accept = "pending" THEN "error" ELSE accept
    /\ UNCHANGED <<phase, contexts, index, home, callback, timer, client, alive, work,
                   stopped, ahead>>

Expire ==
    /\ timer = "waiting" /\ timer' = "fired"
    /\ UNCHANGED <<phase, contexts, index, home, callback, open, accept, client, alive,
                   work, stopped, ahead>>

\* The handler of AsioTimer::start(): timerCallBack(), then start() again.
TimerHandler ==
    /\ Serving(home) /\ timer = "fired" /\ timer' = "waiting"
    /\ UNCHANGED <<phase, contexts, index, home, callback, open, accept, client, alive,
                   work, stopped, ahead>>

\* AsyncClient::connect() with its resolve(), which throws on the caller, for a client on
\* the acceptor's context; async_connect().
Connect ==
    /\ Serving(home) /\ client = "none"
    /\ \/ client' = "pending" /\ UNCHANGED phase
       \/ phase' = "ended" /\ UNCHANGED client
    /\ UNCHANGED <<contexts, index, home, callback, open, accept, timer, alive, work,
                   stopped, ahead>>

\* Refused, or connected: onConnected() calls start() of a session that no shared_ptr
\* owns: shared_from_this() throws, out of the handler and the thread.
ConnectHandler ==
    /\ Serving(home) /\ client = "pending" /\ client' = "done"
    /\ phase' \in {"running", "ended"}
    /\ UNCHANGED <<contexts, index, home, callback, open, accept, timer, alive, work,
                   stopped, ahead>>

\* IoConnectPool::stop(), one context after the other.
Stop ==
    /\ phase \in {"run", "running"} /\ stopped # contexts
    /\ stopped' = stopped \cup {Cardinality(stopped)}
    /\ UNCHANGED <<phase, contexts, index, home, callback, open, accept, timer, client,
                   alive, work, ahead>>

\* run() of a context returns when it was stopped, or has neither work nor operations.
ContextReturns(c) ==
    /\ Serving(c) /\ (c \in stopped \/ (c \notin work /\ c # home))
    /\ alive' = alive \ {c}
    /\ UNCHANGED <<phase, contexts, index, home, callback, open, accept, timer, client,
                   work, stopped, ahead>>

\* IoConnectPool::run() has joined its threads.
RunReturns ==
    /\ phase = "running" /\ alive = {} /\ phase' = "returned"
    /\ UNCHANGED <<contexts, index, home, callback, open, accept, timer, client, alive,
                   work, stopped, ahead>>

Over == phase \in {"undefined", "ended", "returned"} /\ UNCHANGED vars

Next == \/ \E n \in PoolSizes : ServerInit(n)
        \/ Run
        \/ \E result \in {"ok", "error"} : Complete(result)
        \/ AcceptHandler \/ StopAccept
        \/ Expire \/ TimerHandler
        \/ Connect \/ ConnectHandler
        \/ Stop \/ RunReturns
        \/ \E c \in contexts : ContextReturns(c)
        \/ Over

Spec == Init /\ [][Next]_vars

\* The threads of the contexts execute what is ready, time passes, and stop() goes on.
Fairness == /\ WF_vars(AcceptHandler) /\ WF_vars(TimerHandler) /\ WF_vars(Expire)
            /\ WF_vars(Stop /\ stopped # {}) /\ WF_vars(RunReturns)
            /\ \A c \in 0 .. IndexRange : WF_vars(c \in contexts /\ ContextReturns(c))

-----------------------------------------------------------------------------
(* Properties *)

Stopping == stopped # {} \/ phase # "running"

\* The contexts get the same share, within one, of the sockets: whatever value the index
\* had when the object was made, if it was one of io_contexts_ at all.
EvenSpread ==
    phase \in {"run", "running"} => index \in contexts \ ahead

\* Until stop() is called all contexts run, and neither the timer nor the acceptor is ever
\* without an operation under way or a handler to come, which starts the next.
NothingForgotten == Stopping \/ (alive = contexts /\ timer # "none" /\ accept # "none")

\* With that the timer goes off again and again, also when the handler of a closed acceptor
\* never stops calling startAccept(), and an acceptor that is open is ready for the next
\* client again, whatever happened to the last.  After stop() run() returns.
ServesUntilStopped ==
    /\ []NothingForgotten
    /\ [](phase = "running" => []<>(Stopping \/ timer = "fired"))
    /\ [](phase = "running" => []<>(Stopping \/ ~open \/ accept = "pending"))
    /\ stopped # {} /\ phase = "running" ~> phase \in {"returned", "ended"}

=============================================================================
