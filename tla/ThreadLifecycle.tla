--------------------------- MODULE ThreadLifecycle ---------------------------
(***************************************************************************)
(* Thread (src/Base/Thread.cpp): a std::thread that calls run() until      *)
(* stopped_ is set.                                                        *)
(*                                                                         *)
(* start(), stop(), join() and the destructor are called by an owner, one  *)
(* after the other.  start() creates a std::thread only if there never was *)
(* one, and otherwise clears stopped_ alone: whether the old thread goes   *)
(* on depends on whether it has left its loop already.                     *)
(***************************************************************************)

VARIABLES stopped,   \* stopped_
          thread,    \* thrd_ptr_: "none", "joinable" or "joined"
          loop,      \* the std::thread: "none", about to "test", in "run", or has "left"
          owner,     \* the owner: "idle", "joining", or "aborted" with the whole process
          restarted  \* history: start() was called on a thread that was told to stop

lifecycle == <<stopped, thread, loop, owner, restarted>>

Init == /\ stopped = TRUE /\ thread = "none" /\ loop = "none"
        /\ owner = "idle" /\ restarted = FALSE

Start ==
    /\ owner = "idle" /\ stopped' = FALSE
    /\ IF thread = "none"
       THEN thread' = "joinable" /\ loop' = "test" /\ UNCHANGED restarted
       ELSE restarted' = (restarted \/ stopped) /\ UNCHANGED <<thread, loop>>
    /\ UNCHANGED owner

Stop == /\ owner = "idle" /\ stopped' = TRUE
        /\ UNCHANGED <<thread, loop, owner, restarted>>

\* join(): nothing to do, or a wait for the end of the thread.
Join ==
    /\ owner = "idle" /\ thread = "joinable" /\ owner' = "joining"
    /\ UNCHANGED <<stopped, thread, loop, restarted>>

Joined == /\ owner = "joining" /\ loop = "left"
          /\ owner' = "idle" /\ thread' = "joined"
          /\ UNCHANGED <<stopped, loop, restarted>>

\* The destructor destroys thrd_ptr_: a std::thread that is joinable ends the process.
\* Otherwise the owner makes a new Thread.
Destroy ==
    /\ owner = "idle"
    /\ IF thread = "joinable"
       THEN owner' = "aborted" /\ UNCHANGED <<stopped, thread, loop, restarted>>
       ELSE /\ stopped' = TRUE /\ thread' = "none" /\ loop' = "none"
            /\ restarted' = FALSE /\ UNCHANGED owner

\* Mutant: thrdloop() does not look at isStop().
TestBlind == loop = "test" /\ loop' = "run"

\* The condition of the loop of thrdloop().
Test == loop = "test" /\ loop' = (IF stopped THEN "left" ELSE "run")

\* run() returns, and the thread has slept.
RunOnce == loop = "run" /\ loop' = "test"

Loop == /\ owner # "aborted" /\ (Test \/ RunOnce)
        /\ UNCHANGED <<stopped, thread, owner, restarted>>

Aborted == owner = "aborted" /\ UNCHANGED lifecycle

Next == Start \/ Stop \/ Join \/ Joined \/ Destroy \/ Loop \/ Aborted

Spec == Init /\ [][Next]_lifecycle

\* The thread runs, its run() returns, and a join() that can return does.
Fairness == WF_lifecycle(Loop) /\ WF_lifecycle(Joined)

-----------------------------------------------------------------------------
(* Properties *)

Looping == loop \in {"test", "run"}

\* A thread that was started runs as long as nobody told it to stop in between: only a
\* start() after a stop() may leave it dead.  And only a joinable thread runs, so that none
\* calls run() of an object that is gone.
RunsUntilStopped == /\ ~stopped /\ ~restarted => Looping
                    /\ Looping => thread = "joinable"

\* After stop() the thread leaves its loop unless it is started again before, a join()
\* returns, and until then the thread runs.
ThreadStops ==
    /\ stopped /\ Looping ~> loop = "left" \/ ~stopped \/ owner = "aborted"
    /\ owner = "joining" /\ stopped ~> owner = "idle"
    /\ []RunsUntilStopped

=============================================================================
