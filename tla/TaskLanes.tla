------------------------------ MODULE TaskLanes ------------------------------
(***************************************************************************)
(* What cncpp::TaskPool promises to the code that submits tasks to it:     *)
(* every worker thread is a FIFO lane, a task runs on exactly one lane and *)
(* at most once, and the tasks whose work() succeeded come back, in the    *)
(* order in which they finished, to the thread that calls runInMain().     *)
(*                                                                         *)
(* Nothing is said here of queues, batches, indexes or locks: TaskPool     *)
(* gives those and implements this module.                                 *)
(***************************************************************************)
EXTENDS Naturals, Sequences

CONSTANTS Task,    \* the tasks that may be submitted
          Lane,    \* one lane per worker thread
          NoTask   \* an idle lane

VARIABLES fresh,   \* tasks not accepted yet
          lane,    \* accepted tasks waiting, per lane, oldest first
          exec,    \* the task whose work() is running, per lane
          out,     \* finished tasks waiting for their done() callback
          called,  \* tasks whose done() was called, in that order
          up       \* FALSE once an exception has terminated the process

vars == <<fresh, lane, exec, out, called, up>>

Init == /\ fresh = Task
        /\ lane = [l \in Lane |-> <<>>]
        /\ exec = [l \in Lane |-> NoTask]
        /\ out = <<>>
        /\ called = <<>>
        /\ up = TRUE

Accept(l, k) == /\ up
                /\ k \in fresh
                /\ fresh' = fresh \ {k}
                /\ lane' = [lane EXCEPT ![l] = Append(@, k)]
                /\ UNCHANGED <<exec, out, called, up>>

Begin(l) == /\ up
            /\ exec[l] = NoTask
            /\ lane[l] # <<>>
            /\ exec' = [exec EXCEPT ![l] = Head(lane[l])]
            /\ lane' = [lane EXCEPT ![l] = Tail(@)]
            /\ UNCHANGED <<fresh, out, called, up>>

Complete(l) == /\ up
               /\ exec[l] # NoTask
               /\ out' = Append(out, exec[l])
               /\ exec' = [exec EXCEPT ![l] = NoTask]
               /\ UNCHANGED <<fresh, lane, called, up>>

Discard(l) == /\ up
              /\ exec[l] # NoTask
              /\ exec' = [exec EXCEPT ![l] = NoTask]
              /\ UNCHANGED <<fresh, lane, out, called, up>>

\* One done() call.  It normally uses up one finished task (n = 1); when it
\* throws, the callbacks of the n - 1 tasks behind it are never made.
Callback(n) == /\ up
               /\ out # <<>>
               /\ called' = Append(called, Head(out))
               /\ out' = SubSeq(out, n + 1, Len(out))
               /\ UNCHANGED <<fresh, lane, exec, up>>

Terminate == /\ up
             /\ up' = FALSE
             /\ UNCHANGED <<fresh, lane, exec, out, called>>

Next == \/ \E l \in Lane :
             \/ \E k \in Task : Accept(l, k)
             \/ Begin(l)
             \/ Complete(l)
             \/ Discard(l)
        \/ \E n \in 1 .. Len(out) : Callback(n)
        \/ Terminate

Spec == Init /\ [][Next]_vars

=============================================================================
