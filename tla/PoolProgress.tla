---------------------------- MODULE PoolProgress ---------------------------
(* Progress of the buffer pool.  The number of calls is bounded, so that      *)
(* newcomers cannot keep taking the frame a caller waits for.                 *)
EXTENDS BufferPool

ASSUME CallsEnd == MaxCalls > 0

\* A goroutine that can run does run, also when it spins over pinned frames,
\* and a caller unpins the page it got.
BoundedSpec ==
  /\ PoolSpec
  /\ \A t \in Threads : WF_vars(GetPage(t)) /\ WF_vars(UnpinPage(t)) /\ WF_vars(Flush(t))

\* Every GetPage and every FlushAllPages call returns: latches are taken in an
\* order that cannot deadlock, a lookup that keeps meeting renamed frames gets
\* through, and two passes of the clock find any frame that stays unpinned.
CallReturns ==
  \A t \in Threads : (~At(t, "idle") /\ ~At(t, "using")) ~> (At(t, "idle") \/ At(t, "using"))
=============================================================================
