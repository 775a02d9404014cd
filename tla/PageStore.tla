----------------------------- MODULE PageStore -----------------------------
(***************************************************************************)
(* What the buffer pool promises its clients: pages that keep what was     *)
(* last written to them, and that are there while they are pinned.         *)
(* Caching, eviction and write-back do not show.                           *)
(***************************************************************************)
CONSTANTS Threads, Pages, NoPage, Values

VARIABLES
  store,  \* store[page]: the bytes last written to page
  pin     \* pin[thread]: the page the thread has pinned, or NoPage

StoreInit ==
  /\ store \in [Pages -> Values]
  /\ pin = [t \in Threads |-> NoPage]

Pin(t, page) ==
  /\ pin[t] = NoPage
  /\ pin' = [pin EXCEPT ![t] = page]
  /\ UNCHANGED store

Write(t, value) ==
  /\ pin[t] # NoPage
  /\ store' = [store EXCEPT ![pin[t]] = value]
  /\ UNCHANGED pin

Unpin(t) ==
  /\ pin' = [pin EXCEPT ![t] = NoPage]
  /\ UNCHANGED store

StoreNext ==
  \E t \in Threads :
    \/ \E page \in Pages : Pin(t, page)
    \/ \E value \in Values : Write(t, value)
    \/ Unpin(t)

StoreSpec == StoreInit /\ [][StoreNext]_<<store, pin>>
=============================================================================
