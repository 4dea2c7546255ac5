--------------------------- MODULE NotificationHub ---------------------------
(***************************************************************************)
(* What the change-notification path promises its subscribers (spec 4.4,  *)
(* 4.5 and 5), independent of collectors, queues, compression and timers.  *)
(*                                                                         *)
(* `store` is the committed state of each collection as a subscriber would *)
(* fetch it, `view` each subscriber's copy, and `owed` the collections a   *)
(* subscriber has still to be told about.  A commit that changes a set of  *)
(* collections owes every subscriber a notice of each of them; a notice    *)
(* makes the subscriber fetch the collection.  A notice may be repeated     *)
(* (Redeliver) while a later one of the same collection is still owed, but *)
(* no owed collection is forgotten, and every one is eventually delivered.  *)
(***************************************************************************)
CONSTANTS Subscribers, Cols, States

VARIABLES store, view, owed

avars == <<store, view, owed>>

TypeOK ==
    /\ store \in [Cols -> States]
    /\ view \in [Subscribers -> [Cols -> States]]
    /\ owed \in [Subscribers -> SUBSET Cols]

Init ==
    /\ store \in [Cols -> States]
    /\ view = [s \in Subscribers |-> store]
    /\ owed = [s \in Subscribers |-> {}]

\* A commit changes collections of C only and owes everyone a notice of C.
Publish(C) ==
    /\ store' \in [Cols -> States]
    /\ \A c \in Cols \ C : store'[c] = store[c]
    /\ owed' = [s \in Subscribers |-> owed[s] \cup C]
    /\ UNCHANGED view

\* The last owed notice of c reaches s, which fetches c.
Deliver(s, c) ==
    /\ c \in owed[s]
    /\ view' = [view EXCEPT ![s][c] = store[c]]
    /\ owed' = [owed EXCEPT ![s] = @ \ {c}]
    /\ UNCHANGED store

\* A notice of c reaches s while another notice of c is still on its way.
Redeliver(s, c) ==
    /\ c \in owed[s]
    /\ view' = [view EXCEPT ![s][c] = store[c]]
    /\ UNCHANGED <<store, owed>>

Next ==
    \/ \E C \in SUBSET Cols : C # {} /\ Publish(C)
    \/ \E s \in Subscribers, c \in Cols : Deliver(s, c) \/ Redeliver(s, c)

Spec ==
    /\ Init /\ [][Next]_avars
    /\ \A s \in Subscribers, c \in Cols : WF_avars(Deliver(s, c))

=============================================================================
