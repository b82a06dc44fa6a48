------------------------------- MODULE ToolPool -------------------------------
(***************************************************************************)
(* What the tool pool promises: every unit issued from the store is in one *)
(* place at a time - in the pool, with one person, broken or gone for good *)
(* - and moves only along the five edges below.  Module Tools, the tables  *)
(* and requests of the program, implements this.                           *)
(***************************************************************************)
EXTENDS Naturals, Sequences

CONSTANTS
    User,        \* the people who may hold a tool
    Initial      \* units in the store at first

VARIABLES
    store,       \* units still in the store
    place        \* per unit issued, where it is

pvars == <<store, place>>

PoolInit == store = Initial /\ place = <<>>

Issue(q) ==
    /\ q \in 1..store
    /\ store' = store - q
    /\ place' = place \o [k \in 1..q |-> "pool"]

Move(t, from, to) ==
    /\ place[t] \in from
    /\ place' = [place EXCEPT ![t] = to]
    /\ UNCHANGED store

PoolNext ==
    \/ \E q \in 1..store : Issue(q)
    \/ \E t \in DOMAIN place :
         \/ \E u \in User : Move(t, {"pool"}, u)
         \/ Move(t, User, "pool") \/ Move(t, User, "broken")
         \/ Move(t, {"broken"}, "pool") \/ Move(t, {"broken"}, "gone")

PoolSpec == PoolInit /\ [][PoolNext]_pvars
===============================================================================
