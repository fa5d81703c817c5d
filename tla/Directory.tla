------------------------------ MODULE Directory ------------------------------
(* What the utmp file promises: who is logged in on each line.  A session    *)
(* is shown from the moment it enters to the moment it leaves; one that dies *)
(* is shown until the line is used again.                                    *)
EXTENDS Integers

CONSTANTS Devices, Users, Pids, NULL

VARIABLES on,    \* the session on each line, or NULL
          who    \* who is shown there, and with which process

Init == on = [d \in Devices |-> NULL] /\ who = [d \in Devices |-> NULL]

OthersStay(d) == \A o \in Devices \ {d} : on'[o] = on[o] /\ who'[o] = who[o]

Enter(d) == /\ on[d] = NULL /\ on'[d] \in Users
            /\ who'[d] \in [user : {on'[d]}, pid : Pids \cup {0}]
            /\ OthersStay(d)

Leave(d) == on[d] # NULL /\ on'[d] = NULL /\ who'[d] = NULL /\ OthersStay(d)

Crash(d) == on[d] # NULL /\ on'[d] = NULL /\ who'[d] = who[d] /\ OthersStay(d)

Next == /\ \E d \in Devices : Enter(d) \/ Leave(d) \/ Crash(d)
        /\ on' \in [Devices -> Users \cup {NULL}]
        /\ DOMAIN who' = Devices

Spec == Init /\ [][Next]_<<on, who>>
==============================================================================
