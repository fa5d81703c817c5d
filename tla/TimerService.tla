---------------------------- MODULE TimerService ----------------------------
(***************************************************************************)
(* What the timers of a process promise, with no table, list, mutex,       *)
(* helper or signal: an id names one timer, calls for one id leave the     *)
(* others alone, and a function is started only for a timer that is there, *)
(* or that is just being deleted.  A function stands for one timer: it is  *)
(* given to one timer_create only.                                         *)
(***************************************************************************)
EXTENDS Integers

CONSTANT Ids

VARIABLES timers,    \* the timers there are, by their ids
          leaving,   \* functions of the timers that timer_delete is removing
          gone,      \* functions of timers that are no more
          ran        \* the function started last, 0 when the helper looks anew

Kinds == {"signal", "thread"}

Timers == [kind : Kinds, fn : Nat \ {0}, armed : BOOLEAN]

Named(kinds) == {i \in DOMAIN timers : timers[i].kind \in kinds}

Functions(kinds) == {timers[i].fn : i \in Named(kinds)}

Init == DOMAIN timers = {} /\ leaving = {} /\ gone = {} /\ ran = 0

OthersStay(i) == \A j \in DOMAIN timers \ {i} : timers'[j] = timers[j]

(* timer_create gives an id that is free to a timer that is new. *)
Create(i) ==
  /\ i \notin DOMAIN timers /\ DOMAIN timers' = DOMAIN timers \cup {i}
  /\ timers'[i] \in Timers /\ ~timers'[i].armed
  /\ timers'[i].fn \notin Functions(Kinds) \cup leaving \cup gone
  /\ OthersStay(i) /\ UNCHANGED <<leaving, gone, ran>>

(* timer_settime, and the expiry of a timer. *)
Arm(i) ==
  /\ i \in DOMAIN timers /\ DOMAIN timers' = DOMAIN timers
  /\ timers'[i].kind = timers[i].kind /\ timers'[i].fn = timers[i].fn
  /\ timers'[i].armed \in BOOLEAN
  /\ OthersStay(i) /\ UNCHANGED <<leaving, gone, ran>>

(* timer_delete is called: a function may still be started until it leaves. *)
Delete(i) ==
  /\ i \in DOMAIN timers /\ DOMAIN timers' = DOMAIN timers \ {i}
  /\ leaving' = leaving \cup (IF timers[i].kind = "thread" THEN {timers[i].fn} ELSE {})
  /\ OthersStay(i) /\ UNCHANGED <<gone, ran>>

Leave == /\ \E f \in leaving : leaving' = leaving \ {f}
         /\ UNCHANGED <<timers, gone, ran>>

(* timer_delete returns, or a timer_create that has failed. *)
Retire == /\ \E f \in gone' : /\ f \notin Functions(Kinds) \cup leaving
                              /\ gone' = gone \cup {f}
          /\ UNCHANGED <<timers, leaving, ran>>

Run == /\ ran' \in Functions({"thread"}) \cup leaving
       /\ UNCHANGED <<timers, leaving, gone>>

Rest == ran' = 0 /\ UNCHANGED <<timers, leaving, gone>>

(* The child of a fork has no timers, and never starts a function of its     *)
(* parent's.                                                                 *)
Fork == /\ DOMAIN timers' = {} /\ leaving' = {}
        /\ gone \cup Functions(Kinds) \cup leaving \subseteq gone'
        /\ UNCHANGED ran

Next == \/ \E i \in Ids : Create(i) \/ Arm(i) \/ Delete(i)
        \/ Leave \/ Retire \/ Run \/ Rest \/ Fork

Spec == Init /\ [][Next]_<<timers, leaving, gone, ran>>
=============================================================================
