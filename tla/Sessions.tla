------------------------------ MODULE Sessions ------------------------------
(***************************************************************************)
(* Sessions on pseudo terminals (getpt.c, ptsname.c, utmp-compat/): each   *)
(* looks for a free terminal, finds the name of its other side, enters     *)
(* itself into the utmp file, and later leaves the file and the terminal,  *)
(* or dies without doing so.  Meanwhile init and others write records of   *)
(* their own, and a reader looks for who is on a line.                     *)
(*                                                                         *)
(* A session is named after its user.  The kernel gives a terminal to one  *)
(* process at a time; the generic part of the library locks the file and   *)
(* reads and writes one record at a time, and records never move.  The     *)
(* controlling terminal, of which openpt does not check whether it is set, *)
(* is left out.                                                            *)
(***************************************************************************)
EXTENDS Utmp, Sequences, FiniteSetsExt

CONSTANTS Order,        \* the names of terminals in the order they are tried
          Devices,      \* the terminals there are
          NoSlave,      \* those whose other side is missing
          Pid,          \* [Users -> Pids]
          Foreign,      \* the records others write
          MaxForeign,   \* bound: how many
          Watched       \* bound: the lines the reader looks for

ASSUME SessionsConstants == /\ Order \in Seq(Names) /\ Devices \subseteq Names
                            /\ NoSlave \subseteq Devices /\ Pid \in [Users -> Pids]
                            /\ Foreign \subseteq Utmpx /\ MaxForeign \in Nat
                            /\ Watched \subseteq Devices

VARIABLES pc, at,       \* per session: where it is; the name it tries next
          pty,          \* the terminal it has open
          busy,         \* history: the terminals it could not have had at some
                        \* moment of its search
          file,         \* the utmp file
          foreign,      \* records written by others
          look,         \* the reader's getutxline
          overrun       \* a record was written past its ut_host

vars == <<pc, at, pty, busy, file, foreign, look, overrun>>

Taken == {pty[s] : s \in Users} \ {NULL}
LoggedIn(d) == {s \in Users : pc[s] = "in" /\ pty[s] = d}

(* The session on a terminal. *)
On(d) == IF LoggedIn(d) = {} THEN NULL ELSE CHOOSE s \in Users : s \in LoggedIn(d)

(* steady is the session that has been on the line since the reader began,   *)
(* or NULL.                                                                  *)
Idle == [line |-> NULL, pos |-> 0, steady |-> NULL, found |-> NULL]

Init == /\ pc = [s \in Users |-> "out"] /\ at = [s \in Users |-> 0]
        /\ pty = [s \in Users |-> NULL] /\ busy = [s \in Users |-> {}]
        /\ file = <<>> /\ foreign = 0 /\ look = Idle /\ overrun = FALSE

Goto(s, l) == pc' = [pc EXCEPT ![s] = l]
Books == <<file, foreign, look, overrun>>

-----------------------------------------------------------------------------
(* __posix_openpt *)
OpenPt(s) ==
  /\ pc[s] \in {"out", "failed"}
  /\ at' = [at EXCEPT ![s] = 1] /\ busy' = [busy EXCEPT ![s] = Taken]
  /\ Goto(s, "search")
  /\ UNCHANGED <<pty, Books>>

(* Mutant: a terminal that is in use ends the search. *)
MutTryNext(s) ==
  /\ pc[s] = "search" /\ at[s] <= Len(Order)
  /\ Order[at[s]] \in Taken
  /\ Goto(s, "failed")
  /\ UNCHANGED <<at, pty, busy, Books>>

TryNext(s) ==
  /\ pc[s] = "search" /\ at[s] <= Len(Order)
  /\ Order[at[s]] \in Taken
  /\ at' = [at EXCEPT ![s] = @ + 1]
  /\ UNCHANGED <<pc, pty, busy, Books>>

(* Mutant: a failure of open other than EBUSY counts as success. *)
MutOpened(s) ==
  /\ pc[s] = "search" /\ at[s] <= Len(Order)
  /\ Order[at[s]] \notin Taken
  /\ pty' = [pty EXCEPT ![s] = Order[at[s]]]
  /\ busy' = [o \in Users |-> IF o = s THEN {}
                             ELSE IF pc[o] = "search" THEN busy[o] \cup {Order[at[s]]}
                             ELSE busy[o]]
  /\ at' = [at EXCEPT ![s] = 0]
  /\ Goto(s, "open")
  /\ UNCHANGED Books

Opened(s) ==
  /\ pc[s] = "search" /\ at[s] <= Len(Order)
  /\ Order[at[s]] \in Devices \ Taken
  /\ pty' = [pty EXCEPT ![s] = Order[at[s]]]
  /\ busy' = [o \in Users |-> IF o = s THEN {}
                             ELSE IF pc[o] = "search" THEN busy[o] \cup {Order[at[s]]}
                             ELSE busy[o]]
  /\ at' = [at EXCEPT ![s] = 0]
  /\ Goto(s, "open")
  /\ UNCHANGED Books

OpenFails(s) ==
  /\ pc[s] = "search"
  /\ at[s] > Len(Order) \/ Order[at[s]] \notin Devices
  /\ Goto(s, "failed")
  /\ UNCHANGED <<at, pty, busy, Books>>

(* ptsname_r: the session gives its terminal up when there is no name.      *)
PtsName(s) ==
  /\ pc[s] = "open"
  /\ Goto(s, IF pty[s] \in NoSlave THEN "closing" ELSE "named")
  /\ UNCHANGED <<at, pty, busy, Books>>

-----------------------------------------------------------------------------
(* __pututline, and pututxline around it. *)
Put(u) == LET Same == {i \in DOMAIN file : UtmpEqual(file[i], u)}
          IN  IF Same = {} THEN Append(file, u) ELSE [file EXCEPT ![Min(Same)] = u]

Record(type, s, host) ==
  [type |-> type, line |-> Line(TRUE, pty[s]), id |-> Short[pty[s]],
   user |-> IF type = "USER_PROCESS" THEN s ELSE "", host |-> host, pid |-> Pid[s]]

Away(s) == look' = [look EXCEPT !.steady = IF @ = s THEN NULL ELSE @]
Leaves(s) == /\ Goto(s, "out") /\ pty' = [pty EXCEPT ![s] = NULL]
             /\ at' = [at EXCEPT ![s] = 0] /\ busy' = [busy EXCEPT ![s] = {}]

Login(s) ==
  /\ pc[s] = "named"
  /\ \E h \in Hosts : \E w \in ToUtmp(Record("USER_PROCESS", s, h)) :
       \/ /\ w.end <= UT_HOSTSIZE
          /\ file' = Put(w.utmp)
          /\ Goto(s, "in")
          /\ UNCHANGED <<at, busy, pty, overrun>>
       \/ /\ w.end > UT_HOSTSIZE
          /\ overrun' = TRUE
          /\ Leaves(s)
          /\ UNCHANGED file
  /\ UNCHANGED <<foreign, look>>

Logout(s) ==
  /\ pc[s] = "in"
  /\ \E w \in ToUtmp(Record("DEAD_PROCESS", s, 0)) : file' = Put(w.utmp)
  /\ Goto(s, "closing")
  /\ Away(s)
  /\ UNCHANGED <<at, pty, busy, foreign, overrun>>

Close(s) ==
  /\ pc[s] = "closing"
  /\ Leaves(s)
  /\ UNCHANGED Books

(* A crash: the kernel closes the terminal, the file is left as it is. *)
Die(s) ==
  /\ pc[s] # "out"
  /\ Leaves(s)
  /\ Away(s)
  /\ UNCHANGED <<file, foreign, overrun>>

ForeignPut(ux) ==
  /\ foreign < MaxForeign
  /\ \E w \in ToUtmp(ux) : w.end <= UT_HOSTSIZE /\ file' = Put(w.utmp)
  /\ foreign' = foreign + 1
  /\ UNCHANGED <<pc, at, pty, busy, look, overrun>>

-----------------------------------------------------------------------------
(* setutxent and getutxline *)
LookUp(d) ==
  /\ look.line = NULL
  /\ look' = [line |-> d, pos |-> 1, found |-> NULL,
              steady |-> On(d)]
  /\ UNCHANGED <<pc, at, pty, busy, file, foreign, overrun>>

(* __getutxent leaves out what is not a utmpx record. *)
Matches(u) == /\ TypeOf(u) \in {"LOGIN_PROCESS", "USER_PROCESS"}
              /\ ToUtmpx(u).line = Line(TRUE, look.line)

GetUtxEnt ==
  /\ look.line # NULL /\ look.found = NULL /\ look.pos <= Len(file)
  /\ look' = IF Matches(file[look.pos]) THEN [look EXCEPT !.found = ToUtmpx(file[look.pos])]
             ELSE [look EXCEPT !.pos = @ + 1]
  /\ UNCHANGED <<pc, at, pty, busy, file, foreign, overrun>>

LookEnded == look.line # NULL /\ (look.found # NULL \/ look.pos > Len(file))

LookReturns ==
  /\ LookEnded
  /\ look' = Idle
  /\ UNCHANGED <<pc, at, pty, busy, file, foreign, overrun>>

-----------------------------------------------------------------------------
Session(s) == \/ OpenPt(s) \/ TryNext(s) \/ Opened(s) \/ OpenFails(s) \/ PtsName(s)
              \/ Login(s) \/ Logout(s) \/ Close(s) \/ Die(s)

(* Nothing is said of what comes after writing beyond a record; a session    *)
(* that it ends is one that dies.                                            *)
Next == /\ ~overrun
        /\ \/ \E s \in Users : Session(s)
           \/ \E ux \in Foreign : ForeignPut(ux)
           \/ \E d \in Watched : LookUp(d)
           \/ GetUtxEnt \/ LookReturns

Spec == Init /\ [][Next]_vars

-----------------------------------------------------------------------------
(* Every variable has its type. *)
TypeOK ==
  /\ pc \in [Users -> {"out", "search", "failed", "open", "named", "in", "closing"}]
  /\ at \in [Users -> 0 .. Len(Order) + 1]
  /\ pty \in [Users -> Devices \cup {NULL}] /\ busy \in [Users -> SUBSET Devices]
  /\ file \in Seq(Utmp) /\ foreign \in 0 .. MaxForeign /\ overrun \in BOOLEAN
  /\ look.line \in Devices \cup {NULL} /\ look.steady \in Users \cup {NULL}
  /\ look.found \in Utmpx \cup {NULL} /\ look.pos \in Nat

(* utmp-equal.h: the file has at most one record of a process for a line, so *)
(* it does not grow with the sessions and a line is not said to be used by   *)
(* two of them.                                                              *)
OneRecordPerLine ==
  \A i, j \in DOMAIN file :
    {TypeOf(file[i]), TypeOf(file[j])} \subseteq ProcessTypes /\ file[i].line = file[j].line => i = j

(* getpt.c 55-77: openpt says there is no terminal only if each one it       *)
(* could come to was in use at some moment of the search.                    *)
Reachable == {Order[i] : i \in {j \in DOMAIN Order : \A k \in 1 .. j : Order[k] \in Devices}}
FailsOnlyWhenBusy == \A s \in Users : pc[s] = "failed" => Reachable \subseteq busy[s]

(* What is kept of the pid of a session: nothing when the host leaves no     *)
(* room for it to be found again.                                            *)
Kept(s, ux) == IF ux.host < UT_HOSTSIZE - 2 /\ Digits(Pid[s]) <= UT_HOSTSIZE - ux.host - 1
               THEN Pid[s] ELSE 0

(* getutxline.c: a lookup finds the session that is on the line from its     *)
(* beginning to its end, whatever is written meanwhile, with that session's  *)
(* name and process, and not one that was there before.                      *)
LookupsFindTheSession ==
  LookEnded /\ look.steady # NULL =>
    /\ look.found # NULL
    /\ look.found.user = look.steady
    /\ look.found.pid = Kept(look.steady, look.found)

(* utmpconv.c 216: the pid is put behind the host only where there is room.  *)
HiddenPidsFit == ~overrun

(* The file, as getutxline reads it, shows every session that is on a line   *)
(* from its login to its logout, and nothing else happens to the line.       *)
Entry(d) ==
  LET There == {i \in DOMAIN file : file[i].line = Line(TRUE, d)}
      Shown(ux) == IF ux.type \in {"LOGIN_PROCESS", "USER_PROCESS"}
                   THEN [user |-> ux.user, pid |-> ux.pid] ELSE NULL
  IN  IF There = {} THEN NULL ELSE Shown(ToUtmpx(file[Min(There)]))

D == INSTANCE Directory WITH on <- [d \in Devices |-> On(d)],
                             who <- [d \in Devices |-> Entry(d)]
ImplementsDirectory == D!Spec
============================================================================
