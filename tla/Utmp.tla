-------------------------------- MODULE Utmp --------------------------------
(***************************************************************************)
(* The records of the utmp file, struct utmp, in the place of those of     *)
(* programs, struct utmpx (utmp-compat/): the conversions between the two, *)
(* and when a new record replaces an old one.                              *)
(*                                                                         *)
(* A line is a name behind "tty" or by itself, an identifier the first     *)
(* four characters of a name, a host its length.  Times, exit status and   *)
(* addresses are left out.                                                 *)
(***************************************************************************)
EXTENDS Integers, FiniteSets

CONSTANTS Names,        \* what is behind "tty", or the line of something else
          Short,        \* Short[n]: the first four characters of n
          Users, Pids,
          Hosts,        \* the lengths of the names of hosts
          SIZE_T,       \* one more than the largest size_t
          Beyond,       \* how far behind ut_host the next NUL may be
          NULL

UT_HOSTSIZE == 16
Specials == {"~", "{", "|"}
Reserved == {"", "runlevel", "reboot", "acct", "date", "INIT", "LOGIN"}

ProcessTypes == {"INIT_PROCESS", "LOGIN_PROCESS", "USER_PROCESS", "DEAD_PROCESS"}
SystemTypes == {"RUN_LVL", "BOOT_TIME", "NEW_TIME", "OLD_TIME", "ACCOUNTING"}
Types == {"EMPTY"} \cup ProcessTypes \cup SystemTypes

Line(tty, n) == [tty |-> tty, name |-> n]
NoLine == Line(FALSE, "")
Lines == [tty : BOOLEAN, name : Names] \cup {Line(FALSE, n) : n \in Specials \cup {""}}

Utmp == [line : Lines, name : Users \cup Reserved, host : 0 .. UT_HOSTSIZE,
         hidden : Pids \cup {0}]
Utmpx == [type : Types, line : Lines, id : Names \cup {""}, user : Users \cup Reserved,
          host : Hosts \cup 0 .. UT_HOSTSIZE, pid : Pids \cup {0}]

ASSUME UtmpConstants ==
  /\ Names \cap (Specials \cup {""}) = {} /\ Short \in [Names -> Names]
  /\ Users \cap Reserved = {} /\ NULL \notin Users \cup Names \cup Types \cup Utmpx
  /\ Pids \subseteq Nat \ {0} /\ Hosts \subseteq Nat
  /\ SIZE_T \in Nat /\ SIZE_T > 2 * UT_HOSTSIZE + Beyond /\ Beyond \in Nat

Digits(pid) == CHOOSE d \in 1 .. 10 : pid < 10 ^ d /\ (d = 1 \/ pid >= 10 ^ (d - 1))

-----------------------------------------------------------------------------
(* What the records that are not about processes look like. *)
SystemLine == [RUN_LVL |-> "~", BOOT_TIME |-> "~", ACCOUNTING |-> "~",
               NEW_TIME |-> "{", OLD_TIME |-> "|"]
SystemName == [RUN_LVL |-> "runlevel", BOOT_TIME |-> "reboot", ACCOUNTING |-> "acct",
               NEW_TIME |-> "date", OLD_TIME |-> "date"]

(* __utmpx_to_utmp.  Without a line the four characters of the identifier    *)
(* are put in a structure nobody has initialized: when they are not ended    *)
(* by a NUL, the line goes on with what is there.  Mutant: the identifier    *)
(* first.                                                                    *)
MutLinesFor(ux) == IF ux.id # "" THEN {Line(FALSE, ux.id)} ELSE {ux.line}

LinesFor(ux) ==
  IF ux.type = "EMPTY" THEN {NoLine}
  ELSE IF ux.type \in SystemTypes THEN {Line(FALSE, SystemLine[ux.type])}
  ELSE IF ux.line # NoLine THEN {ux.line}
  ELSE IF ux.id = "" THEN {NoLine}
  ELSE {Line(FALSE, n) : n \in {m \in Names : Short[m] = ux.id}}

NameFor(ux) == IF ux.type \in SystemTypes THEN SystemName[ux.type]
               ELSE IF ux.type = "USER_PROCESS" THEN ux.user
               ELSE IF ux.type = "INIT_PROCESS" THEN "INIT"
               ELSE IF ux.type = "LOGIN_PROCESS" THEN "LOGIN"
               ELSE ""

HostFor(ux) == IF ux.type = "EMPTY" THEN 0
               ELSE IF ux.host < UT_HOSTSIZE THEN ux.host ELSE UT_HOSTSIZE

(* strlen (u->ut_host): a host that fills its field is not ended there. *)
StrLens(h) == IF h < UT_HOSTSIZE THEN {h} ELSE h .. (h + Beyond)

(* What is left for the process behind the host, an unsigned number. *)
Room(len) == (UT_HOSTSIZE - len - 1) % SIZE_T

(* The pid is put there if it fits, and the rest of the room is cleared; end *)
(* is where that writing ends.                                               *)
HiddenFor(ux, len) == IF ux.pid # 0 /\ Digits(ux.pid) <= Room(len) THEN ux.pid ELSE 0
EndFor(ux, len) == IF HiddenFor(ux, len) = 0 THEN UT_HOSTSIZE ELSE len + 1 + Room(len)

ToUtmp(ux) ==
  {[end |-> EndFor(ux, len),
    utmp |-> [line |-> l, name |-> NameFor(ux), host |-> HostFor(ux),
              hidden |-> HiddenFor(ux, len)]]
     : l \in LinesFor(ux), len \in StrLens(HostFor(ux))}

-----------------------------------------------------------------------------
IsEmpty(u) == u.line = NoLine /\ u.name = "" /\ u.host = 0
IsSpecial(u) == u.line.name \in Specials

(* __utmp_to_utmpx: NULL when there is no such type. *)
TypeOf(u) ==
  IF IsEmpty(u) THEN "EMPTY"
  ELSE IF IsSpecial(u)
  THEN LET S == {t \in SystemTypes : SystemLine[t] = u.line.name /\ SystemName[t] = u.name}
       IN  IF S = {} THEN NULL ELSE CHOOSE t \in S : TRUE
  ELSE IF u.name = "INIT" THEN "INIT_PROCESS"
  ELSE IF u.name = "LOGIN" THEN "LOGIN_PROCESS"
  ELSE IF u.name = "" THEN "DEAD_PROCESS"
  ELSE "USER_PROCESS"

LineOf(u) == IF u.line.tty THEN u.line ELSE NoLine
IdOf(u) == IF u.line.name = "" THEN "" ELSE Short[u.line.name]

(* Mutant: one character too many is kept free. *)
MutPidOf(u) == IF u.host < UT_HOSTSIZE - 3 THEN u.hidden ELSE 0

PidOf(u) == IF u.host < UT_HOSTSIZE - 2 THEN u.hidden ELSE 0

Empty == [type |-> "EMPTY", line |-> NoLine, id |-> "", user |-> "", host |-> 0, pid |-> 0]

ToUtmpx(u) ==
  IF TypeOf(u) = "EMPTY" THEN Empty
  ELSE [type |-> TypeOf(u), pid |-> PidOf(u), host |-> u.host,
        line |-> IF TypeOf(u) \in ProcessTypes THEN LineOf(u) ELSE NoLine,
        id |-> IF TypeOf(u) \in ProcessTypes THEN IdOf(u) ELSE "",
        user |-> IF TypeOf(u) \in {"LOGIN_PROCESS", "USER_PROCESS"} THEN u.name ELSE ""]

(* Mutant: a record of a process replaces one of the same user. *)
MutUtmpEqual(e, m) == ~IsEmpty(e) /\ ~IsSpecial(e) /\ e.line = m.line /\ e.name = m.name

UtmpEqual(e, m) == /\ ~IsEmpty(e) /\ ~IsSpecial(e)
                   /\ ~IsEmpty(m) /\ ~IsSpecial(m)
                   /\ e.line = m.line
============================================================================
