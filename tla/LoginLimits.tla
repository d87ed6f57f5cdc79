----------------------------- MODULE LoginLimits -----------------------------
(***************************************************************************)
(* Logins of one account from one source: failures are counted per source  *)
(* and per account in Redis, or in SQL whenever Redis does not answer; an  *)
(* account with too many is locked in its row, which each login reads      *)
(* first and writes last.                                                  *)
(***************************************************************************)
EXTENDS Integers, FiniteSets

CONSTANTS Logins,      \* login requests at work at one time
          AccountMax,  \* max_failures
          SourceMax,   \* ip_max_failures
          MaxLogins    \* bound on the failures explored

ASSUME LoginLimitsAssumption ==
    AccountMax \in Nat \ {0} /\ SourceMax \in Nat \ {0} /\ IsFiniteSet(Logins)

Counters == {"source", "account"}

VARIABLES
    limCount,    \* store -> counter -> failures in the present window
    limRow,      \* the user row: whether active, whether locked
    limLogin,    \* login -> where it is, the row it read, the count it got
    limFails,    \* history: failed verifications since the account's counters
                 \* were last empty
    limFault,    \* history: Redis did not answer once
    limCleared   \* history: a success or a new password ended a lock or a count

limVars == <<limCount, limRow, limLogin, limFails, limFault, limCleared>>

NewRow  == [active |-> TRUE, locked |-> FALSE]
NoLogin == [at |-> "idle", row |-> NewRow, failures |-> 0]

(* Redis answers, or SQL counts in its place. *)
Store(s) == /\ s \in {"redis", "sql"}
            /\ limFault' = (limFault \/ s = "sql")

Goes(l, at) == limLogin' = [limLogin EXCEPT ![l] = [NoLogin EXCEPT !.at = at]]

-----------------------------------------------------------------------------
(* AuthService.login                                                       *)

ReadUser(l) ==
    /\ limLogin[l] = NoLogin
    /\ limFails < MaxLogins /\ \A s \in DOMAIN limCount : limCount[s].source < MaxLogins
    /\ limLogin' = [limLogin EXCEPT ![l] = [NoLogin EXCEPT !.at = "source", !.row = limRow]]
    /\ UNCHANGED <<limCount, limRow, limFails, limFault, limCleared>>

(* Refused with the source over its limit or the account locked; a login   *)
(* of a disabled account counts against its source.                        *)
CheckSource(l) ==
    /\ limLogin[l].at = "source"
    /\ \E s \in {"redis", "sql"} :
          /\ Store(s)
          /\ Goes(l, IF limCount[s].source >= SourceMax THEN "idle"
                     ELSE IF ~limLogin[l].row.active THEN "count refusal"
                     ELSE IF limLogin[l].row.locked THEN "idle" ELSE "verify")
    /\ UNCHANGED <<limCount, limRow, limFails, limCleared>>

Verify(l) ==
    /\ limLogin[l].at = "verify"
    /\ \/ Goes(l, "count source") /\ limFails' = limFails + 1
       \/ Goes(l, "clear") /\ UNCHANGED limFails
    /\ UNCHANGED <<limCount, limRow, limFault, limCleared>>

(* LoginLimiter.increment *)
CountSource(l) ==
    /\ limLogin[l].at \in {"count source", "count refusal"}
    /\ \E s \in {"redis", "sql"} :
          Store(s) /\ limCount' = [limCount EXCEPT ![s].source = @ + 1]
    /\ Goes(l, IF limLogin[l].at = "count source" THEN "count account" ELSE "idle")
    /\ UNCHANGED <<limRow, limFails, limCleared>>

CountAccount(l) ==
    /\ limLogin[l].at = "count account"
    /\ \E s \in {"redis", "sql"} :
          /\ Store(s)
          /\ limCount' = [limCount EXCEPT ![s].account = @ + 1]
          /\ limLogin' = [limLogin EXCEPT ![l].at = "save failure",
                                          ![l].failures = limCount[s].account + 1]
    /\ UNCHANGED <<limRow, limFails, limCleared>>

(* Slip: the last failure decides alone. *)
SlipSaveFailure(l) ==
    /\ limLogin[l].at = "save failure"
    /\ limRow' = [limRow EXCEPT !.locked = limLogin[l].failures >= AccountMax]
    /\ Goes(l, "idle")
    /\ UNCHANGED <<limCount, limFails, limFault, limCleared>>

(* update_login_failure: a lock is set, never taken away. *)
SaveFailure(l) ==
    /\ limLogin[l].at = "save failure"
    /\ limRow' = [limRow EXCEPT !.locked = @ \/ limLogin[l].failures >= AccountMax]
    /\ Goes(l, "idle")
    /\ UNCHANGED <<limCount, limFails, limFault, limCleared>>

(* LoginLimiter.clear empties the counter in SQL, and in Redis if it answers. *)
ClearAccount(l) ==
    /\ limLogin[l].at = "clear"
    /\ \E s \in {"redis", "sql"} :
          /\ Store(s)
          /\ limCount' = [t \in {"redis", "sql"} |-> IF t \in {s, "sql"}
                             THEN [limCount[t] EXCEPT !.account = 0] ELSE limCount[t]]
    /\ limCleared' = TRUE
    /\ Goes(l, "mark")
    /\ UNCHANGED <<limRow, limFails>>

(* mark_login_success; the session that is then made is not modelled. *)
MarkSuccess(l) ==
    /\ limLogin[l].at = "mark"
    /\ limRow' = [limRow EXCEPT !.locked = FALSE]
    /\ Goes(l, "idle")
    /\ UNCHANGED <<limCount, limFails, limFault, limCleared>>

-----------------------------------------------------------------------------
(* The administrator and the passing of time.                              *)

(* user_routes: a new password, which leaves the counters as they are. *)
ResetPassword ==
    /\ limRow' = [limRow EXCEPT !.locked = FALSE]
    /\ limCleared' = TRUE
    /\ UNCHANGED <<limCount, limLogin, limFails, limFault>>

(* user_routes: disable and enable. *)
SetUserStatus ==
    /\ limRow' = [limRow EXCEPT !.active = ~@]
    /\ UNCHANGED <<limCount, limLogin, limFails, limFault, limCleared>>

(* lock_seconds after the first failure of a window its counter is gone; a *)
(* login takes less than that.                                             *)
AtRest == \A l \in Logins : limLogin[l] = NoLogin

WindowEnds ==
    /\ AtRest
    /\ limCount' = [s \in {"redis", "sql"} |-> [c \in Counters |-> 0]]
    /\ limFails' = 0
    /\ UNCHANGED <<limRow, limLogin, limFault, limCleared>>

(* The lock was set after the window began and lasts as long. *)
LockEnds ==
    /\ AtRest /\ limRow.locked
    /\ \A s \in {"redis", "sql"} : limCount[s].account = 0
    /\ limRow' = [limRow EXCEPT !.locked = FALSE]
    /\ UNCHANGED <<limCount, limLogin, limFails, limFault, limCleared>>

-----------------------------------------------------------------------------
LimitInit ==
    /\ limCount = [s \in {"redis", "sql"} |-> [c \in Counters |-> 0]]
    /\ limRow = NewRow
    /\ limLogin = [l \in Logins |-> NoLogin]
    /\ limFails = 0
    /\ limFault = FALSE /\ limCleared = FALSE

LimitNext ==
    \/ \E l \in Logins :
          \/ ReadUser(l) \/ CheckSource(l) \/ Verify(l) \/ CountSource(l) \/ CountAccount(l)
          \/ SaveFailure(l) \/ ClearAccount(l) \/ MarkSuccess(l)
    \/ ResetPassword \/ SetUserStatus \/ WindowEnds \/ LockEnds

LimitSpec == LimitInit /\ [][LimitNext]_limVars

-----------------------------------------------------------------------------
(* Properties.                                                             *)

(* However logins overlap, one window lets no more failures through than   *)
(* the limit and the logins already past the check, and twice the limit    *)
(* when Redis comes and goes and the failures are counted in two places.   *)
FailuresWithinLimit ==
    ~limCleared => limFails <= (IF limFault THEN 2 ELSE 1) * (AccountMax - 1)
                               + Cardinality(Logins)

(* An account whose failures reached the limit in this window is locked    *)
(* when no login is at work, whatever the order in which logins count and  *)
(* save: a smaller count saved late does not undo the lock.                *)
CountedIsLocked ==
    AtRest /\ ~limCleared =>
        \A s \in {"redis", "sql"} : limCount[s].account >= AccountMax => limRow.locked

(* The limit holds: no failure slips by uncounted, and the count locks.    *)
LimitHolds == FailuresWithinLimit /\ CountedIsLocked

=============================================================================
