----------------------------- MODULE Approvals -----------------------------
(***************************************************************************)
(* ApprovalAuthority with the SQLite replay store, in several processes    *)
(* that share one secret and one database: a capability is issued, checked *)
(* against a clock that is read in whole seconds, and consumed in a        *)
(* transaction of its own, after the check and after a wait for the        *)
(* database's lock.  A process may die anywhere and start again.           *)
(*                                                                         *)
(* Time goes in half seconds.  That nobody else can sign is assumed.       *)
(***************************************************************************)
EXTENDS Integers

CONSTANTS
  Ids,          \* approval_id: token_hex(16), never drawn twice
  Actions,      \* what action_digest tells apart
  Processes,
  Ttls,         \* ttl_seconds
  LOCK_TIMEOUT, \* of sqlite3.connect, in half seconds
  MaxNow        \* bound: the last half second

ApprovalAssumption ==
  /\ Ttls \subseteq 1 .. 3600
  /\ LOCK_TIMEOUT \in Nat /\ MaxNow \in Nat
  /\ "none" \notin Processes

VARIABLES
  now,
  granted,   \* the claims that were signed, and when; NoGrant for an id not drawn
  consumed,  \* the rows of consumed_approvals
  lock,      \* the process that writes to the database, or "none"
  call,      \* of each process: the verification it is in
  uses       \* how often verify has returned the claims of an id
vars == <<now, granted, consumed, lock, call, uses>>

NoGrant == [action |-> "none", expires |-> 0, at |-> 0, ttl |-> 0]
Grants == [action : Actions, expires : Nat, at : Nat, ttl : Ttls] \cup {NoGrant}
Stages == {"ready", "checked", "holding", "won", "accepted", "refused", "expired", "raised"}
Calls == [stage : Stages, id : Ids, checked : Nat, taken : Nat, fresh : BOOLEAN]
Ready(p) == call[p].stage \in {"ready", "accepted", "refused", "expired", "raised"}

At(stage, i, t) == [stage |-> stage, id |-> i, checked |-> t, taken |-> 0, fresh |-> FALSE]
Bare(stage, i) == At(stage, i, 0)

Init ==
  /\ now = 0
  /\ granted = [i \in Ids |-> NoGrant]
  /\ consumed = {}
  /\ lock = "none"
  /\ \E i \in Ids : call = [p \in Processes |-> Bare("ready", i)]
  /\ uses = [i \in Ids |-> 0]

Second == now \div 2

\* No wait for the lock is longer than its timeout.
Tick ==
  /\ now < MaxNow
  /\ \A p \in Processes : call[p].stage = "checked" => now < call[p].checked + LOCK_TIMEOUT
  /\ now' = now + 1
  /\ UNCHANGED <<granted, consumed, lock, call, uses>>

\* issue: the claims are those of whole seconds.
Issue(i, a, ttl) ==
  /\ granted[i] = NoGrant
  /\ granted' = [granted EXCEPT ![i] = [action |-> a, expires |-> Second + ttl,
                                        at |-> now, ttl |-> ttl]]
  /\ UNCHANGED <<now, consumed, lock, call, uses>>

-----------------------------------------------------------------------------
(* verify *)

Become(p, stage) == call' = [call EXCEPT ![p].stage = stage]
Leave(p, stage) == call' = [call EXCEPT ![p] = Bare(stage, call[p].id)]

\* Fault: the last second counts.
Expired_Inclusive(i) == granted[i].expires < Second

Expired(i) == granted[i].expires <= Second

\* The signature and the expiry hold, and the action is the one that was signed.
Check(p, i, a) ==
  /\ Ready(p)
  /\ granted[i] # NoGrant /\ ~Expired(i) /\ granted[i].action = a
  /\ call' = [call EXCEPT ![p] = At("checked", i, now)]
  /\ UNCHANGED <<now, granted, consumed, lock, uses>>

Refuse(p, i, a) ==
  /\ Ready(p)
  /\ granted[i] = NoGrant \/ Expired(i) \/ granted[i].action # a
  /\ call' = [call EXCEPT ![p] =
       IF granted[i] # NoGrant /\ Expired(i)
       THEN At("expired", i, now)
       ELSE Bare("refused", i)]
  /\ UNCHANGED <<now, granted, consumed, lock, uses>>

\* INSERT OR IGNORE: it takes the lock, and counts the row if there was none.
Insert(p) ==
  /\ call[p].stage = "checked" /\ lock = "none"
  /\ lock' = p
  /\ call' = [call EXCEPT ![p] = [@ EXCEPT !.stage = "holding", !.taken = now,
                                            !.fresh = call[p].id \notin consumed]]
  /\ UNCHANGED <<now, granted, consumed, uses>>

\* The lock is not to be had, or the database fails: an error that is no
\* ApprovalError, and nothing is written.
Raise(p) ==
  /\ call[p].stage \in {"checked", "holding"}
  /\ Leave(p, "raised")
  /\ lock' = IF call[p].stage = "holding" THEN "none" ELSE lock
  /\ UNCHANGED <<now, granted, consumed, uses>>

\* The end of the `with`: the transaction is committed.
Commit(p) ==
  /\ call[p].stage = "holding"
  /\ consumed' = consumed \cup {call[p].id}
  /\ lock' = "none"
  /\ Become(p, IF call[p].fresh THEN "won" ELSE "refused")
  /\ UNCHANGED <<now, granted, uses>>

Return(p) ==
  /\ call[p].stage = "won"
  /\ uses' = [uses EXCEPT ![call[p].id] = @ + 1]
  /\ Become(p, "accepted")
  /\ UNCHANGED <<now, granted, consumed, lock>>

\* The process dies: SQLite rolls back what it had not committed.
Crash(p) ==
  /\ Leave(p, "ready")
  /\ lock' = IF lock = p THEN "none" ELSE lock
  /\ UNCHANGED <<now, granted, consumed, uses>>

Next ==
  \/ Tick
  \/ \E i \in Ids, a \in Actions, ttl \in Ttls : Issue(i, a, ttl)
  \/ \E p \in Processes, i \in Ids, a \in Actions : Check(p, i, a) \/ Refuse(p, i, a)
  \/ \E p \in Processes : Insert(p) \/ Raise(p) \/ Commit(p) \/ Return(p) \/ Crash(p)

Spec == Init /\ [][Next]_vars

-----------------------------------------------------------------------------
(* Properties *)

TypeOK ==
  /\ now \in Nat
  /\ granted \in [Ids -> Grants]
  /\ consumed \subseteq Ids
  /\ lock \in Processes \cup {"none"}
  /\ call \in [Processes -> Calls]
  /\ uses \in [Ids -> Nat]

\* docs/safety.md:13: capabilities "are consumed once through a SQLite
\* uniqueness constraint": whichever processes verify one, at once or after a
\* crash, verify returns its claims once.
SingleUse == \A i \in Ids : uses[i] <= 1

Age(p) == call[p].checked - granted[call[p].id].at

\* No capability passes its check at the age it was granted for or later: the
\* seconds cut off at its issue and at its check never add up to one more.
NeverOutlivesGrant ==
  \A p \in Processes : call[p].stage \in {"checked", "holding", "won", "accepted"} =>
    Age(p) < 2 * granted[call[p].id].ttl

\* The time is not looked at again, so one may be consumed after it has expired,
\* but only as long after as the database's lock may be waited for.  (Of the time
\* until the claims are returned after that nothing is said.)
NeverTakenMuchLater ==
  \A p \in Processes : call[p].stage \in {"holding", "won", "accepted"} =>
    call[p].taken - granted[call[p].id].at < 2 * granted[call[p].id].ttl + LOCK_TIMEOUT

\* Nor is one refused as expired more than a second before its time.
NeverExpiresEarly ==
  \A p \in Processes : call[p].stage = "expired" => Age(p) > 2 * (granted[call[p].id].ttl - 1)

\* A capability's claims are returned once; it is within its lifetime when it is
\* checked, and past it no longer than the lock may be waited for when it is
\* consumed; it is not refused as expired more than a second before its time.
ClaimsAreGood ==
  TypeOK /\ SingleUse /\ NeverOutlivesGrant /\ NeverTakenMuchLater /\ NeverExpiresEarly

\* The inductive invariant of SingleUse: who holds the lock is the only one to
\* have counted a row, and between the commit and the return the use is neither
\* counted nor to be had by another.
Uniqueness ==
  /\ \A p \in Processes : call[p].stage = "holding" => lock = p
  /\ \A p \in Processes :
       call[p].stage = "holding" /\ call[p].fresh => call[p].id \notin consumed
  /\ \A p \in Processes :
       call[p].stage = "won" => call[p].id \in consumed /\ uses[call[p].id] = 0
  /\ \A p, q \in Processes :
       p # q /\ call[p].stage = "won" /\ call[q].stage = "won" => call[p].id # call[q].id
  /\ \A i \in Ids : i \notin consumed => uses[i] = 0
  /\ SingleUse
=============================================================================
