--------------------------- MODULE AccountLifecycle ---------------------------
(***************************************************************************)
(* The life of accounts (services/account_service.py): access tokens are   *)
(* refreshed, the upstream is asked about each account, invalid tokens are *)
(* counted until the account is marked, passwords log in again, and the    *)
(* watcher (api/support.py) goes through all of it once a minute while     *)
(* requests, warm-ups and administrators do the same.                      *)
(*                                                                         *)
(* One action is one section under AccountService._lock, one step of the   *)
(* refresh under _token_refresh_lock, or one answer of the upstream.       *)
(* Aliases make every token that an account ever had lead to the account,  *)
(* so threads name accounts; what a thread's own token is worth is "held". *)
(* Times are choices: what was recent stops being so.                      *)
(***************************************************************************)
EXTENDS Naturals, FiniteSets

CONSTANTS
  Account,       \* the watcher's worker for an account is named after it
  Other,         \* threads of requests, probes, warm-ups, administrators
  Relogin,       \* threads of _password_re_login_thread
  None,
  MaxAttempts,   \* self_heal_retry_max_attempts
  Tokens,        \* what the upstream thinks of tokens and of passwords
  Passwords,     \* when the service starts
  MaxEvents,     \* bound on what the world does to the service
  AutoRemove,    \* the values that auto_remove_invalid_accounts may have,
  AutoLimited,   \* auto_remove_rate_limited_accounts,
  AutoRelogin,   \* auto_relogin_after_refresh,
  AutoReplace,   \* self_heal_auto_replace_enabled,
  Failover       \* upstream_failover_enabled

Thread == Account \cup Other

ASSUME AccountAssumption == IsFiniteSet(Account)
ASSUME ThreadAssumption == Account \cap Other = {} /\ None \notin Thread
ASSUME AttemptAssumption == MaxAttempts \in Nat \ {0} /\ MaxEvents \in Nat
ASSUME StartAssumption == /\ Tokens \subseteq {"accepted", "rejected", "dead"}
                          /\ Passwords \subseteq {"none", "right", "wrong"}
ASSUME OptionAssumption ==
  {AutoRemove, AutoLimited, AutoRelogin, AutoReplace, Failover} \subseteq SUBSET BOOLEAN

VARIABLES
  db,       \* _accounts
  up,       \* the upstream's view: the current token, the password
  th,       \* the threads that refresh or ask
  holder,   \* who holds _token_refresh_lock
  relog,    \* the threads that log in again
  watch,    \* the watcher: its phase, and what its priorities left for later
  job,      \* _relogin_progress of one request to log in again
  events

vars == <<db, up, th, holder, relog, watch, job, events>>

Status == {"normal", "limited", "abnormal", "disabled", "aging", "pending"}

(* What a refresh token is worth upstream.  A refresh consumes it: it is   *)
(* "spent" while the answer, which holds its successor, is on its way, and *)
(* "unanswered" when that answer never arrived.  It is "revoked" when the  *)
(* upstream ended its chain for a reason of its own.                       *)
Worth == {"live", "spent", "unanswered", "revoked"}

(* Counts beyond two do the same as two. *)
AccountRecord ==
  [here : BOOLEAN, status : Status,
   invalid : 0 .. 2,                          \* invalid_count
   attempts : 0 .. MaxAttempts,               \* self_heal_retry_attempts
   next : BOOLEAN,                            \* self_heal_next_retry_at is set
   rt : {"none"} \cup Worth]                   \* what the refresh token is worth

Refreshing == {"preflight", "again", "forced", "again2", "call", "ease"}
Stage == Refreshing \cup
  {"idle", "ask", "ask2", "seen", "remove", "mark", "booked", "store", "done", "failed"}
Reason == {"watch", "recover", "admin", "warmup", "request"}

ThreadRecord ==
  [pc : Stage, why : Reason, of : Account \cup {None},
   oauth : {"no", "sent", "issued"},
   sent : {"no", "foreign"} \cup Worth,        \* the refresh token in use
   held : {"current", "old"}, differs : BOOLEAN,       \* active_token
   answer : {"normal", "limited"}, count : 0 .. 2]

Phase == {"sleep", "urgent", "rest", "lists", "keep", "recover", "heal"}

TypeOK ==
  /\ db \in [Account -> AccountRecord]
  /\ up \in [Account -> [token : {"accepted", "rejected", "dead"},
                         password : {"none", "right", "wrong"}]]
  /\ th \in [Thread -> ThreadRecord]
  /\ holder \in Thread \cup {None}
  /\ relog \in [Relogin ->
       [pc : {"idle", "login", "apply", "status", "ban", "remove", "mark"},
        of : Account \cup {None}, job : BOOLEAN, count : 0 .. 2]]
  /\ watch \in [phase : Phase, later : SUBSET Account]
  /\ job \in [active : BOOLEAN, done : BOOLEAN, total : Nat, processed : Nat]
  /\ events \in 0 .. MaxEvents

Idle == [pc |-> "idle", why |-> "watch", of |-> None, oauth |-> "no", sent |-> "no",
         held |-> "current", differs |-> FALSE, answer |-> "normal", count |-> 0]
Resting == [pc |-> "idle", of |-> None, job |-> FALSE, count |-> 0]

(* A stored account; one that never logged in has no refresh token. *)
Stored(s, t) ==
  [here |-> TRUE, status |-> s, invalid |-> 0,
   attempts |-> 0, next |-> FALSE, rt |-> t]

Init ==
  /\ db \in [Account -> {Stored("normal", "live"), Stored("normal", "none"),
                         Stored("aging", "live"), Stored("pending", "none")}]
  /\ up \in [Account -> [token : Tokens, password : Passwords]]
  /\ \A a \in Account : db[a].status = "pending" =>
       up[a].token # "accepted" /\ up[a].password # "none"
  /\ th = [p \in Thread |-> Idle]
  /\ holder = None
  /\ relog = [r \in Relogin |-> Resting]
  /\ watch = [phase |-> "sleep", later |-> {}]
  /\ job = [active |-> FALSE, done |-> FALSE, total |-> 0, processed |-> 0]
  /\ events = 0

-----------------------------------------------------------------------------
(* What an account is left as.  update_account and the others that store do *)
(* nothing to an account that is gone.                                     *)
Updated(a, new) == IF db[a].here THEN [db EXCEPT ![a] = new] ELSE db
Removed(a) == [db EXCEPT ![a].here = FALSE]

(* _normalize_account: an unknown status is stored as normal. *)
Normalized(s) == IF s \in Status THEN s ELSE "normal"

Renewed(a) ==
  [db[a] EXCEPT !.rt = "live", !.invalid = 0]

Up(n) == IF n = 2 THEN 2 ELSE n + 1

Abnormal(a, count) ==
  [db[a] EXCEPT !.status = "abnormal", !.invalid = Up(count)]

HasPassword(a) == up[a].password # "none"

Event == events < MaxEvents /\ events' = events + 1
NoEvent == UNCHANGED events

Goto(p, pc) == th' = [th EXCEPT ![p].pc = pc]

(* A thread ends: what it was told no longer matters, but for the answer to *)
(* a warm-up.                                                              *)
Ended(t, pc) == [Idle EXCEPT !.pc = pc, !.why = t.why, !.of = t.of,
                             !.answer = IF t.why = "warmup" /\ pc = "done" THEN t.answer ELSE @]
Ends(p, pc) == th' = [th EXCEPT ![p] = Ended(@, pc)]

(* The account's token changes: tokens that threads hold become aliases,    *)
(* and a refresh token that was read before belongs to a chain which the   *)
(* account no longer has.                                                  *)
Rotated(a, threads) ==
  [p \in Thread |-> IF threads[p].of # a THEN threads[p]
                    ELSE [threads[p] EXCEPT !.held = "old"]]
Superseded(a, threads) ==
  [p \in Thread |-> IF threads[p].of = a /\ threads[p].sent = "live"
                    THEN [threads[p] EXCEPT !.sent = "foreign"] ELSE threads[p]]

(* Relogin threads start for the accounts in as. *)
Start(as, forJob) ==
  LET free == {r \in Relogin : relog[r].pc = "idle"} IN
  \E r \in [as -> free] :
    /\ \A a, b \in as : r[a] = r[b] => a = b
    /\ relog' = [q \in Relogin |->
         IF \E a \in as : r[a] = q
         THEN [pc |-> "login", of |-> CHOOSE a \in as : r[a] = q, job |-> forJob, count |-> 0]
         ELSE relog[q]]

-----------------------------------------------------------------------------
(* refresh_access_token.  A call that is not forced may find that the token *)
(* is not about to expire, or that its refresh failed minutes ago.         *)
Forced(p) == th[p].pc \notin {"preflight", "ease"}
NothingToDo(d) == ~d.here \/ d.rt = "none"

(* Where the caller goes on.  fetch_remote_info gives up when a forced      *)
(* refresh leaves it with the token it had.                                *)
After(t) ==
  CASE t.pc = "preflight" -> [t EXCEPT !.pc = "ask", !.differs = FALSE]
    [] t.pc = "again"     -> [t EXCEPT !.pc = "forced"]
    [] t.pc = "forced"    -> [t EXCEPT !.pc = IF t.differs THEN "ask2" ELSE "seen"]
    [] t.pc = "again2"    -> [t EXCEPT !.pc = "seen"]
    [] OTHER              -> IF t.why = "watch" THEN Ended(t, "done") ELSE Idle

Back(t) == After([t EXCEPT !.oauth = "no", !.sent = "no"])

(* Mutant: refreshes do not wait for each other. *)
EnterFreely(p) ==
  /\ th[p].pc \in Refreshing /\ th[p].oauth = "no"
  /\ LET t == [th[p] EXCEPT !.differs = @ \/ th[p].held = "old", !.held = "current"] IN
     \/ /\ NothingToDo(db[t.of]) \/ ~Forced(p)
        /\ th' = [th EXCEPT ![p] = Back(t)]
        /\ UNCHANGED holder
     \/ /\ ~NothingToDo(db[t.of])
        /\ th' = [th EXCEPT ![p] = [t EXCEPT !.oauth = "sent", !.sent = db[t.of].rt]]
        /\ holder' = p
  /\ UNCHANGED <<db, up, relog, watch, job, events>>

Enter(p) ==
  /\ th[p].pc \in Refreshing /\ th[p].oauth = "no"
  /\ holder = None
  /\ LET t == [th[p] EXCEPT !.differs = @ \/ th[p].held = "old", !.held = "current"] IN
     \/ /\ NothingToDo(db[t.of]) \/ ~Forced(p)
        /\ th' = [th EXCEPT ![p] = Back(t)]
        /\ UNCHANGED holder
     \/ /\ ~NothingToDo(db[t.of])
        /\ th' = [th EXCEPT ![p] = [t EXCEPT !.oauth = "sent", !.sent = db[t.of].rt]]
        /\ holder' = p
  /\ UNCHANGED <<db, up, relog, watch, job, events>>

(* The upstream takes a refresh token once, and answers with another. *)
Issue(p) ==
  LET t == th[p] IN
  /\ t.oauth = "sent" /\ t.sent \in {"live", "foreign"}
  /\ up[t.of].token # "dead"
  /\ th' = [q \in Thread |->
       IF q = p THEN [t EXCEPT !.oauth = "issued"]
       ELSE IF th[q].of = t.of /\ t.sent = "live" /\ th[q].sent = "live"
       THEN [th[q] EXCEPT !.sent = "spent"] ELSE th[q]]
  /\ db' = IF t.sent = "live" THEN [db EXCEPT ![t.of].rt = "spent"] ELSE db
  /\ UNCHANGED <<up, holder, relog, watch, job, events>>

(* The refresh fails, the lock is released (the error that                 *)
(* _record_token_refresh_error notes is one more reason for NothingToDo's  *)
(* choice); a terminated session logs in again.                            *)
Unrefreshed(p) ==
  /\ th' = [th EXCEPT ![p] = Back(th[p])]
  /\ holder' = None
  /\ UNCHANGED <<up, watch, job>>

OauthRefused(p) ==
  LET a == th[p].of
      refused == th[p].sent \in {"spent", "unanswered", "revoked"}
  IN
  /\ th[p].oauth = "sent"
  /\ IF refused \/ up[a].token = "dead" THEN NoEvent ELSE Event
  /\ \/ UNCHANGED relog
     \/ refused /\ HasPassword(a) /\ Start({a}, FALSE)
  /\ Unrefreshed(p)
  /\ UNCHANGED db

(* The upstream consumed the token, and its answer is lost (a timeout, an  *)
(* answer that is not JSON).  Nothing is noted but the error, so the token *)
(* stays stored, and the next refresh sends it again.                      *)
OauthLost(p) ==
  /\ th[p].oauth = "issued" /\ Event
  /\ Unrefreshed(p)
  /\ db' = IF th[p].sent = "live" THEN [db EXCEPT ![th[p].of].rt = "unanswered"] ELSE db
  /\ UNCHANGED relog

(* _apply_refreshed_tokens after a refresh.  Mutant: a gone account returns. *)
ApplyAlways(p) ==
  LET t == th[p] IN
  /\ t.oauth = "issued"
  /\ holder' = None
  /\ db' = [db EXCEPT ![t.of] = [Renewed(t.of) EXCEPT !.here = TRUE]]
  /\ up' = [up EXCEPT ![t.of].token = IF @ = "dead" THEN "dead" ELSE "accepted"]
  /\ th' = [Rotated(t.of, th) EXCEPT ![p] = Back([t EXCEPT !.held = "current", !.differs = TRUE])]
  /\ UNCHANGED <<relog, watch, job, events>>

Apply(p) ==
  LET t == th[p]
      got == [t EXCEPT !.held = "current", !.differs = TRUE]
  IN
  /\ t.oauth = "issued"
  /\ holder' = None
  /\ \/ /\ ~db[t.of].here
        /\ th' = [th EXCEPT ![p] = Back(t)]
        /\ UNCHANGED <<db, up>>
     \/ /\ db[t.of].here
        /\ db' = [db EXCEPT ![t.of] = Renewed(t.of)]
        /\ up' = [up EXCEPT ![t.of].token = IF @ = "dead" THEN "dead" ELSE "accepted"]
        /\ th' = [Rotated(t.of, th) EXCEPT ![p] = Back(got)]
  /\ UNCHANGED <<relog, watch, job, events>>

-----------------------------------------------------------------------------
(* fetch_remote_info: get_user_info with the token the thread holds.  A 401 *)
(* refreshes at once (_raise_on_error) and then once more.  A server error *)
(* marks the account when failover is on.                                  *)
Answers(p) == IF up[th[p].of].token = "dead" THEN {"no"}
              ELSE IF th[p].held = "old" THEN {"yes", "no"}
              ELSE IF up[th[p].of].token = "accepted" THEN {"yes"} ELSE {"no"}

Ask(p) ==
  /\ th[p].pc \in {"ask", "ask2"}
  /\ \/ /\ "yes" \in Answers(p) /\ NoEvent
        /\ \E s \in {"normal", "limited"} :
             th' = [th EXCEPT ![p] = [@ EXCEPT !.pc = "booked", !.answer = s, !.differs = FALSE]]
     \/ /\ "no" \in Answers(p) /\ NoEvent
        /\ Goto(p, IF th[p].pc = "ask" THEN "again" ELSE "again2")
     \/ FALSE \in Failover /\ Event /\ Ends(p, "failed")
     \/ TRUE \in Failover /\ Event /\ Goto(p, "remove")
  /\ UNCHANGED <<db, up, holder, relog, watch, job>>

(* _record_invalid_token_seen: the attempts of the backoff, the count, and  *)
(* whether to wait for another answer before the account is marked.        *)
Tried(d) == [d EXCEPT !.attempts = @ + 1, !.next = d.attempts + 1 < MaxAttempts]

(* _should_defer_invalid_token, unless an administrator asks: the first two *)
(* rejections, those of an account younger than ten minutes, and those     *)
(* within thirty seconds of another are only counted.                      *)
MayDefer(p) == th[p].why # "admin"
(* Mutant: no rejection is the last. *)
DefersAlways(p) == MayDefer(p)
MustDefer(p) == MayDefer(p) /\ db[th[p].of].invalid <= 1

Counted(a) ==
  \E d \in {db[a]} \cup (IF db[a].attempts < MaxAttempts THEN {Tried(db[a])} ELSE {}) :
    /\ d = db[a] => db[a].attempts = MaxAttempts \/ db[a].next    \* its time has not come
    /\ db' = Updated(a, [d EXCEPT !.invalid = Up(@)])

Deferred(p) ==
  LET a == th[p].of IN
  /\ th[p].pc = "seen" /\ db[a].here /\ MayDefer(p)
  /\ Counted(a)
  /\ Ends(p, "failed")
  /\ UNCHANGED <<up, holder, relog, watch, job, events>>

Confirmed(p) ==
  LET a == th[p].of IN
  /\ th[p].pc = "seen" /\ (db[a].here => ~MustDefer(p))
  /\ Counted(a)
  /\ Goto(p, "remove")
  /\ UNCHANGED <<up, holder, relog, watch, job, events>>

(* remove_invalid_token deletes the account, or reads it and then marks it. *)
Remove(p) ==
  LET a == th[p].of IN
  /\ th[p].pc = "remove"
  /\ \/ TRUE \in AutoRemove /\ db' = Removed(a) /\ Ends(p, "failed")
     \/ /\ FALSE \in AutoRemove
        /\ th' = [th EXCEPT ![p] = [@ EXCEPT !.pc = "mark", !.count = db[a].invalid]]
        /\ UNCHANGED db
  /\ UNCHANGED <<up, holder, relog, watch, job, events>>

Mark(p) ==
  LET a == th[p].of IN
  /\ th[p].pc = "mark"
  /\ db' = Updated(a, Abnormal(a, th[p].count))
  /\ Ends(p, "failed")
  /\ UNCHANGED <<up, holder, relog, watch, job, events>>

(* _record_refresh_success, then the answer is stored. *)
Book(p) ==
  LET a == th[p].of IN
  /\ th[p].pc = "booked"
  /\ db' = Updated(a, [db[a] EXCEPT !.invalid = 0])
  /\ Goto(p, "store")
  /\ UNCHANGED <<up, holder, relog, watch, job, events>>

(* Mutant: the answer is not stored. *)
StoreNothing(p) ==
  /\ th[p].pc = "store"
  /\ Ends(p, "done")
  /\ UNCHANGED <<db, up, holder, relog, watch, job, events>>

Store(p) ==
  LET a == th[p].of
      s == th[p].answer
  IN
  /\ th[p].pc = "store"
  /\ \/ /\ s = "normal" \/ FALSE \in AutoLimited
        /\ db' = Updated(a, [db[a] EXCEPT !.status = s])
     \/ s = "limited" /\ TRUE \in AutoLimited /\ db' = Removed(a)
  /\ Ends(p, "done")
  /\ UNCHANGED <<up, holder, relog, watch, job, events>>

(* The end of a thread which is not the watcher's: warmup_account marks an  *)
(* account that did not prove healthy in time, refresh_accounts and        *)
(* recover_abnormal_accounts may log in again.                             *)
LogsInAgain(a, why, failed) ==
  /\ db[a].here /\ HasPassword(a)
  /\ \/ why = "recover" /\ (failed \/ db[a].status = "abnormal")
     \/ why \in {"watch", "admin"} /\ TRUE \in AutoRelogin /\ db[a].status = "abnormal"

Finish(p) ==
  LET t == th[p]
      failed == t.pc = "failed"
      again == LogsInAgain(t.of, t.why, failed)
  IN
  /\ p \in Other /\ t.pc \in {"done", "failed"}
  /\ \/ /\ t.why = "warmup" /\ (failed \/ t.answer = "limited")
        /\ db' = Updated(t.of, [db[t.of] EXCEPT !.status = "abnormal"])
        /\ NoEvent
     \/ /\ t.why = "warmup" /\ ~failed /\ Event     \* it took too long
        /\ db' = Updated(t.of, [db[t.of] EXCEPT !.status = "abnormal"])
     \/ (t.why = "warmup" => ~failed /\ t.answer = "normal") /\ UNCHANGED db /\ NoEvent
  /\ \/ again /\ Start({t.of}, FALSE)
     \/ (again => t.why = "admin" /\ FALSE \in AutoRelogin) /\ UNCHANGED relog
  /\ th' = [th EXCEPT ![p] = Idle]
  /\ UNCHANGED <<up, holder, watch, job>>

-----------------------------------------------------------------------------
(* _password_re_login_thread: the login, with a code from the mailbox when *)
(* the upstream asks for one, succeeds, is told that the account is        *)
(* deactivated, or fails.                                                  *)
Advance(r, pc) == relog' = [relog EXCEPT ![r].pc = pc]

Login(r) ==
  LET u == up[relog[r].of] IN
  /\ relog[r].pc = "login"
  /\ \/ u.token # "dead" /\ u.password = "right" /\ Advance(r, "apply") /\ NoEvent
     \/ u.token = "dead" /\ Advance(r, "ban") /\ NoEvent
     \/ u.token # "dead" /\ u.password = "wrong" /\ Advance(r, "remove") /\ NoEvent
     \/ u.password = "right" /\ Advance(r, "remove") /\ Event
  /\ UNCHANGED <<db, up, th, holder, watch, job>>

(* _apply_refreshed_tokens after a login, which waits for no refresh. *)
ApplyLogin(r) ==
  LET a == relog[r].of IN
  /\ relog[r].pc = "apply"
  /\ Advance(r, "status")
  /\ \/ ~db[a].here /\ UNCHANGED <<db, up, th>>
     \/ /\ db[a].here
        /\ db' = [db EXCEPT ![a] = Renewed(a)]
        /\ up' = [up EXCEPT ![a].token = IF @ = "dead" THEN "dead" ELSE "accepted"]
        /\ th' = Superseded(a, Rotated(a, th))
  /\ UNCHANGED <<holder, watch, job, events>>

(* update_relogin_progress, as the last thing a thread does. *)
Reported(j, n) ==
  [j EXCEPT !.processed = @ + n, !.done = @ \/ (n > 0 /\ j.processed + n >= j.total)]

(* Mutant: a deactivated account is not reported. *)
EndUnlessBanned(r) ==
  /\ relog' = [relog EXCEPT ![r] = Resting]
  /\ job' = IF relog[r].job /\ relog[r].pc # "ban" THEN Reported(job, 1) ELSE job
End(r) ==
  /\ relog' = [relog EXCEPT ![r] = Resting]
  /\ job' = IF relog[r].job THEN Reported(job, 1) ELSE job

LoginStored(r) ==
  LET a == relog[r].of IN
  /\ \/ relog[r].pc = "status" /\ db' = Updated(a, [db[a] EXCEPT !.status = "normal"])
     \/ relog[r].pc = "ban" /\ db' = Updated(a, [db[a] EXCEPT !.status = "disabled"])
     \/ relog[r].pc = "mark" /\ db' = Updated(a, Abnormal(a, relog[r].count))
     \/ relog[r].pc = "remove" /\ TRUE \in AutoRemove /\ db' = Removed(a)
  /\ End(r)
  /\ UNCHANGED <<up, th, holder, watch, events>>

LoginFailed(r) ==
  /\ relog[r].pc = "remove" /\ FALSE \in AutoRemove
  /\ relog' = [relog EXCEPT ![r] = [@ EXCEPT !.pc = "mark", !.count = db[relog[r].of].invalid]]
  /\ UNCHANGED <<db, up, th, holder, watch, job, events>>

-----------------------------------------------------------------------------
(* The watcher.  Its phases are batches of one worker per account; a batch *)
(* ends when every worker has, and logs in again where it should.          *)
Here == {a \in Account : db[a].here}
With(s) == {a \in Here : db[a].status \in s}
Renewable == {a \in Here : db[a].rt # "none"}

GivenUp(d) == d.attempts >= MaxAttempts /\ ~d.next

(* _prioritize_refresh_tokens, with the tokens that expire soon; the lists  *)
(* that follow, without the limited accounts that restore later;           *)
(* _refresh_token_keepalive_due_at, for the tokens that are old enough;    *)
(* list_abnormal_tokens_for_recover.                                       *)
Urgent == {With({"abnormal", "limited"}) \cup s : s \in SUBSET Here}
Lists == {With({"normal"}) \cup s : s \in SUBSET (With({"limited"}) \cup Renewable)}
Kept == SUBSET {a \in Renewable : db[a].status # "disabled"}
Recoverable == {a \in With({"abnormal"}) : db[a].invalid >= 2 /\ ~GivenUp(db[a])}

WorkersEnded == \A a \in Account : th[a].pc \in {"idle", "done", "failed"}

(* The next batch: as at stage pc, once those of the last have logged in. *)
Batch(as, pc, why) ==
  LET again == {a \in Account : /\ th[a].pc # "idle"
                                /\ LogsInAgain(a, th[a].why, th[a].pc = "failed")}
  IN
  /\ WorkersEnded
  /\ \/ again # {} /\ Start(again, FALSE)
     \/ (again = {} \/ (FALSE \in AutoRelogin /\ watch.phase # "recover")) /\ UNCHANGED relog
  /\ th' = [p \in Thread |->
       IF p \in as THEN [Idle EXCEPT !.pc = pc, !.why = why, !.of = p]
       ELSE IF p \in Account THEN Idle ELSE th[p]]

Wake ==
  /\ watch.phase = "sleep"
  /\ \E as \in Urgent :
       /\ Batch(as, "preflight", "watch")
       /\ watch' = [phase |-> "urgent", later |-> Here \ as]
  /\ UNCHANGED db

Rest ==
  /\ watch.phase = "urgent"
  /\ \E as \in {{}, watch.later} : Batch(as, "preflight", "watch")
  /\ watch' = [phase |-> "rest", later |-> {}]
  /\ UNCHANGED db

Check ==
  /\ watch.phase = "rest"
  /\ \E as \in Lists : Batch(as, "preflight", "watch")
  /\ watch' = [watch EXCEPT !.phase = "lists"]
  /\ UNCHANGED db

Keepalive ==
  /\ watch.phase = "lists"
  /\ \E as \in Kept : Batch(as, "call", "watch")
  /\ watch' = [watch EXCEPT !.phase = "keep"]
  /\ UNCHANGED db

Recover ==
  /\ watch.phase = "keep"
  /\ \E as \in {{}, Recoverable} : Batch(as, "preflight", "recover")
  /\ watch' = [watch EXCEPT !.phase = "recover"]
  /\ UNCHANGED db

(* _auto_replace_unhealthy: an account that has scored below 20 for an hour *)
(* is retired in favour of another of the pool.                            *)
Heal ==
  /\ watch.phase = "recover"
  /\ Batch({}, "idle", "watch")
  /\ watch' = [watch EXCEPT !.phase = "heal"]
  /\ \/ UNCHANGED db
     \/ /\ TRUE \in AutoReplace
        /\ \E a \in Here \ With({"limited"}) : db' = [db EXCEPT ![a].status = Normalized("replaced")]

Sleep ==
  /\ watch.phase = "heal"
  /\ watch' = [watch EXCEPT !.phase = "sleep"]
  /\ UNCHANGED <<db, th, relog>>

Watcher ==
  /\ Wake \/ Rest \/ Check \/ Keepalive \/ Recover \/ Heal \/ Sleep
  /\ UNCHANGED <<up, holder, job, events>>

-----------------------------------------------------------------------------
(* The other callers: get_text_access_token refreshes what it picked, a 401 *)
(* to a request forces a refresh; image requests, probes, warm-ups and     *)
(* administrators ask the upstream.                                        *)
Schedulable(d) == d.status \notin {"disabled", "abnormal", "aging"}

Call(p, a) ==
  /\ p \in Other /\ th[p].pc = "idle" /\ Event
  /\ \E pc \in {"ease", "call", "preflight"}, why \in {"request", "warmup", "admin"} :
       /\ pc = "ease" => Schedulable(db[a])
       /\ pc = "call" => up[a].token # "accepted"
       /\ why = "warmup" => db[a].status = "normal"
       /\ pc # "preflight" => why = "request"
       /\ db[a].here
       /\ th' = [th EXCEPT ![p] = [Idle EXCEPT !.pc = pc, !.why = why, !.of = a]]
  /\ UNCHANGED <<db, up, holder, relog, watch, job>>

(* update_account and delete_accounts from the console. *)
SetStatus(a) ==
  /\ db[a].here /\ Event
  /\ \/ \E s \in {"normal", "disabled"} : db' = [db EXCEPT ![a].status = s]
     \/ db' = Removed(a)
  /\ UNCHANGED <<up, th, holder, relog, watch, job>>

(* re_login_accounts: one thread for each account with a password, the     *)
(* others are reported at once.                                            *)
ReloginAccounts(as) ==
  LET able == {a \in as : db[a].here /\ HasPassword(a)}
      skipped == Cardinality(as \ able)
      j == [active |-> TRUE, done |-> FALSE, total |-> Cardinality(as), processed |-> 0]
  IN
  /\ ~job.active /\ as # {} /\ Event
  /\ Start(able, TRUE)
  /\ job' = Reported(j, skipped)
  /\ UNCHANGED <<db, up, th, holder, watch>>

(* The world: tokens are rejected, sessions revoked, passwords changed,    *)
(* accounts deactivated.                                                   *)
Trouble(a) ==
  /\ Event
  /\ \/ up[a].token = "accepted" /\ up' = [up EXCEPT ![a].token = "rejected"] /\ UNCHANGED db
     \/ up[a].token # "dead" /\ up' = [up EXCEPT ![a].token = "dead"] /\ UNCHANGED db
     \/ up[a].password = "right" /\ up' = [up EXCEPT ![a].password = "wrong"] /\ UNCHANGED db
     \/ db[a].rt = "live" /\ db' = [db EXCEPT ![a].rt = "revoked"] /\ UNCHANGED up
  /\ th' = [p \in Thread |-> IF th[p].of = a /\ th[p].sent = "live" /\ db'[a].rt = "revoked"
                             THEN [th[p] EXCEPT !.sent = "revoked"] ELSE th[p]]
  /\ UNCHANGED <<holder, relog, watch, job>>

(* promote_aged_accounts, for an account that has aged. *)
Promote(a) ==
  /\ db[a].here /\ db[a].status = "aging"
  /\ db' = [db EXCEPT ![a].status = "normal"]
  /\ UNCHANGED <<up, th, holder, relog, watch, job, events>>

-----------------------------------------------------------------------------
RefreshStep(p) == Enter(p) \/ Issue(p) \/ OauthRefused(p) \/ OauthLost(p) \/ Apply(p)
FetchStep(p) ==
  Ask(p) \/ Deferred(p) \/ Confirmed(p) \/ Remove(p) \/ Mark(p) \/ Book(p) \/ Store(p) \/ Finish(p)
LoginStep(r) == Login(r) \/ ApplyLogin(r) \/ LoginStored(r) \/ LoginFailed(r)

Next ==
  \/ \E p \in Thread : RefreshStep(p) \/ FetchStep(p)
  \/ \E r \in Relogin : LoginStep(r)
  \/ Watcher
  \/ \E p \in Other, a \in Account : Call(p, a)
  \/ \E a \in Account : SetStatus(a) \/ Trouble(a) \/ Promote(a)
  \/ \E as \in SUBSET Account : ReloginAccounts(as)

(* Threads go on, a queue for the lock is served, the watcher wakes up.    *)
(* It does so sixty seconds after it went to sleep, so that again and      *)
(* again a rejection finds the last one more than thirty seconds old.      *)
Spec == Init /\ [][Next]_vars
LiveSpec ==
  /\ Spec
  /\ \A p \in Thread : SF_vars(Enter(p)) /\ WF_vars(RefreshStep(p)) /\ WF_vars(FetchStep(p))
  /\ \A r \in Relogin : WF_vars(LoginStep(r))
  /\ WF_vars(Watcher)
  /\ \A a \in Account : SF_vars(Confirmed(a))

-----------------------------------------------------------------------------
(* The upstream rotates refresh tokens and ends a session whose refresh    *)
(* token comes twice.  A refresh sends one that the upstream has consumed  *)
(* only if the answer to that never reached the service: then the old token*)
(* is all there is, and every later refresh sends it again.  One whose     *)
(* successor is on its way, or has arrived, is never sent, whatever threads*)
(* refresh and whatever logins replace in between.                         *)
Consumed == {"spent", "unanswered"}
OnlyUnansweredResent ==
  \A p \in Thread :
    th[p].oauth = "sent" /\ th[p].sent \in Consumed => th[p].sent = "unanswered"

(* The two fields of the backoff agree: an account between its first and   *)
(* its last attempt has a time for the next, and one without any left has  *)
(* none, which is what tells it was given up.                              *)
BackoffInStep ==
  \A a \in Account :
    db[a].next <=> (0 < db[a].attempts /\ db[a].attempts < MaxAttempts)

(* A request to log in again accounts for each account once: reported, or  *)
(* in a thread that will report it; it is done when all are reported.      *)
JobAddsUp ==
  job.active =>
    /\ job.processed + Cardinality({r \in Relogin : relog[r].job}) = job.total
    /\ job.done <=> job.processed = job.total

(* No late answer, of a refresh, a fetch or a login, brings an account     *)
(* back that was deleted in the meantime.                                  *)
GoneStaysGone == [][\A a \in Account : ~db[a].here => ~db'[a].here]_vars

(* A serving account that the upstream has given up does not stay in       *)
(* service: three rejections that are not too close mark it.               *)
DeadIsMarked ==
  \A a \in Account :
    (db[a].here /\ up[a].token = "dead" /\ db[a].status \in {"normal", "limited"})
      ~> (~db[a].here \/ db[a].status \in {"abnormal", "disabled"})

(* An account whose credentials work is not marked for good: it may be     *)
(* marked again and again (a login with a wrong password that follows a    *)
(* refused refresh does that), and each time it comes back.                *)
Works(a) ==
  /\ db[a].here
  /\ \/ up[a].token = "accepted"
     \/ up[a].token = "rejected" /\ db[a].rt \in {"live", "spent"}
WorkingIsRecovered ==
  \A a \in Account : <>[]Works(a) => []<>(db[a].status # "abnormal")

(* Every thread gets out of a refresh, though all share one lock.          *)
RefreshEnds ==
  \A p \in Thread : (th[p].pc \in Refreshing) ~> (th[p].pc \notin Refreshing)

(* A request to log in again is eventually reported as done.               *)
ReloginReports == job.active ~> job.done
=============================================================================
