----------------------- MODULE AccountLifecycleProofs -----------------------
(***************************************************************************)
(* Proofs about the life of accounts, for any number of accounts, threads, *)
(* logins and attempts, any options and any events.                        *)
(*                                                                         *)
(* The inductive invariant ties what a refresh token is worth to the lock: *)
(* while the pool stores a token whose successor is on its way, the thread *)
(* that sent it has the lock and the answer, so that whoever enters next   *)
(* finds the token that came with the answer, or the account gone, or one  *)
(* whose answer was lost.                                                  *)
(***************************************************************************)
EXTENDS AccountLifecycle, FiniteSetTheorems, TLAPS

USE ThreadAssumption, AttemptAssumption DEF ThreadAssumption, AttemptAssumption, Worth

(* A thread between sending a refresh token and storing what came back has *)
(* the lock.                                                               *)
LockIsHeld ==
  \A p \in Thread : th[p].oauth # "no" => holder = p /\ th[p].pc \in Refreshing

BusyHasAccount ==
  /\ \A p \in Thread : th[p].pc # "idle" => th[p].of \in Account
  /\ \A r \in Relogin : relog[r].pc # "idle" => relog[r].of \in Account

(* A stored refresh token that is used up is about to be replaced.         *)
SpentIsInHand ==
  \A a \in Account : db[a].here /\ db[a].rt = "spent" =>
    \E p \in Thread :
      holder = p /\ th[p].of = a /\ th[p].oauth = "issued" /\ th[p].sent = "live"

LifeInvariant ==
  /\ TypeOK
  /\ LockIsHeld
  /\ BusyHasAccount
  /\ SpentIsInHand
  /\ OnlyUnansweredResent

-----------------------------------------------------------------------------
(* What a step may do to the accounts: no account comes back, and none is  *)
(* left with a refresh token that is used up, unless it was before.        *)
NobodyReturns == \A a \in Account : ~db[a].here => ~db'[a].here

Harmless ==
  /\ db' \in [Account -> AccountRecord]
  /\ NobodyReturns
  /\ \A a \in Account : db'[a].here /\ db'[a].rt = "spent" => db[a].rt = "spent"

LEMMA UnchangedIsHarmless ==
  ASSUME TypeOK, db' = db
  PROVE  Harmless
BY DEF TypeOK, Harmless, NobodyReturns

LEMMA UpdateIsHarmless ==
  ASSUME TypeOK, NEW a \in Account, NEW new \in AccountRecord,
         new.rt = "spent" => db[a].rt = "spent", db' = Updated(a, new)
  PROVE  Harmless
<1>1. CASE db[a].here
  <2>1. db' = [db EXCEPT ![a] = new]
    BY <1>1 DEF Updated
  <2> QED
    BY <1>1, <2>1 DEF TypeOK, Harmless, NobodyReturns
<1>2. CASE ~db[a].here
  BY <1>2, UnchangedIsHarmless DEF Updated
<1> QED
  BY <1>1, <1>2

LEMMA RemovalIsHarmless ==
  ASSUME TypeOK, NEW a \in Account, db' = Removed(a)
  PROVE  Harmless
<1> DEFINE d == [db[a] EXCEPT !.here = FALSE]
<1>0. db[a] \in AccountRecord
  BY DEF TypeOK
<1>1. d \in AccountRecord /\ d.here = FALSE
  BY <1>0 DEF AccountRecord
<1>2. db' = [db EXCEPT ![a] = d]
  BY DEF Removed
<1> HIDE DEF d
<1> QED
  BY <1>1, <1>2 DEF TypeOK, Harmless, NobodyReturns

(* A status that is set. *)
LEMMA SetIsHarmless ==
  ASSUME TypeOK, NEW a \in Account, NEW s \in Status, db[a].here,
         db' = [db EXCEPT ![a].status = s]
  PROVE  Harmless
<1> DEFINE d == [db[a] EXCEPT !.status = s]
<1>0. db[a] \in AccountRecord
  BY DEF TypeOK
<1>1. d \in AccountRecord /\ d.rt = db[a].rt
  BY <1>0 DEF AccountRecord
<1>2. db' = Updated(a, d)
  BY DEF Updated
<1> HIDE DEF d
<1> QED
  BY <1>1, <1>2, UpdateIsHarmless

LEMMA RecordsTyped ==
  ASSUME TypeOK, NEW a \in Account
  PROVE  /\ Renewed(a) \in AccountRecord /\ Renewed(a).rt = "live"
         /\ \A n \in 0..2 : Abnormal(a, n) \in AccountRecord /\ Abnormal(a, n).rt = db[a].rt
         /\ \A s \in Status : LET d == [db[a] EXCEPT !.status = s]
                              IN  d \in AccountRecord /\ d.rt = db[a].rt
         /\ LET d == [db[a] EXCEPT !.invalid = 0] IN d \in AccountRecord /\ d.rt = db[a].rt
<1>1. db[a] \in AccountRecord
  BY DEF TypeOK
<1>2. \A n \in 0..2 : Up(n) \in 0..2
  BY DEF Up
<1>3. Renewed(a) \in AccountRecord /\ Renewed(a).rt = "live"
  <2>1. "live" \in {"none"} \cup Worth /\ 0 \in 0..2
    OBVIOUS
  <2> QED
    BY <1>1, <2>1 DEF Renewed, AccountRecord
<1>4. \A n \in 0..2 : Abnormal(a, n) \in AccountRecord /\ Abnormal(a, n).rt = db[a].rt
  BY <1>1, <1>2 DEF Abnormal, AccountRecord, Status
<1>5. \A s \in Status : LET d == [db[a] EXCEPT !.status = s]
                        IN  d \in AccountRecord /\ d.rt = db[a].rt
  BY <1>1 DEF AccountRecord
<1>6. LET d == [db[a] EXCEPT !.invalid = 0] IN d \in AccountRecord /\ d.rt = db[a].rt
  BY <1>1 DEF AccountRecord
<1> QED
  BY <1>3, <1>4, <1>5, <1>6

-----------------------------------------------------------------------------
(* Threads.  A thread outside the refresh is of no interest to the tokens. *)
LEMMA IdleTyped == Idle \in ThreadRecord /\ Idle.oauth = "no" /\ Idle.pc = "idle"
BY DEF Idle, ThreadRecord, Stage, Reason, Refreshing

LEMMA EndedTyped ==
  ASSUME NEW t \in ThreadRecord, NEW pc \in {"done", "failed"}
  PROVE  /\ Ended(t, pc) \in ThreadRecord
         /\ Ended(t, pc).oauth = "no" /\ Ended(t, pc).of = t.of
<1> DEFINE answer == IF t.why = "warmup" /\ pc = "done" THEN t.answer ELSE Idle.answer
<1>1. answer \in {"normal", "limited"}
  BY DEF ThreadRecord, Idle
<1>2. t.why \in Reason /\ t.of \in Account \cup {None} /\ pc \in Stage
  BY DEF ThreadRecord, Stage
<1>3. Ended(t, pc) = [Idle EXCEPT !.pc = pc, !.why = t.why, !.of = t.of, !.answer = answer]
  BY DEF Ended, Idle
<1> HIDE DEF answer
<1>4. Idle \in ThreadRecord /\ Idle.oauth = "no"
  BY IdleTyped
<1> QED
  BY <1>1, <1>2, <1>3, <1>4 DEF ThreadRecord

LEMMA BackTyped ==
  ASSUME NEW t \in ThreadRecord
  PROVE  /\ Back(t) \in ThreadRecord /\ Back(t).oauth = "no"
         /\ Back(t).pc # "idle" => Back(t).of = t.of
<1> DEFINE u == [t EXCEPT !.oauth = "no", !.sent = "no"]
<1>1. u \in ThreadRecord /\ u.oauth = "no" /\ u.of = t.of
  BY DEF ThreadRecord
<1> HIDE DEF u
<1>2. /\ After(u) \in ThreadRecord /\ After(u).oauth = "no"
      /\ After(u).pc # "idle" => After(u).of = u.of
  <2>1. CASE u.pc = "preflight"
    BY <1>1, <2>1 DEF After, ThreadRecord, Stage
  <2>2. CASE u.pc = "again"
    BY <1>1, <2>2 DEF After, ThreadRecord, Stage, Refreshing
  <2>3. CASE u.pc = "forced"
    BY <1>1, <2>3 DEF After, ThreadRecord, Stage
  <2>4. CASE u.pc = "again2"
    BY <1>1, <2>4 DEF After, ThreadRecord, Stage
  <2>5. CASE u.pc \notin {"preflight", "again", "forced", "again2"}
    BY <1>1, <2>5, EndedTyped, IdleTyped DEF After
  <2> QED
    BY <2>1, <2>2, <2>3, <2>4, <2>5
<1>3. Back(t) = After(u)
  BY DEF Back, u
<1> QED
  BY <1>1, <1>2, <1>3

(* Steps that leave the refresh alone. *)
LEMMA Elsewhere ==
  ASSUME LifeInvariant, Harmless, holder' = holder,
         th' \in [Thread -> ThreadRecord],
         \A p \in Thread :
           \/ th'[p] = th[p]
           \/ /\ th[p].oauth = "no" /\ th'[p].oauth = "no"
              /\ th'[p].pc # "idle" => th'[p].of \in Account,
         \A r \in Relogin : relog'[r].pc # "idle" => relog'[r].of \in Account
  PROVE  LockIsHeld' /\ BusyHasAccount' /\ SpentIsInHand' /\ OnlyUnansweredResent'
<1>1. LockIsHeld'
  BY DEF LifeInvariant, LockIsHeld
<1>2. BusyHasAccount'
  BY DEF LifeInvariant, BusyHasAccount
<1>3. SpentIsInHand'
  <2> SUFFICES ASSUME NEW a \in Account, db'[a].here, db'[a].rt = "spent"
               PROVE  \E p \in Thread : /\ holder' = p /\ th'[p].of = a
                                        /\ th'[p].oauth = "issued" /\ th'[p].sent = "live"
    BY DEF SpentIsInHand
  <2>1. db[a].here /\ db[a].rt = "spent"
    BY DEF Harmless, NobodyReturns, LifeInvariant, TypeOK, AccountRecord
  <2>2. PICK p \in Thread :
          holder = p /\ th[p].of = a /\ th[p].oauth = "issued" /\ th[p].sent = "live"
    BY <2>1 DEF LifeInvariant, SpentIsInHand
  <2>3. th'[p] = th[p]
    BY <2>2
  <2> QED
    BY <2>2, <2>3
<1>4. OnlyUnansweredResent'
  BY DEF LifeInvariant, OnlyUnansweredResent, Consumed
<1> QED
  BY <1>1, <1>2, <1>3, <1>4

(* The same for one thread. *)
LEMMA OneElsewhere ==
  ASSUME LifeInvariant, Harmless, holder' = holder, relog' = relog,
         NEW p \in Thread, NEW x \in ThreadRecord, th' = [th EXCEPT ![p] = x],
         th[p].oauth = "no", x.oauth = "no", x.pc # "idle" => x.of \in Account
  PROVE  /\ th' \in [Thread -> ThreadRecord]
         /\ LockIsHeld' /\ BusyHasAccount' /\ SpentIsInHand' /\ OnlyUnansweredResent'
<1>1. th' \in [Thread -> ThreadRecord]
  BY DEF LifeInvariant, TypeOK
<1>2. \A q \in Thread : IF q = p THEN th'[q] = x ELSE th'[q] = th[q]
  BY DEF LifeInvariant, TypeOK
<1>3. \A r \in Relogin : relog'[r].pc # "idle" => relog'[r].of \in Account
  BY DEF LifeInvariant, BusyHasAccount
<1> QED
  BY <1>1, <1>2, <1>3, Elsewhere

(* A refresh that ends, whatever came of it. *)
LEMMA Released ==
  ASSUME LifeInvariant, Harmless, holder' = None,
         NEW p \in Thread, th[p].oauth # "no",
         th' \in [Thread -> ThreadRecord],
         th'[p].oauth = "no", th'[p].pc # "idle" => th'[p].of \in Account,
         \A q \in Thread \ {p} : /\ th'[q].pc = th[q].pc /\ th'[q].of = th[q].of
                                 /\ th'[q].oauth = th[q].oauth,
         th[p].oauth = "issued" /\ th[p].sent = "live" =>
           (db'[th[p].of].here => db'[th[p].of].rt # "spent"),
         \A r \in Relogin : relog'[r].pc # "idle" => relog'[r].of \in Account
  PROVE  LockIsHeld' /\ BusyHasAccount' /\ SpentIsInHand' /\ OnlyUnansweredResent'
<1>1. \A q \in Thread : th'[q].oauth = "no"
  BY DEF LifeInvariant, LockIsHeld
<1>2. LockIsHeld' /\ OnlyUnansweredResent'
  BY <1>1 DEF LockIsHeld, OnlyUnansweredResent, Consumed
<1>3. BusyHasAccount'
  BY DEF LifeInvariant, BusyHasAccount
<1>4. SpentIsInHand'
  <2> SUFFICES ASSUME NEW a \in Account, db'[a].here, db'[a].rt = "spent"
               PROVE  FALSE
    BY DEF SpentIsInHand
  <2>1. db[a].here /\ db[a].rt = "spent"
    BY DEF Harmless, NobodyReturns, LifeInvariant, TypeOK, AccountRecord
  <2>2. PICK q \in Thread :
          holder = q /\ th[q].of = a /\ th[q].oauth = "issued" /\ th[q].sent = "live"
    BY <2>1 DEF LifeInvariant, SpentIsInHand
  <2>3. q = p
    BY <2>2 DEF LifeInvariant, LockIsHeld
  <2> QED
    BY <2>2, <2>3
<1> QED
  BY <1>2, <1>3, <1>4

ReloginRecord ==
  [pc : {"idle", "login", "apply", "status", "ban", "remove", "mark"},
   of : Account \cup {None}, job : BOOLEAN, count : 0 .. 2]

LEMMA StartTyped ==
  ASSUME TypeOK, BusyHasAccount, NEW as \in SUBSET Account, NEW forJob \in BOOLEAN,
         Start(as, forJob)
  PROVE  /\ relog' \in [Relogin -> ReloginRecord]
         /\ \A r \in Relogin : relog'[r].pc # "idle" => relog'[r].of \in Account
<1> DEFINE free == {r \in Relogin : relog[r].pc = "idle"}
           new(q, s) == [pc |-> "login", of |-> CHOOSE a \in as : s[a] = q,
                         job |-> forJob, count |-> 0]
<1>1. PICK s \in [as -> free] :
        relog' = [q \in Relogin |-> IF \E a \in as : s[a] = q THEN new(q, s) ELSE relog[q]]
  BY DEF Start
<1>2. ASSUME NEW q \in Relogin
      PROVE  relog'[q] \in ReloginRecord /\ (relog'[q].pc # "idle" => relog'[q].of \in Account)
  <2>1. CASE \E a \in as : s[a] = q
    <3>1. PICK b \in Account : b = CHOOSE a \in as : s[a] = q
      BY <2>1
    <3>2. relog'[q] = [pc |-> "login", of |-> b, job |-> forJob, count |-> 0]
      BY <1>1, <2>1, <3>1
    <3>3. [pc |-> "login", of |-> b, job |-> forJob, count |-> 0] \in ReloginRecord
      BY DEF ReloginRecord
    <3> QED
      BY <3>2, <3>3
  <2>2. CASE ~\E a \in as : s[a] = q
    BY <1>1, <2>2 DEF TypeOK, BusyHasAccount, ReloginRecord
  <2> QED
    BY <2>1, <2>2
<1> QED
  BY <1>1, <1>2

LEMMA RelogStays ==
  ASSUME TypeOK, BusyHasAccount, relog' = relog
  PROVE  /\ relog' \in [Relogin -> ReloginRecord]
         /\ \A r \in Relogin : relog'[r].pc # "idle" => relog'[r].of \in Account
BY DEF TypeOK, BusyHasAccount, ReloginRecord

LEMMA EventTyped ==
  ASSUME TypeOK, Event \/ NoEvent
  PROVE  events' \in 0 .. MaxEvents
BY DEF TypeOK, Event, NoEvent

-----------------------------------------------------------------------------
(* The refresh. *)
LEMMA EnterKeeps ==
  ASSUME LifeInvariant, NEW p \in Thread, Enter(p)
  PROVE  LifeInvariant' /\ NobodyReturns
<1> DEFINE t == [th[p] EXCEPT !.differs = @ \/ th[p].held = "old", !.held = "current"]
<1>0. TypeOK /\ UNCHANGED <<db, up, relog, watch, job, events>>
  BY DEF LifeInvariant, Enter
<1>1. th[p] \in ThreadRecord /\ th[p].oauth = "no" /\ th[p].pc \in Refreshing /\ holder = None
  BY DEF Enter, LifeInvariant, TypeOK
<1>2. th[p].of \in Account
  BY <1>1 DEF LifeInvariant, BusyHasAccount, Refreshing
<1>3. t \in ThreadRecord /\ t.of = th[p].of /\ t.oauth = "no" /\ t.pc = th[p].pc
  BY <1>1 DEF ThreadRecord
<1>4. Harmless
  BY <1>0, UnchangedIsHarmless
<1> HIDE DEF t
<1>5. CASE th' = [th EXCEPT ![p] = Back(t)] /\ UNCHANGED holder
  <2>1. /\ th' \in [Thread -> ThreadRecord]
        /\ LockIsHeld' /\ BusyHasAccount' /\ SpentIsInHand' /\ OnlyUnansweredResent'
    BY <1>0, <1>1, <1>2, <1>3, <1>4, <1>5, BackTyped, OneElsewhere
  <2> QED
    BY <1>0, <1>4, <1>5, <2>1 DEF LifeInvariant, TypeOK, Harmless
<1>6. CASE /\ ~NothingToDo(db[t.of])
           /\ th' = [th EXCEPT ![p] = [t EXCEPT !.oauth = "sent", !.sent = db[t.of].rt]]
           /\ holder' = p
  <2> DEFINE x == [t EXCEPT !.oauth = "sent", !.sent = db[t.of].rt]
  <2>1. db[t.of] \in AccountRecord /\ db[t.of].here /\ db[t.of].rt # "none"
    BY <1>0, <1>2, <1>3, <1>6 DEF TypeOK, NothingToDo, AccountRecord
  <2>2. db[t.of].rt # "spent"
    BY <1>1, <1>2, <1>3, <2>1 DEF LifeInvariant, SpentIsInHand
  <2>3. db[t.of].rt \in {"live", "unanswered", "revoked"}
    BY <2>1, <2>2 DEF AccountRecord
  <2>4. x \in ThreadRecord /\ x.oauth = "sent" /\ x.sent = db[t.of].rt
        /\ x.pc = t.pc /\ x.of = t.of
    BY <1>3, <2>3 DEF ThreadRecord
  <2>5. th' = [th EXCEPT ![p] = x]
    BY <1>6
  <2> HIDE DEF x
  <2>6. \A q \in Thread : th[q].oauth = "no"
    BY <1>1 DEF LifeInvariant, LockIsHeld
  <2>7. th' \in [Thread -> ThreadRecord]
        /\ \A q \in Thread : th'[q] = IF q = p THEN x ELSE th[q]
    BY <1>0, <2>4, <2>5 DEF TypeOK
  <2>8. LockIsHeld'
    BY <1>1, <1>3, <1>6, <2>4, <2>6, <2>7 DEF LockIsHeld
  <2>9. BusyHasAccount'
    BY <1>0, <1>2, <1>3, <2>4, <2>7 DEF LifeInvariant, BusyHasAccount
  <2>10. SpentIsInHand'
    BY <1>0, <1>1 DEF LifeInvariant, SpentIsInHand
  <2>11. OnlyUnansweredResent'
    BY <2>2, <2>4, <2>6, <2>7 DEF OnlyUnansweredResent, Consumed
  <2> QED
    BY <1>0, <1>4, <1>6, <2>7, <2>8, <2>9, <2>10, <2>11
       DEF LifeInvariant, TypeOK, Harmless
<1> QED
  BY <1>4, <1>5, <1>6 DEF Enter, t

LEMMA IssueKeeps ==
  ASSUME LifeInvariant, NEW p \in Thread, Issue(p)
  PROVE  LifeInvariant' /\ NobodyReturns
<1> DEFINE t == th[p]
           a == t.of
<1>0. TypeOK /\ UNCHANGED <<up, holder, relog, watch, job, events>>
  BY DEF LifeInvariant, Issue
<1>1. t \in ThreadRecord /\ t.oauth = "sent" /\ holder = p /\ t.pc \in Refreshing
  BY DEF Issue, LifeInvariant, LockIsHeld, TypeOK
<1>2. a \in Account
  BY <1>1 DEF LifeInvariant, BusyHasAccount, Refreshing
<1>3. \A q \in Thread \ {p} : th[q].oauth = "no"
  BY <1>1 DEF LifeInvariant, LockIsHeld
<1>4. \A q \in Thread :
        /\ th'[q] \in ThreadRecord
        /\ th'[q].pc = th[q].pc /\ th'[q].of = th[q].of
        /\ th'[q].oauth = IF q = p THEN "issued" ELSE th[q].oauth
        /\ q = p => th'[q].sent = t.sent
  <2> SUFFICES ASSUME NEW q \in Thread
               PROVE  /\ th'[q] \in ThreadRecord
                      /\ th'[q].pc = th[q].pc /\ th'[q].of = th[q].of
                      /\ th'[q].oauth = IF q = p THEN "issued" ELSE th[q].oauth
                      /\ q = p => th'[q].sent = t.sent
    OBVIOUS
  <2>1. th[q] \in ThreadRecord
    BY <1>0 DEF TypeOK
  <2>2. CASE q = p
    BY <2>1, <2>2 DEF Issue, ThreadRecord
  <2>3. CASE q # p /\ th'[q] = th[q]
    BY <2>1, <2>3
  <2>4. CASE q # p /\ th'[q] = [th[q] EXCEPT !.sent = "spent"]
    BY <2>1, <2>4 DEF ThreadRecord
  <2> QED
    BY <2>2, <2>3, <2>4 DEF Issue
<1>5. th' \in [Thread -> ThreadRecord]
  BY <1>4 DEF Issue
<1>6. /\ db' \in [Account -> AccountRecord]
      /\ \A b \in Account : /\ db'[b].here = db[b].here
                            /\ b # a \/ t.sent # "live" => db'[b] = db[b]
  <2>1. CASE t.sent = "live"
    <3> DEFINE d == [db[a] EXCEPT !.rt = "spent"]
    <3>1. db' = [db EXCEPT ![a] = d]
      BY <2>1 DEF Issue
    <3>2. db[a] \in AccountRecord
      BY <1>0, <1>2 DEF TypeOK
    <3>3. d \in AccountRecord /\ d.here = db[a].here
      BY <3>2 DEF AccountRecord
    <3> HIDE DEF d
    <3> QED
      BY <1>0, <1>2, <2>1, <3>1, <3>3 DEF TypeOK
  <2>2. CASE t.sent # "live"
    BY <1>0, <2>2 DEF Issue, TypeOK
  <2> QED
    BY <2>1, <2>2
<1>7. LockIsHeld' /\ OnlyUnansweredResent'
  BY <1>0, <1>1, <1>3, <1>4 DEF LockIsHeld, OnlyUnansweredResent, Consumed
<1>8. BusyHasAccount'
  BY <1>0, <1>4 DEF LifeInvariant, BusyHasAccount
<1>9. SpentIsInHand'
  <2> SUFFICES ASSUME NEW b \in Account, db'[b].here, db'[b].rt = "spent"
               PROVE  \E q \in Thread : /\ holder' = q /\ th'[q].of = b
                                        /\ th'[q].oauth = "issued" /\ th'[q].sent = "live"
    BY DEF SpentIsInHand
  <2>1. CASE b = a /\ t.sent = "live"
    BY <1>0, <1>1, <1>4, <2>1
  <2>2. CASE b # a \/ t.sent # "live"
    <3>1. db[b].here /\ db[b].rt = "spent"
      BY <1>6, <2>2
    <3> QED
      BY <1>1, <3>1 DEF LifeInvariant, SpentIsInHand
  <2> QED
    BY <2>1, <2>2
<1>10. LifeInvariant'
  BY <1>0, <1>5, <1>6, <1>7, <1>8, <1>9 DEF LifeInvariant, TypeOK
<1> QED
  BY <1>6, <1>10 DEF NobodyReturns

(* The thread that has the lock, and what it goes back to. *)
LEMMA HolderReturns ==
  ASSUME LifeInvariant, NEW p \in Thread, th[p].oauth # "no"
  PROVE  /\ TypeOK /\ th[p] \in ThreadRecord /\ holder = p /\ th[p].of \in Account
         /\ Back(th[p]) \in ThreadRecord /\ Back(th[p]).oauth = "no"
         /\ Back(th[p]).pc # "idle" => Back(th[p]).of = th[p].of
<1>1. TypeOK /\ th[p] \in ThreadRecord /\ holder = p /\ th[p].pc \in Refreshing
  BY DEF LifeInvariant, TypeOK, LockIsHeld
<1>2. th[p].of \in Account
  BY <1>1 DEF LifeInvariant, BusyHasAccount, Refreshing
<1> QED
  BY <1>1, <1>2, BackTyped

LEMMA OauthRefusedKeeps ==
  ASSUME LifeInvariant, NEW p \in Thread, OauthRefused(p)
  PROVE  LifeInvariant' /\ NobodyReturns
<1> DEFINE b == Back(th[p])
           a == th[p].of
<1>1. /\ TypeOK /\ a \in Account /\ th[p].oauth = "sent"
      /\ b \in ThreadRecord /\ b.oauth = "no" /\ (b.pc # "idle" => b.of = a)
  BY HolderReturns DEF OauthRefused
<1>2. /\ th' = [th EXCEPT ![p] = b] /\ holder' = None
      /\ UNCHANGED <<db, up, watch, job>> /\ (Event \/ NoEvent)
  BY DEF OauthRefused, Unrefreshed
<1> HIDE DEF b
<1>3. Harmless
  BY <1>1, <1>2, UnchangedIsHarmless
<1>4. /\ relog' \in [Relogin -> ReloginRecord]
      /\ \A r \in Relogin : relog'[r].pc # "idle" => relog'[r].of \in Account
  BY <1>1, StartTyped, RelogStays DEF OauthRefused, LifeInvariant
<1>5. /\ th' \in [Thread -> ThreadRecord] /\ th'[p] = b
      /\ \A q \in Thread \ {p} : th'[q] = th[q]
  BY <1>1, <1>2 DEF TypeOK
<1>6. LockIsHeld' /\ BusyHasAccount' /\ SpentIsInHand' /\ OnlyUnansweredResent'
  BY <1>1, <1>2, <1>3, <1>4, <1>5, Released
<1>7. events' \in 0 .. MaxEvents
  BY <1>1, <1>2, EventTyped
<1> QED
  BY <1>1, <1>2, <1>3, <1>4, <1>5, <1>6, <1>7
     DEF LifeInvariant, Harmless, TypeOK, ReloginRecord

LEMMA OauthLostKeeps ==
  ASSUME LifeInvariant, NEW p \in Thread, OauthLost(p)
  PROVE  LifeInvariant' /\ NobodyReturns
<1> DEFINE b == Back(th[p])
           a == th[p].of
           d == [db[a] EXCEPT !.rt = "unanswered"]
<1>1. /\ TypeOK /\ a \in Account /\ th[p].oauth = "issued"
      /\ b \in ThreadRecord /\ b.oauth = "no" /\ (b.pc # "idle" => b.of = a)
  BY HolderReturns DEF OauthLost
<1>2. /\ th' = [th EXCEPT ![p] = b] /\ holder' = None
      /\ UNCHANGED <<up, watch, job, relog>> /\ Event
  BY DEF OauthLost, Unrefreshed
<1>3. db[a] \in AccountRecord
  BY <1>1 DEF TypeOK
<1>4. d \in AccountRecord /\ d.rt = "unanswered" /\ d.here = db[a].here
  BY <1>3 DEF AccountRecord
<1>5. db' = IF th[p].sent = "live" THEN [db EXCEPT ![a] = d] ELSE db
  BY DEF OauthLost
<1> HIDE DEF b, d
<1>6. Harmless /\ (th[p].sent = "live" => db'[a].rt # "spent")
  <2>1. CASE th[p].sent = "live"
    BY <1>1, <1>4, <1>5, <2>1 DEF TypeOK, Harmless, NobodyReturns
  <2>2. CASE th[p].sent # "live"
    BY <1>1, <1>5, <2>2, UnchangedIsHarmless
  <2> QED
    BY <2>1, <2>2
<1>7. /\ relog' \in [Relogin -> ReloginRecord]
      /\ \A r \in Relogin : relog'[r].pc # "idle" => relog'[r].of \in Account
  BY <1>1, <1>2, RelogStays DEF LifeInvariant
<1>8. /\ th' \in [Thread -> ThreadRecord] /\ th'[p] = b
      /\ \A q \in Thread \ {p} : th'[q] = th[q]
  BY <1>1, <1>2 DEF TypeOK
<1>9. LockIsHeld' /\ BusyHasAccount' /\ SpentIsInHand' /\ OnlyUnansweredResent'
  BY <1>1, <1>2, <1>6, <1>7, <1>8, Released
<1>10. events' \in 0 .. MaxEvents
  BY <1>1, <1>2, EventTyped
<1> QED
  BY <1>1, <1>2, <1>6, <1>7, <1>8, <1>9, <1>10
     DEF LifeInvariant, Harmless, TypeOK, ReloginRecord

(* A login or a refresh changes what the upstream thinks of the token. *)
LEMMA AcceptedTyped ==
  ASSUME TypeOK, NEW a \in Account,
         up' = [up EXCEPT ![a].token = IF @ = "dead" THEN "dead" ELSE "accepted"]
  PROVE  up' \in [Account -> [token : {"accepted", "rejected", "dead"},
                              password : {"none", "right", "wrong"}]]
<1>1. up[a] \in [token : {"accepted", "rejected", "dead"}, password : {"none", "right", "wrong"}]
  BY DEF TypeOK
<1> DEFINE u == [up[a] EXCEPT !.token = IF @ = "dead" THEN "dead" ELSE "accepted"]
<1>2. u \in [token : {"accepted", "rejected", "dead"}, password : {"none", "right", "wrong"}]
  BY <1>1
<1>3. up' = [up EXCEPT ![a] = u]
  OBVIOUS
<1> HIDE DEF u
<1> QED
  BY <1>2, <1>3 DEF TypeOK

(* Threads whose account got another token. *)
LEMMA RotatedTyped ==
  ASSUME NEW threads \in [Thread -> ThreadRecord], NEW a
  PROVE  /\ Rotated(a, threads) \in [Thread -> ThreadRecord]
         /\ \A q \in Thread : /\ Rotated(a, threads)[q].pc = threads[q].pc
                              /\ Rotated(a, threads)[q].of = threads[q].of
                              /\ Rotated(a, threads)[q].oauth = threads[q].oauth
                              /\ Rotated(a, threads)[q].sent = threads[q].sent
<1>1. ASSUME NEW q \in Thread
      PROVE  LET x == IF threads[q].of # a THEN threads[q] ELSE [threads[q] EXCEPT !.held = "old"]
             IN  /\ x \in ThreadRecord
                 /\ x.pc = threads[q].pc /\ x.of = threads[q].of
                 /\ x.oauth = threads[q].oauth /\ x.sent = threads[q].sent
  <2>1. threads[q] \in ThreadRecord
    OBVIOUS
  <2> QED
    BY <2>1 DEF ThreadRecord
<1> QED
  BY <1>1 DEF Rotated

LEMMA ApplyKeeps ==
  ASSUME LifeInvariant, NEW p \in Thread, Apply(p)
  PROVE  LifeInvariant' /\ NobodyReturns
<1> DEFINE t == th[p]
           a == t.of
           got == [t EXCEPT !.held = "current", !.differs = TRUE]
<1>1. /\ TypeOK /\ t \in ThreadRecord /\ a \in Account /\ t.oauth = "issued"
      /\ Back(t) \in ThreadRecord /\ Back(t).oauth = "no" /\ (Back(t).pc # "idle" => Back(t).of = a)
  BY HolderReturns DEF Apply
<1>2. holder' = None /\ UNCHANGED <<relog, watch, job, events>>
  BY DEF Apply
<1>3. got \in ThreadRecord /\ got.of = a
  BY <1>1 DEF ThreadRecord
<1>4. Back(got) \in ThreadRecord /\ Back(got).oauth = "no" /\ (Back(got).pc # "idle" => Back(got).of = a)
  BY <1>3, BackTyped
<1>5. /\ relog' \in [Relogin -> ReloginRecord]
      /\ \A r \in Relogin : relog'[r].pc # "idle" => relog'[r].of \in Account
  BY <1>1, <1>2, RelogStays DEF LifeInvariant
<1>6. CASE ~db[a].here /\ th' = [th EXCEPT ![p] = Back(t)] /\ UNCHANGED <<db, up>>
  <2>1. Harmless
    BY <1>1, <1>6, UnchangedIsHarmless
  <2>2. /\ th' \in [Thread -> ThreadRecord] /\ th'[p] = Back(t)
        /\ \A q \in Thread \ {p} : th'[q] = th[q]
    BY <1>1, <1>6 DEF TypeOK
  <2>3. LockIsHeld' /\ BusyHasAccount' /\ SpentIsInHand' /\ OnlyUnansweredResent'
    BY <1>1, <1>2, <1>5, <1>6, <2>1, <2>2, Released
  <2> QED
    BY <1>1, <1>2, <1>5, <1>6, <2>1, <2>2, <2>3
       DEF LifeInvariant, Harmless, TypeOK, ReloginRecord
<1>7. CASE /\ db[a].here
           /\ db' = [db EXCEPT ![a] = Renewed(a)]
           /\ up' = [up EXCEPT ![a].token = IF @ = "dead" THEN "dead" ELSE "accepted"]
           /\ th' = [Rotated(a, th) EXCEPT ![p] = Back(got)]
  <2>1. db' = Updated(a, Renewed(a))
    BY <1>7 DEF Updated
  <2>2. Harmless
    BY <1>1, <2>1, RecordsTyped, UpdateIsHarmless
  <2>3. db'[a].rt # "spent"
    BY <1>1, <1>7, RecordsTyped DEF TypeOK
  <2>4. /\ Rotated(a, th) \in [Thread -> ThreadRecord]
        /\ \A q \in Thread : /\ Rotated(a, th)[q].pc = th[q].pc
                             /\ Rotated(a, th)[q].of = th[q].of
                             /\ Rotated(a, th)[q].oauth = th[q].oauth
    BY <1>1, RotatedTyped DEF TypeOK
  <2> HIDE DEF got
  <2>5. /\ th' \in [Thread -> ThreadRecord] /\ th'[p] = Back(got)
        /\ \A q \in Thread \ {p} : th'[q] = Rotated(a, th)[q]
    BY <1>4, <1>7, <2>4
  <2>6. LockIsHeld' /\ BusyHasAccount' /\ SpentIsInHand' /\ OnlyUnansweredResent'
    BY <1>1, <1>2, <1>4, <1>5, <2>2, <2>3, <2>4, <2>5, Released
  <2>7. up' \in [Account -> [token : {"accepted", "rejected", "dead"},
                             password : {"none", "right", "wrong"}]]
    BY <1>1, <1>7, AcceptedTyped
  <2> QED
    BY <1>1, <1>2, <1>5, <2>2, <2>5, <2>6, <2>7
       DEF LifeInvariant, Harmless, TypeOK, ReloginRecord
<1> QED
  BY <1>6, <1>7 DEF Apply

-----------------------------------------------------------------------------
(* What fetch_remote_info does outside the refresh. *)
LEMMA OneMoves ==
  ASSUME LifeInvariant, Harmless, NEW p \in Thread, NEW x \in ThreadRecord,
         th' = [th EXCEPT ![p] = x], th[p].oauth = "no",
         x.oauth = "no", x.pc # "idle" => x.of \in Account,
         UNCHANGED <<up, holder, relog, watch, job>>, events' \in 0 .. MaxEvents
  PROVE  LifeInvariant' /\ NobodyReturns
<1>1. /\ th' \in [Thread -> ThreadRecord]
      /\ LockIsHeld' /\ BusyHasAccount' /\ SpentIsInHand' /\ OnlyUnansweredResent'
  BY OneElsewhere
<1> QED
  BY <1>1 DEF LifeInvariant, Harmless, TypeOK

LEMMA OutsideRefresh ==
  ASSUME LifeInvariant, NEW p \in Thread, th[p].pc \notin Refreshing, th[p].pc # "idle"
  PROVE  TypeOK /\ th[p] \in ThreadRecord /\ th[p].oauth = "no" /\ th[p].of \in Account
BY DEF LifeInvariant, TypeOK, LockIsHeld, BusyHasAccount

LEMMA GotoMoves ==
  ASSUME LifeInvariant, Harmless, NEW p \in Thread, NEW to \in Stage,
         th[p].pc \notin Refreshing, th[p].pc # "idle", Goto(p, to),
         UNCHANGED <<up, holder, relog, watch, job>>, events' \in 0 .. MaxEvents
  PROVE  LifeInvariant' /\ NobodyReturns
<1> DEFINE x == [th[p] EXCEPT !.pc = to]
<1>1. th[p] \in ThreadRecord /\ th[p].oauth = "no" /\ th[p].of \in Account
  BY OutsideRefresh
<1>2. x \in ThreadRecord /\ x.oauth = "no" /\ x.of = th[p].of
  BY <1>1 DEF ThreadRecord
<1>3. th' = [th EXCEPT ![p] = x]
  BY DEF Goto
<1> HIDE DEF x
<1> QED
  BY <1>1, <1>2, <1>3, OneMoves

LEMMA EndsMoves ==
  ASSUME LifeInvariant, Harmless, NEW p \in Thread, NEW to \in {"done", "failed"},
         th[p].pc \notin Refreshing, th[p].pc # "idle", Ends(p, to),
         UNCHANGED <<up, holder, relog, watch, job>>, events' \in 0 .. MaxEvents
  PROVE  LifeInvariant' /\ NobodyReturns
<1>1. th[p] \in ThreadRecord /\ th[p].oauth = "no" /\ th[p].of \in Account
  BY OutsideRefresh
<1>2. PICK x : x = Ended(th[p], to)
  OBVIOUS
<1>3. x \in ThreadRecord /\ x.oauth = "no" /\ x.of = th[p].of
  BY <1>1, <1>2, EndedTyped
<1>4. th' = [th EXCEPT ![p] = x]
  BY <1>2 DEF Ends
<1> QED
  BY <1>1, <1>3, <1>4, OneMoves

LEMMA CountedIsHarmless ==
  ASSUME TypeOK, NEW a \in Account, Counted(a)
  PROVE  Harmless
<1>1. PICK d \in {db[a]} \cup (IF db[a].attempts < MaxAttempts THEN {Tried(db[a])} ELSE {}) :
        db' = Updated(a, [d EXCEPT !.invalid = Up(@)])
  BY DEF Counted
<1>2. db[a] \in AccountRecord
  BY DEF TypeOK
<1>3. d \in AccountRecord /\ d.rt = db[a].rt
  <2>1. CASE d = db[a]
    BY <1>2, <2>1
  <2>2. CASE db[a].attempts < MaxAttempts /\ d = Tried(db[a])
    <3>1. PICK n \in 0 .. MaxAttempts : n = db[a].attempts + 1
      BY <1>2, <2>2 DEF AccountRecord
    <3>2. d = [db[a] EXCEPT !.attempts = n, !.next = (n < MaxAttempts)]
      BY <1>2, <2>2, <3>1 DEF Tried, AccountRecord
    <3>3. CASE n < MaxAttempts
      <4>1. d = [db[a] EXCEPT !.attempts = n, !.next = TRUE]
        BY <3>2, <3>3
      <4> QED
        BY <1>2, <4>1 DEF AccountRecord
    <3>4. CASE ~(n < MaxAttempts)
      <4>0. (n < MaxAttempts) = FALSE
        BY <3>4
      <4>1. d = [db[a] EXCEPT !.attempts = n, !.next = FALSE]
        BY <3>2, <4>0
      <4> QED
        BY <1>2, <4>1 DEF AccountRecord
    <3> QED
      BY <3>3, <3>4
  <2> QED
    BY <1>1, <2>1, <2>2
<1> DEFINE x == [d EXCEPT !.invalid = Up(@)]
<1>4. x \in AccountRecord /\ x.rt = d.rt
  <2>1. Up(d.invalid) \in 0 .. 2
    BY <1>3 DEF Up, AccountRecord
  <2> QED
    BY <1>3, <2>1 DEF AccountRecord
<1>5. db' = Updated(a, x)
  BY <1>1
<1> HIDE DEF x
<1> QED
  BY <1>3, <1>4, <1>5, UpdateIsHarmless

LEMMA AskKeeps ==
  ASSUME LifeInvariant, NEW p \in Thread, Ask(p)
  PROVE  LifeInvariant' /\ NobodyReturns
<1>1. th[p].pc \notin Refreshing /\ th[p].pc # "idle"
  BY DEF Ask, Refreshing
<1>2. TypeOK /\ th[p] \in ThreadRecord /\ th[p].oauth = "no" /\ th[p].of \in Account
  BY <1>1, OutsideRefresh
<1>3. UNCHANGED <<db, up, holder, relog, watch, job>> /\ (Event \/ NoEvent)
  BY DEF Ask
<1>4. Harmless /\ events' \in 0 .. MaxEvents
  BY <1>2, <1>3, UnchangedIsHarmless, EventTyped
<1>5. ASSUME NEW s \in {"normal", "limited"},
             th' = [th EXCEPT ![p] = [@ EXCEPT !.pc = "booked", !.answer = s, !.differs = FALSE]]
      PROVE  LifeInvariant' /\ NobodyReturns
  <2> DEFINE x == [th[p] EXCEPT !.pc = "booked", !.answer = s, !.differs = FALSE]
  <2>1. x \in ThreadRecord /\ x.oauth = "no" /\ x.of = th[p].of
    BY <1>2 DEF ThreadRecord, Stage
  <2>2. th' = [th EXCEPT ![p] = x]
    BY <1>5
  <2> HIDE DEF x
  <2> QED
    BY <1>2, <1>3, <1>4, <2>1, <2>2, OneMoves
<1>6. ASSUME NEW to \in {"again", "again2", "remove"}, Goto(p, to)
      PROVE  LifeInvariant' /\ NobodyReturns
  <2>1. to \in Stage
    BY DEF Stage, Refreshing
  <2> QED
    BY <1>1, <1>3, <1>4, <1>6, <2>1, GotoMoves
<1>7. CASE Ends(p, "failed")
  BY <1>1, <1>3, <1>4, <1>7, EndsMoves
<1>8. (IF th[p].pc = "ask" THEN "again" ELSE "again2") \in {"again", "again2", "remove"}
  OBVIOUS
<1> QED
  BY <1>5, <1>6, <1>7, <1>8 DEF Ask

LEMMA RemoveKeeps ==
  ASSUME LifeInvariant, NEW p \in Thread, Remove(p)
  PROVE  LifeInvariant' /\ NobodyReturns
<1> DEFINE a == th[p].of
<1>1. th[p].pc \notin Refreshing /\ th[p].pc # "idle"
  BY DEF Remove, Refreshing
<1>2. TypeOK /\ th[p] \in ThreadRecord /\ th[p].oauth = "no" /\ a \in Account
  BY <1>1, OutsideRefresh
<1>3. UNCHANGED <<up, holder, relog, watch, job>> /\ events' \in 0 .. MaxEvents
  BY <1>2 DEF Remove, TypeOK
<1>4. CASE db' = Removed(a) /\ Ends(p, "failed")
  BY <1>1, <1>2, <1>3, <1>4, RemovalIsHarmless, EndsMoves
<1>5. CASE /\ th' = [th EXCEPT ![p] = [@ EXCEPT !.pc = "mark", !.count = db[a].invalid]]
           /\ UNCHANGED db
  <2> DEFINE x == [th[p] EXCEPT !.pc = "mark", !.count = db[a].invalid]
  <2>1. db[a].invalid \in 0 .. 2
    BY <1>2 DEF TypeOK, AccountRecord
  <2>2. x \in ThreadRecord /\ x.oauth = "no" /\ x.of = a
    BY <1>2, <2>1 DEF ThreadRecord, Stage
  <2>3. th' = [th EXCEPT ![p] = x]
    BY <1>5
  <2> HIDE DEF x
  <2> QED
    BY <1>2, <1>3, <1>5, <2>2, <2>3, UnchangedIsHarmless, OneMoves
<1> QED
  BY <1>4, <1>5 DEF Remove

LEMMA StoreKeeps ==
  ASSUME LifeInvariant, NEW p \in Thread, Store(p)
  PROVE  LifeInvariant' /\ NobodyReturns
<1> DEFINE a == th[p].of
           s == th[p].answer
           d == [db[a] EXCEPT !.status = s]
<1>1. th[p].pc \notin Refreshing /\ th[p].pc # "idle"
  BY DEF Store, Refreshing
<1>2. TypeOK /\ th[p] \in ThreadRecord /\ a \in Account
  BY <1>1, OutsideRefresh
<1>3. UNCHANGED <<up, holder, relog, watch, job>> /\ events' \in 0 .. MaxEvents
  BY <1>2 DEF Store, TypeOK
<1>4. s \in Status
  BY <1>2 DEF ThreadRecord, Status
<1>5. d \in AccountRecord /\ d.rt = db[a].rt
  BY <1>2, <1>4, RecordsTyped
<1>6. db' = Updated(a, d) \/ db' = Removed(a)
  BY DEF Store
<1> HIDE DEF d
<1>7. Harmless
  BY <1>2, <1>5, <1>6, UpdateIsHarmless, RemovalIsHarmless
<1>8. Ends(p, "done")
  BY DEF Store
<1> QED
  BY <1>1, <1>3, <1>7, <1>8, EndsMoves

LEMMA CountingKeeps ==
  ASSUME LifeInvariant, NEW p \in Thread,
         Deferred(p) \/ Confirmed(p) \/ Mark(p) \/ Book(p)
  PROVE  LifeInvariant' /\ NobodyReturns
<1> DEFINE a == th[p].of
<1>1. th[p].pc \in {"seen", "mark", "booked"}
  BY DEF Deferred, Confirmed, Mark, Book
<1>2. th[p].pc \notin Refreshing /\ th[p].pc # "idle"
  BY <1>1 DEF Refreshing
<1>3. TypeOK /\ th[p] \in ThreadRecord /\ a \in Account
  BY <1>2, OutsideRefresh
<1>4. UNCHANGED <<up, holder, relog, watch, job>> /\ events' \in 0 .. MaxEvents
  BY <1>3 DEF Deferred, Confirmed, Mark, Book, TypeOK
<1>5. CASE Deferred(p)
  BY <1>2, <1>3, <1>4, <1>5, CountedIsHarmless, EndsMoves DEF Deferred
<1>6. CASE Confirmed(p)
  <2>1. "remove" \in Stage
    BY DEF Stage
  <2> QED
    BY <1>2, <1>3, <1>4, <1>6, <2>1, CountedIsHarmless, GotoMoves DEF Confirmed
<1>7. CASE Mark(p)
  <2>1. PICK d : d = Abnormal(a, th[p].count)
    OBVIOUS
  <2>2. d \in AccountRecord /\ d.rt = db[a].rt
    BY <1>3, <2>1, RecordsTyped, ZenonT(60) DEF ThreadRecord
  <2>3. db' = Updated(a, d) /\ Ends(p, "failed")
    BY <1>7, <2>1 DEF Mark
  <2> QED
    BY <1>2, <1>3, <1>4, <2>2, <2>3, UpdateIsHarmless, EndsMoves
<1>8. CASE Book(p)
  <2>1. PICK d : d = [db[a] EXCEPT !.invalid = 0]
    OBVIOUS
  <2>2. d \in AccountRecord /\ d.rt = db[a].rt
    BY <1>3, <2>1, RecordsTyped
  <2>3. db' = Updated(a, d) /\ Goto(p, "store") /\ "store" \in Stage
    BY <1>8, <2>1 DEF Book, Stage
  <2> QED
    BY <1>2, <1>3, <1>4, <2>2, <2>3, UpdateIsHarmless, GotoMoves
<1> QED
  BY <1>5, <1>6, <1>7, <1>8

LEMMA FinishKeeps ==
  ASSUME LifeInvariant, NEW p \in Thread, Finish(p)
  PROVE  LifeInvariant' /\ NobodyReturns
<1> DEFINE a == th[p].of
<1>1. th[p].pc \notin Refreshing /\ th[p].pc # "idle"
  BY DEF Finish, Refreshing
<1>2. TypeOK /\ th[p] \in ThreadRecord /\ th[p].oauth = "no" /\ a \in Account
  BY <1>1, OutsideRefresh
<1>3. /\ UNCHANGED <<up, holder, watch, job>> /\ (Event \/ NoEvent)
      /\ th' = [th EXCEPT ![p] = Idle]
  BY DEF Finish
<1>4. Harmless
  <2>1. PICK d : d = [db[a] EXCEPT !.status = "abnormal"]
    OBVIOUS
  <2>2. d \in AccountRecord /\ d.rt = db[a].rt
    BY <1>2, <2>1, RecordsTyped DEF Status
  <2>3. db' = Updated(a, d) \/ db' = db
    BY <2>1 DEF Finish
  <2> QED
    BY <1>2, <2>2, <2>3, UpdateIsHarmless, UnchangedIsHarmless
<1>5. /\ relog' \in [Relogin -> ReloginRecord]
      /\ \A r \in Relogin : relog'[r].pc # "idle" => relog'[r].of \in Account
  BY <1>2, StartTyped, RelogStays DEF Finish, LifeInvariant
<1>6. /\ th' \in [Thread -> ThreadRecord] /\ th'[p] = Idle
      /\ \A q \in Thread \ {p} : th'[q] = th[q]
  BY <1>2, <1>3, IdleTyped DEF TypeOK
<1>7. LockIsHeld' /\ BusyHasAccount' /\ SpentIsInHand' /\ OnlyUnansweredResent'
  BY <1>2, <1>3, <1>4, <1>5, <1>6, IdleTyped, Elsewhere
<1>8. events' \in 0 .. MaxEvents
  BY <1>2, <1>3, EventTyped
<1> QED
  BY <1>2, <1>3, <1>4, <1>5, <1>6, <1>7, <1>8
     DEF LifeInvariant, Harmless, TypeOK, ReloginRecord

-----------------------------------------------------------------------------
(* Logins, and what happens to accounts from outside. *)

(* Refresh tokens in use that a login or the world makes worthless. *)
LEMMA WorthChanges ==
  ASSUME LifeInvariant, Harmless, holder' = holder,
         th' \in [Thread -> ThreadRecord],
         \A p \in Thread :
           /\ th'[p].pc = th[p].pc /\ th'[p].of = th[p].of /\ th'[p].oauth = th[p].oauth
           /\ \/ th'[p].sent = th[p].sent
              \/ th'[p].sent # "spent" /\ db'[th[p].of].rt # "spent",
         \A r \in Relogin : relog'[r].pc # "idle" => relog'[r].of \in Account
  PROVE  LockIsHeld' /\ BusyHasAccount' /\ SpentIsInHand' /\ OnlyUnansweredResent'
<1>1. LockIsHeld' /\ BusyHasAccount' /\ OnlyUnansweredResent'
  BY DEF LifeInvariant, LockIsHeld, BusyHasAccount, OnlyUnansweredResent, Consumed
<1>2. SpentIsInHand'
  <2> SUFFICES ASSUME NEW a \in Account, db'[a].here, db'[a].rt = "spent"
               PROVE  \E p \in Thread : /\ holder' = p /\ th'[p].of = a
                                        /\ th'[p].oauth = "issued" /\ th'[p].sent = "live"
    BY DEF SpentIsInHand
  <2>1. db[a].here /\ db[a].rt = "spent"
    BY DEF Harmless, NobodyReturns, LifeInvariant, TypeOK, AccountRecord
  <2>2. PICK p \in Thread :
          holder = p /\ th[p].of = a /\ th[p].oauth = "issued" /\ th[p].sent = "live"
    BY <2>1 DEF LifeInvariant, SpentIsInHand
  <2> QED
    BY <2>2
<1> QED
  BY <1>1, <1>2

LEMMA AdvanceTyped ==
  ASSUME TypeOK, BusyHasAccount, NEW r \in Relogin, NEW x \in ReloginRecord,
         x.pc # "idle" => x.of \in Account, relog' = [relog EXCEPT ![r] = x]
  PROVE  /\ relog' \in [Relogin -> ReloginRecord]
         /\ \A q \in Relogin : relog'[q].pc # "idle" => relog'[q].of \in Account
<1>1. relog \in [Relogin -> ReloginRecord]
  BY DEF TypeOK, ReloginRecord
<1> QED
  BY <1>1 DEF BusyHasAccount

LEMMA ReportedTyped ==
  ASSUME NEW j \in [active : BOOLEAN, done : BOOLEAN, total : Nat, processed : Nat], NEW n \in Nat
  PROVE  Reported(j, n) \in [active : BOOLEAN, done : BOOLEAN, total : Nat, processed : Nat]
<1>1. j.processed + n \in Nat
  OBVIOUS
<1>2. (j.done \/ (n > 0 /\ j.processed + n >= j.total)) \in BOOLEAN
  OBVIOUS
<1> QED
  BY <1>1, <1>2 DEF Reported

(* Steps of a login, and all others that no thread takes part in. *)
LEMMA AsideKeeps ==
  ASSUME LifeInvariant, Harmless, UNCHANGED <<up, th, holder, watch>>,
         events' \in 0 .. MaxEvents,
         relog' \in [Relogin -> ReloginRecord],
         \A q \in Relogin : relog'[q].pc # "idle" => relog'[q].of \in Account,
         job' \in [active : BOOLEAN, done : BOOLEAN, total : Nat, processed : Nat]
  PROVE  LifeInvariant' /\ NobodyReturns
<1>1. th' \in [Thread -> ThreadRecord]
  BY DEF LifeInvariant, TypeOK
<1>2. LockIsHeld' /\ BusyHasAccount' /\ SpentIsInHand' /\ OnlyUnansweredResent'
  BY <1>1, Elsewhere
<1> QED
  BY <1>1, <1>2 DEF LifeInvariant, Harmless, TypeOK, ReloginRecord

LEMMA LoginKeeps ==
  ASSUME LifeInvariant, NEW r \in Relogin, Login(r) \/ LoginStored(r) \/ LoginFailed(r)
  PROVE  LifeInvariant' /\ NobodyReturns
<1> DEFINE a == relog[r].of
<1>1. /\ TypeOK /\ BusyHasAccount /\ relog[r] \in ReloginRecord /\ relog[r].pc # "idle" /\ a \in Account
  BY DEF LifeInvariant, TypeOK, BusyHasAccount, ReloginRecord, Login, LoginStored, LoginFailed
<1>2. CASE Login(r)
  <2>1. PICK to \in {"apply", "ban", "remove"} :
          relog' = [relog EXCEPT ![r] = [relog[r] EXCEPT !.pc = to]]
    BY <1>2 DEF Login, Advance
  <2>2. PICK x : x = [relog[r] EXCEPT !.pc = to]
    OBVIOUS
  <2>3. x \in ReloginRecord /\ x.of = a
    BY <1>1, <2>2 DEF ReloginRecord
  <2>4. /\ relog' \in [Relogin -> ReloginRecord]
        /\ \A q \in Relogin : relog'[q].pc # "idle" => relog'[q].of \in Account
    BY <1>1, <2>1, <2>2, <2>3, AdvanceTyped
  <2>5. UNCHANGED <<db, up, th, holder, watch, job>> /\ (Event \/ NoEvent)
    BY <1>2 DEF Login
  <2>6. job' \in [active : BOOLEAN, done : BOOLEAN, total : Nat, processed : Nat]
    BY <1>1, <2>5 DEF TypeOK
  <2>7. events' \in 0 .. MaxEvents /\ Harmless
    BY <1>1, <2>5, EventTyped, UnchangedIsHarmless
  <2> QED
    BY <2>4, <2>5, <2>6, <2>7, AsideKeeps
<1>3. CASE LoginFailed(r)
  <2>1. PICK x : x = [relog[r] EXCEPT !.pc = "mark", !.count = db[a].invalid]
    OBVIOUS
  <2>2. db[a].invalid \in 0 .. 2
    BY <1>1 DEF TypeOK, AccountRecord
  <2>3. x \in ReloginRecord /\ x.of = a
    BY <1>1, <2>1, <2>2 DEF ReloginRecord
  <2>4. /\ relog' = [relog EXCEPT ![r] = x]
        /\ UNCHANGED <<db, up, th, holder, watch, job, events>>
    BY <1>3, <2>1 DEF LoginFailed
  <2>5. /\ relog' \in [Relogin -> ReloginRecord]
        /\ \A q \in Relogin : relog'[q].pc # "idle" => relog'[q].of \in Account
    BY <1>1, <2>3, <2>4, AdvanceTyped
  <2>6. /\ job' \in [active : BOOLEAN, done : BOOLEAN, total : Nat, processed : Nat]
        /\ events' \in 0 .. MaxEvents /\ Harmless
    BY <1>1, <2>4, UnchangedIsHarmless DEF TypeOK
  <2> QED
    BY <2>4, <2>5, <2>6, AsideKeeps
<1>4. CASE LoginStored(r)
  <2>1. PICK x, d, e : /\ x = [db[a] EXCEPT !.status = "normal"]
                       /\ d = [db[a] EXCEPT !.status = "disabled"]
                       /\ e = Abnormal(a, relog[r].count)
    OBVIOUS
  <2>2. /\ x \in AccountRecord /\ x.rt = db[a].rt
        /\ d \in AccountRecord /\ d.rt = db[a].rt
        /\ e \in AccountRecord /\ e.rt = db[a].rt
    BY <1>1, <2>1, RecordsTyped DEF Status, ReloginRecord
  <2>3. db' \in {Updated(a, x), Updated(a, d), Updated(a, e), Removed(a)}
    BY <1>4, <2>1 DEF LoginStored
  <2>4. Harmless
    BY <1>1, <2>2, <2>3, UpdateIsHarmless, RemovalIsHarmless
  <2>5. End(r) /\ UNCHANGED <<up, th, holder, watch, events>>
    BY <1>4 DEF LoginStored
  <2>6. Resting \in ReloginRecord /\ Resting.pc = "idle"
    BY DEF Resting, ReloginRecord
  <2>7. /\ relog' \in [Relogin -> ReloginRecord]
        /\ \A q \in Relogin : relog'[q].pc # "idle" => relog'[q].of \in Account
    BY <1>1, <2>5, <2>6, AdvanceTyped DEF End
  <2>8. job' \in [active : BOOLEAN, done : BOOLEAN, total : Nat, processed : Nat]
    BY <1>1, <2>5, ReportedTyped DEF End, TypeOK
  <2>9. events' \in 0 .. MaxEvents
    BY <1>1, <2>5 DEF TypeOK
  <2> QED
    BY <2>4, <2>5, <2>7, <2>8, <2>9, AsideKeeps
<1> QED
  BY <1>2, <1>3, <1>4

LEMMA ApplyLoginKeeps ==
  ASSUME LifeInvariant, NEW r \in Relogin, ApplyLogin(r)
  PROVE  LifeInvariant' /\ NobodyReturns
<1> DEFINE a == relog[r].of
<1>1. TypeOK /\ BusyHasAccount /\ relog[r] \in ReloginRecord /\ a \in Account
  BY DEF LifeInvariant, TypeOK, BusyHasAccount, ReloginRecord, ApplyLogin
<1>2. UNCHANGED <<holder, watch, job, events>>
  BY DEF ApplyLogin
<1>3. PICK x : x = [relog[r] EXCEPT !.pc = "status"]
  OBVIOUS
<1>4. x \in ReloginRecord /\ x.of = a /\ relog' = [relog EXCEPT ![r] = x]
  BY <1>1, <1>3 DEF ReloginRecord, ApplyLogin, Advance
<1>5. /\ relog' \in [Relogin -> ReloginRecord]
      /\ \A q \in Relogin : relog'[q].pc # "idle" => relog'[q].of \in Account
  BY <1>1, <1>4, AdvanceTyped
<1>6. CASE ~db[a].here /\ UNCHANGED <<db, up, th>>
  <2>1. /\ job' \in [active : BOOLEAN, done : BOOLEAN, total : Nat, processed : Nat]
        /\ events' \in 0 .. MaxEvents /\ Harmless
    BY <1>1, <1>2, <1>6, UnchangedIsHarmless DEF TypeOK
  <2> QED
    BY <1>2, <1>5, <1>6, <2>1, AsideKeeps
<1>7. CASE /\ db[a].here
           /\ db' = [db EXCEPT ![a] = Renewed(a)]
           /\ up' = [up EXCEPT ![a].token = IF @ = "dead" THEN "dead" ELSE "accepted"]
           /\ th' = Superseded(a, Rotated(a, th))
  <2>1. db' = Updated(a, Renewed(a))
    BY <1>7 DEF Updated
  <2>2. Harmless
    BY <1>1, <2>1, RecordsTyped, UpdateIsHarmless
  <2>3. db'[a].rt # "spent"
    BY <1>1, <1>7, RecordsTyped DEF TypeOK
  <2>4. PICK threads : threads = Rotated(a, th)
    OBVIOUS
  <2>5. /\ threads \in [Thread -> ThreadRecord]
        /\ \A q \in Thread : /\ threads[q].pc = th[q].pc /\ threads[q].of = th[q].of
                             /\ threads[q].oauth = th[q].oauth /\ threads[q].sent = th[q].sent
    BY <1>1, <2>4, RotatedTyped DEF TypeOK
  <2>6. ASSUME NEW q \in Thread
        PROVE  /\ th'[q] \in ThreadRecord
               /\ th'[q].pc = th[q].pc /\ th'[q].of = th[q].of /\ th'[q].oauth = th[q].oauth
               /\ \/ th'[q].sent = th[q].sent
                  \/ th'[q].sent # "spent" /\ th[q].of = a
    <3>1. th'[q] = IF threads[q].of = a /\ threads[q].sent = "live"
                   THEN [threads[q] EXCEPT !.sent = "foreign"] ELSE threads[q]
      BY <1>7, <2>4 DEF Superseded
    <3>2. threads[q] \in ThreadRecord
      BY <2>5
    <3>3. CASE threads[q].of = a /\ threads[q].sent = "live"
      <4>1. th'[q] = [threads[q] EXCEPT !.sent = "foreign"]
        BY <3>1, <3>3
      <4>2. /\ th'[q] \in ThreadRecord /\ th'[q].sent = "foreign"
            /\ th'[q].pc = threads[q].pc /\ th'[q].of = threads[q].of
            /\ th'[q].oauth = threads[q].oauth
        BY <3>2, <4>1 DEF ThreadRecord
      <4> QED
        BY <2>5, <3>3, <4>2
    <3>4. CASE ~(threads[q].of = a /\ threads[q].sent = "live")
      BY <2>5, <3>1, <3>4
    <3> QED
      BY <3>3, <3>4
  <2>7. th' \in [Thread -> ThreadRecord]
    BY <1>7, <2>6 DEF Superseded
  <2>8. LockIsHeld' /\ BusyHasAccount' /\ SpentIsInHand' /\ OnlyUnansweredResent'
    BY <1>2, <1>5, <2>2, <2>3, <2>6, <2>7, WorthChanges
  <2>9. up' \in [Account -> [token : {"accepted", "rejected", "dead"},
                             password : {"none", "right", "wrong"}]]
    BY <1>1, <1>7, AcceptedTyped
  <2> QED
    BY <1>1, <1>2, <1>5, <2>2, <2>7, <2>8, <2>9
       DEF LifeInvariant, Harmless, TypeOK, ReloginRecord
<1> QED
  BY <1>6, <1>7 DEF ApplyLogin

LEMMA TroubleKeeps ==
  ASSUME LifeInvariant, NEW a \in Account, Trouble(a)
  PROVE  LifeInvariant' /\ NobodyReturns
<1> DEFINE UpRecord == [token : {"accepted", "rejected", "dead"},
                        password : {"none", "right", "wrong"}]
<1>1. /\ TypeOK /\ db[a] \in AccountRecord
      /\ up \in [Account -> UpRecord] /\ up[a] \in UpRecord
  BY DEF LifeInvariant, TypeOK
<1>2. UNCHANGED <<holder, relog, watch, job>> /\ Event
  BY DEF Trouble
<1>3. up' \in [Account -> UpRecord]
  <2>1. PICK x, d, w : /\ x = [up[a] EXCEPT !.token = "rejected"]
                       /\ d = [up[a] EXCEPT !.token = "dead"]
                       /\ w = [up[a] EXCEPT !.password = "wrong"]
    OBVIOUS
  <2>2. x \in UpRecord /\ d \in UpRecord /\ w \in UpRecord
    BY <1>1, <2>1
  <2>3. \/ up' = up \/ up' = [up EXCEPT ![a] = x]
        \/ up' = [up EXCEPT ![a] = d] \/ up' = [up EXCEPT ![a] = w]
    BY <2>1 DEF Trouble
  <2> HIDE DEF UpRecord
  <2> QED
    BY <1>1, <2>2, <2>3
<1>4. Harmless
  <2>1. CASE db' = db
    BY <1>1, <2>1, UnchangedIsHarmless
  <2>2. CASE db' = [db EXCEPT ![a].rt = "revoked"]
    <3>1. PICK d : d = [db[a] EXCEPT !.rt = "revoked"]
      OBVIOUS
    <3>2. d \in AccountRecord /\ d.rt = "revoked" /\ d.here = db[a].here
      BY <1>1, <3>1 DEF AccountRecord
    <3>3. db' = [db EXCEPT ![a] = d]
      BY <2>2, <3>1
    <3> QED
      BY <1>1, <3>2, <3>3 DEF TypeOK, Harmless, NobodyReturns
  <2> QED
    BY <2>1, <2>2 DEF Trouble
<1>5. ASSUME NEW q \in Thread
      PROVE  /\ th'[q] \in ThreadRecord
             /\ th'[q].pc = th[q].pc /\ th'[q].of = th[q].of /\ th'[q].oauth = th[q].oauth
             /\ \/ th'[q].sent = th[q].sent
                \/ th'[q].sent # "spent" /\ db'[th[q].of].rt # "spent"
  <2>1. th[q] \in ThreadRecord
    BY <1>1 DEF TypeOK
  <2>2. th'[q] = IF th[q].of = a /\ th[q].sent = "live" /\ db'[a].rt = "revoked"
                 THEN [th[q] EXCEPT !.sent = "revoked"] ELSE th[q]
    BY DEF Trouble
  <2>3. CASE th[q].of = a /\ th[q].sent = "live" /\ db'[a].rt = "revoked"
    <3>1. th'[q] = [th[q] EXCEPT !.sent = "revoked"]
      BY <2>2, <2>3
    <3> QED
      BY <2>1, <2>3, <3>1 DEF ThreadRecord
  <2>4. CASE ~(th[q].of = a /\ th[q].sent = "live" /\ db'[a].rt = "revoked")
    BY <2>1, <2>2, <2>4
  <2> QED
    BY <2>3, <2>4
<1>6. th' \in [Thread -> ThreadRecord]
  BY <1>5 DEF Trouble
<1>7. /\ relog' \in [Relogin -> ReloginRecord]
      /\ \A q \in Relogin : relog'[q].pc # "idle" => relog'[q].of \in Account
  BY <1>1, <1>2, RelogStays DEF LifeInvariant
<1>8. LockIsHeld' /\ BusyHasAccount' /\ SpentIsInHand' /\ OnlyUnansweredResent'
  BY <1>2, <1>4, <1>5, <1>6, <1>7, WorthChanges
<1>9. events' \in 0 .. MaxEvents
  BY <1>1, <1>2, EventTyped
<1> QED
  BY <1>1, <1>2, <1>3, <1>4, <1>6, <1>7, <1>8, <1>9
     DEF LifeInvariant, Harmless, TypeOK, ReloginRecord

LEMMA ConsoleKeeps ==
  ASSUME LifeInvariant, NEW a \in Account, SetStatus(a) \/ Promote(a)
  PROVE  LifeInvariant' /\ NobodyReturns
<1>1. TypeOK /\ UNCHANGED <<up, th, holder, relog, watch, job>>
  BY DEF LifeInvariant, SetStatus, Promote
<1>2. events' \in 0 .. MaxEvents
  BY <1>1, EventTyped DEF SetStatus, Promote, TypeOK
<1>3. Harmless
  <2>1. {"normal", "disabled"} \subseteq Status
    BY DEF Status
  <2> QED
    BY <1>1, <2>1, SetIsHarmless, RemovalIsHarmless DEF SetStatus, Promote
<1>4. /\ relog' \in [Relogin -> ReloginRecord]
      /\ \A q \in Relogin : relog'[q].pc # "idle" => relog'[q].of \in Account
  BY <1>1, RelogStays DEF LifeInvariant
<1>5. job' \in [active : BOOLEAN, done : BOOLEAN, total : Nat, processed : Nat]
  BY <1>1 DEF TypeOK
<1> QED
  BY <1>1, <1>2, <1>3, <1>4, <1>5, AsideKeeps

LEMMA ReloginAccountsKeeps ==
  ASSUME LifeInvariant, NEW as \in SUBSET Account, ReloginAccounts(as)
  PROVE  LifeInvariant' /\ NobodyReturns
<1> DEFINE able == {a \in as : db[a].here /\ HasPassword(a)}
           j == [active |-> TRUE, done |-> FALSE, total |-> Cardinality(as), processed |-> 0]
<1>1. /\ TypeOK /\ BusyHasAccount /\ Event /\ UNCHANGED <<db, up, th, holder, watch>>
      /\ Start(able, TRUE) /\ job' = Reported(j, Cardinality(as \ able))
  BY DEF LifeInvariant, ReloginAccounts
<1>2. Cardinality(as) \in Nat /\ Cardinality(as \ able) \in Nat
  BY AccountAssumption, FS_Subset, FS_CardinalityType DEF AccountAssumption
<1>3. j \in [active : BOOLEAN, done : BOOLEAN, total : Nat, processed : Nat]
  BY <1>2
<1>4. job' \in [active : BOOLEAN, done : BOOLEAN, total : Nat, processed : Nat]
  BY <1>1, <1>2, <1>3, ReportedTyped
<1>5. /\ relog' \in [Relogin -> ReloginRecord]
      /\ \A q \in Relogin : relog'[q].pc # "idle" => relog'[q].of \in Account
  BY <1>1, StartTyped
<1>6. Harmless /\ events' \in 0 .. MaxEvents
  BY <1>1, UnchangedIsHarmless, EventTyped
<1> QED
  BY <1>1, <1>4, <1>5, <1>6, AsideKeeps

LEMMA CallKeeps ==
  ASSUME LifeInvariant, NEW p \in Other, NEW a \in Account, Call(p, a)
  PROVE  LifeInvariant' /\ NobodyReturns
<1>1. /\ TypeOK /\ p \in Thread /\ th[p].oauth = "no" /\ Event
      /\ UNCHANGED <<db, up, holder, relog, watch, job>>
  BY DEF LifeInvariant, LockIsHeld, Call, Thread, Refreshing
<1>2. PICK pc \in {"ease", "call", "preflight"}, why \in {"request", "warmup", "admin"} :
        th' = [th EXCEPT ![p] = [Idle EXCEPT !.pc = pc, !.why = why, !.of = a]]
  BY DEF Call
<1>3. PICK x : x = [Idle EXCEPT !.pc = pc, !.why = why, !.of = a]
  OBVIOUS
<1>4. x \in ThreadRecord /\ x.oauth = "no" /\ x.of = a
  BY <1>3, IdleTyped DEF ThreadRecord, Stage, Refreshing, Reason
<1>5. Harmless /\ events' \in 0 .. MaxEvents
  BY <1>1, UnchangedIsHarmless, EventTyped
<1> QED
  BY <1>1, <1>2, <1>3, <1>4, <1>5, OneMoves

-----------------------------------------------------------------------------
(* The watcher. *)
LEMMA BatchKeeps ==
  ASSUME LifeInvariant, Harmless, NEW as \in SUBSET Account,
         NEW pc \in Stage, NEW why \in Reason, Batch(as, pc, why),
         UNCHANGED <<up, holder, job, events>>,
         watch' \in [phase : Phase, later : SUBSET Account]
  PROVE  LifeInvariant' /\ NobodyReturns
<1>1. TypeOK /\ BusyHasAccount
  BY DEF LifeInvariant
<1>2. ASSUME NEW p \in Account
      PROVE  th[p].oauth = "no"
  BY <1>2 DEF Batch, WorkersEnded, LifeInvariant, LockIsHeld, Thread, Refreshing
<1>3. ASSUME NEW p \in Thread
      PROVE  /\ th'[p] \in ThreadRecord
             /\ \/ th'[p] = th[p]
                \/ /\ th[p].oauth = "no" /\ th'[p].oauth = "no"
                   /\ th'[p].pc # "idle" => th'[p].of \in Account
  <2>1. CASE p \in as
    <3>1. PICK x : x = [Idle EXCEPT !.pc = pc, !.why = why, !.of = p]
      OBVIOUS
    <3>2. x \in ThreadRecord /\ x.oauth = "no" /\ x.of = p
      BY <2>1, <3>1, IdleTyped DEF ThreadRecord
    <3>3. th'[p] = x
      BY <2>1, <3>1 DEF Batch
    <3> QED
      BY <1>2, <2>1, <3>2, <3>3
  <2>2. CASE p \in Account \ as
    <3>1. th'[p] = Idle
      BY <2>2 DEF Batch
    <3> QED
      BY <1>2, <2>2, <3>1, IdleTyped
  <2>3. CASE p \notin Account
    <3>1. th'[p] = th[p]
      BY <2>3 DEF Batch
    <3> QED
      BY <1>1, <3>1 DEF TypeOK
  <2> QED
    BY <2>1, <2>2, <2>3
<1>4. th' \in [Thread -> ThreadRecord]
  BY <1>3 DEF Batch
<1>5. /\ relog' \in [Relogin -> ReloginRecord]
      /\ \A q \in Relogin : relog'[q].pc # "idle" => relog'[q].of \in Account
  <2> DEFINE again == {a \in Account : /\ th[a].pc # "idle"
                                       /\ LogsInAgain(a, th[a].why, th[a].pc = "failed")}
  <2>1. Start(again, FALSE) \/ relog' = relog
    BY DEF Batch
  <2>2. again \in SUBSET Account
    OBVIOUS
  <2> HIDE DEF again
  <2> QED
    BY <1>1, <2>1, <2>2, StartTyped, RelogStays
<1>6. LockIsHeld' /\ BusyHasAccount' /\ SpentIsInHand' /\ OnlyUnansweredResent'
  BY <1>3, <1>4, <1>5, Elsewhere
<1> QED
  BY <1>1, <1>4, <1>5, <1>6 DEF LifeInvariant, Harmless, TypeOK, ReloginRecord

LEMMA WatcherKeeps ==
  ASSUME LifeInvariant, Watcher
  PROVE  LifeInvariant' /\ NobodyReturns
<1>0. /\ TypeOK /\ UNCHANGED <<up, holder, job, events>>
      /\ watch \in [phase : Phase, later : SUBSET Account]
  BY DEF LifeInvariant, Watcher, TypeOK
<1>1. {"preflight", "call", "idle"} \subseteq Stage /\ {"watch", "recover"} \subseteq Reason
  BY DEF Stage, Refreshing, Reason
<1>2. ASSUME NEW f \in Phase
      PROVE  [watch EXCEPT !.phase = f] \in [phase : Phase, later : SUBSET Account]
  BY <1>0
<1>3. {"sleep", "urgent", "rest", "lists", "keep", "recover", "heal"} = Phase
  BY DEF Phase
<1>4. Here \subseteq Account /\ \A s : With(s) \subseteq Here
  BY DEF Here, With
<1>5. Renewable \subseteq Account
  BY DEF Here, Renewable
<1>6. CASE Wake
  <2>1. PICK as \in Urgent : /\ Batch(as, "preflight", "watch")
                             /\ watch' = [phase |-> "urgent", later |-> Here \ as]
    BY <1>6 DEF Wake
  <2>2. as \in SUBSET Account
    BY <1>4, <2>1 DEF Urgent
  <2>3. watch' \in [phase : Phase, later : SUBSET Account]
    BY <1>3, <1>4, <2>1
  <2>4. Harmless
    BY <1>0, <1>6, UnchangedIsHarmless DEF Wake
  <2> QED
    BY <1>0, <1>1, <2>1, <2>2, <2>3, <2>4, BatchKeeps
<1>7. CASE Rest
  <2>1. PICK as \in {{}, watch.later} : Batch(as, "preflight", "watch")
    BY <1>7 DEF Rest
  <2>2. as \in SUBSET Account
    BY <1>0, <2>1
  <2>3. watch' \in [phase : Phase, later : SUBSET Account]
    BY <1>3, <1>7 DEF Rest
  <2>4. Harmless
    BY <1>0, <1>7, UnchangedIsHarmless DEF Rest
  <2> QED
    BY <1>0, <1>1, <2>1, <2>2, <2>3, <2>4, BatchKeeps
<1>8. CASE Check
  <2>1. PICK as \in Lists : Batch(as, "preflight", "watch")
    BY <1>8 DEF Check
  <2>2. as \in SUBSET Account
    BY <1>4, <1>5, <2>1 DEF Lists
  <2>3. watch' \in [phase : Phase, later : SUBSET Account]
    BY <1>2, <1>3, <1>8 DEF Check
  <2>4. Harmless
    BY <1>0, <1>8, UnchangedIsHarmless DEF Check
  <2> QED
    BY <1>0, <1>1, <2>1, <2>2, <2>3, <2>4, BatchKeeps
<1>9. CASE Keepalive
  <2>1. PICK as \in Kept : Batch(as, "call", "watch")
    BY <1>9 DEF Keepalive
  <2>2. as \in SUBSET Account
    BY <1>5, <2>1 DEF Kept
  <2>3. watch' \in [phase : Phase, later : SUBSET Account]
    BY <1>2, <1>3, <1>9 DEF Keepalive
  <2>4. Harmless
    BY <1>0, <1>9, UnchangedIsHarmless DEF Keepalive
  <2> QED
    BY <1>0, <1>1, <2>1, <2>2, <2>3, <2>4, BatchKeeps
<1>10. CASE Recover
  <2>1. PICK as \in {{}, Recoverable} : Batch(as, "preflight", "recover")
    BY <1>10 DEF Recover
  <2>2. as \in SUBSET Account
    BY <1>4, <2>1 DEF Recoverable
  <2>3. watch' \in [phase : Phase, later : SUBSET Account]
    BY <1>2, <1>3, <1>10 DEF Recover
  <2>4. Harmless
    BY <1>0, <1>10, UnchangedIsHarmless DEF Recover
  <2> QED
    BY <1>0, <1>1, <2>1, <2>2, <2>3, <2>4, BatchKeeps
<1>11. CASE Heal
  <2>1. Batch({}, "idle", "watch")
    BY <1>11 DEF Heal
  <2>2. watch' \in [phase : Phase, later : SUBSET Account]
    BY <1>2, <1>3, <1>11 DEF Heal
  <2>3. Harmless
    <3>1. Normalized("replaced") \in Status
      BY DEF Normalized, Status
    <3>2. ASSUME NEW a \in Here, db' = [db EXCEPT ![a].status = Normalized("replaced")]
          PROVE  Harmless
      BY <1>0, <3>1, <3>2, SetIsHarmless DEF Here
    <3> QED
      BY <1>0, <1>11, <3>2, UnchangedIsHarmless DEF Heal
  <2> QED
    BY <1>0, <1>1, <2>1, <2>2, <2>3, BatchKeeps
<1>12. CASE Sleep
  <2>1. UNCHANGED <<db, th, relog>> /\ watch' \in [phase : Phase, later : SUBSET Account]
    BY <1>2, <1>3, <1>12 DEF Sleep
  <2>2. Harmless
    BY <1>0, <2>1, UnchangedIsHarmless
  <2>3. LockIsHeld' /\ BusyHasAccount' /\ SpentIsInHand' /\ OnlyUnansweredResent'
    BY <1>0, <2>1 DEF LifeInvariant, LockIsHeld, BusyHasAccount, SpentIsInHand,
                      OnlyUnansweredResent
  <2> QED
    BY <1>0, <2>1, <2>2, <2>3 DEF LifeInvariant, Harmless, TypeOK
<1> QED
  BY <1>6, <1>7, <1>8, <1>9, <1>10, <1>11, <1>12 DEF Watcher

-----------------------------------------------------------------------------
LEMMA InitLife == Init => LifeInvariant
<1> SUFFICES ASSUME Init PROVE LifeInvariant
  OBVIOUS
<1>1. db \in [Account -> AccountRecord] /\ \A a \in Account : db[a].rt # "spent"
  <2>1. \A s \in Status, t \in {"none", "live"} :
          Stored(s, t) \in AccountRecord /\ Stored(s, t).rt = t
    BY DEF Stored, AccountRecord
  <2>2. {"normal", "aging", "pending"} \subseteq Status
    BY DEF Status
  <2> HIDE DEF Stored
  <2>3. \A a \in Account : db[a] \in AccountRecord /\ db[a].rt # "spent"
    <3> SUFFICES ASSUME NEW a \in Account PROVE db[a] \in AccountRecord /\ db[a].rt # "spent"
      OBVIOUS
    <3>1. db[a] \in {Stored("normal", "live"), Stored("normal", "none"),
                     Stored("aging", "live"), Stored("pending", "none")}
      BY DEF Init
    <3> QED
      BY <2>1, <2>2, <3>1
  <2> QED
    BY <2>3 DEF Init
<1>2. up \in [Account -> [token : {"accepted", "rejected", "dead"},
                          password : {"none", "right", "wrong"}]]
  BY StartAssumption DEF Init, StartAssumption
<1>3. th \in [Thread -> ThreadRecord]
  BY IdleTyped DEF Init
<1>4. relog \in [Relogin -> ReloginRecord] /\ \A r \in Relogin : relog[r].pc = "idle"
  BY DEF Init, Resting, ReloginRecord
<1>5. watch \in [phase : Phase, later : SUBSET Account]
  BY DEF Init, Phase
<1>6. /\ job \in [active : BOOLEAN, done : BOOLEAN, total : Nat, processed : Nat]
      /\ events \in 0 .. MaxEvents /\ holder \in Thread \cup {None}
  BY DEF Init
<1>7. TypeOK
  BY <1>1, <1>2, <1>3, <1>4, <1>5, <1>6 DEF TypeOK, ReloginRecord
<1>8. \A p \in Thread : th[p].oauth = "no" /\ th[p].pc = "idle"
  BY IdleTyped DEF Init
<1>9. LockIsHeld /\ BusyHasAccount /\ SpentIsInHand /\ OnlyUnansweredResent
  BY <1>1, <1>4, <1>8 DEF LockIsHeld, BusyHasAccount, SpentIsInHand, OnlyUnansweredResent, Consumed
<1> QED
  BY <1>7, <1>9 DEF LifeInvariant

LEMMA NextLife == LifeInvariant /\ [Next]_vars => LifeInvariant' /\ NobodyReturns
<1> SUFFICES ASSUME LifeInvariant, [Next]_vars PROVE LifeInvariant' /\ NobodyReturns
  OBVIOUS
<1>1. ASSUME NEW p \in Thread, RefreshStep(p)
      PROVE  LifeInvariant' /\ NobodyReturns
  BY <1>1, EnterKeeps, IssueKeeps, OauthRefusedKeeps, OauthLostKeeps, ApplyKeeps DEF RefreshStep
<1>2. ASSUME NEW p \in Thread, FetchStep(p)
      PROVE  LifeInvariant' /\ NobodyReturns
  BY <1>2, AskKeeps, CountingKeeps, RemoveKeeps, StoreKeeps, FinishKeeps DEF FetchStep
<1>3. ASSUME NEW r \in Relogin, LoginStep(r)
      PROVE  LifeInvariant' /\ NobodyReturns
  BY <1>3, LoginKeeps, ApplyLoginKeeps DEF LoginStep
<1>4. CASE Watcher
  BY <1>4, WatcherKeeps
<1>5. ASSUME NEW p \in Other, NEW a \in Account, Call(p, a)
      PROVE  LifeInvariant' /\ NobodyReturns
  BY <1>5, CallKeeps
<1>6. ASSUME NEW a \in Account, SetStatus(a) \/ Trouble(a) \/ Promote(a)
      PROVE  LifeInvariant' /\ NobodyReturns
  BY <1>6, ConsoleKeeps, TroubleKeeps
<1>7. ASSUME NEW as \in SUBSET Account, ReloginAccounts(as)
      PROVE  LifeInvariant' /\ NobodyReturns
  BY <1>7, ReloginAccountsKeeps
<1>8. CASE UNCHANGED vars
  BY <1>8 DEF vars, LifeInvariant, TypeOK, LockIsHeld, BusyHasAccount, SpentIsInHand,
              OnlyUnansweredResent, NobodyReturns
<1> QED
  BY <1>1, <1>2, <1>3, <1>4, <1>5, <1>6, <1>7, <1>8 DEF Next

(* Type correctness of the accounts, the threads and the watcher. *)
THEOREM TypeCorrect == Spec => []TypeOK
<1>1. LifeInvariant => TypeOK
  BY DEF LifeInvariant
<1>2. LifeInvariant /\ [Next]_vars => LifeInvariant'
  BY NextLife
<1> QED
  BY InitLife, <1>1, <1>2, PTL DEF Spec

(* A refresh token that the upstream consumed is sent again only when the  *)
(* answer was lost: the single lock of refresh_access_token is enough for  *)
(* the rest, although logins replace tokens without it and accounts are    *)
(* deleted while answers are on their way.                                 *)
THEOREM AnsweredTokensUsedOnce == Spec => []OnlyUnansweredResent
<1>1. LifeInvariant => OnlyUnansweredResent
  BY DEF LifeInvariant
<1>2. LifeInvariant /\ [Next]_vars => LifeInvariant'
  BY NextLife
<1> QED
  BY InitLife, <1>1, <1>2, PTL DEF Spec

(* No late answer of a refresh, a fetch or a login, no round of the        *)
(* watcher and no replacement brings a deleted account back.               *)
THEOREM GoneForGood == Spec => GoneStaysGone
<1>1. LifeInvariant /\ [Next]_vars => LifeInvariant'
  BY NextLife
<1>2. LifeInvariant /\ [Next]_vars => [\A a \in Account : ~db[a].here => ~db'[a].here]_vars
  BY NextLife DEF NobodyReturns
<1> QED
  BY InitLife, <1>1, <1>2, PTL DEF Spec, GoneStaysGone

-----------------------------------------------------------------------------
(* The progress of a request to log in again: its threads are as many as   *)
(* are still to be reported.                                               *)
Jobs == {r \in Relogin : relog[r].job}

JobInvariant ==
  /\ job.active => Cardinality(Jobs) + job.processed = job.total
  /\ ~job.active => Jobs = {}
  /\ IsFiniteSet(Jobs)
  /\ job.active => (job.done <=> job.processed = job.total)
  /\ \A r \in Relogin : relog[r].pc = "idle" => ~relog[r].job

LEMMA SameJobs ==
  ASSUME JobInvariant, job' = job,
         \A r \in Relogin : relog'[r].job = relog[r].job /\ (relog'[r].pc = "idle" => ~relog[r].job)
  PROVE  JobInvariant'
<1>1. Jobs' = Jobs
  BY DEF Jobs
<1> QED
  BY <1>1 DEF JobInvariant

LEMMA UntoldStart ==
  ASSUME TypeOK, JobInvariant, NEW as, Start(as, FALSE), job' = job
  PROVE  JobInvariant'
<1> DEFINE free == {r \in Relogin : relog[r].pc = "idle"}
<1>1. PICK s \in [as -> free] :
        relog' = [q \in Relogin |->
          IF \E a \in as : s[a] = q
          THEN [pc |-> "login", of |-> CHOOSE a \in as : s[a] = q, job |-> FALSE, count |-> 0]
          ELSE relog[q]]
  BY DEF Start
<1>2. ASSUME NEW q \in Relogin
      PROVE  relog'[q].job = relog[q].job /\ (relog'[q].pc = "idle" => ~relog[q].job)
  <2>1. CASE \E a \in as : s[a] = q
    <3>1. relog[q].pc = "idle" /\ relog'[q].job = FALSE
      BY <1>1, <2>1
    <3>2. relog[q].job \in BOOLEAN
      BY DEF TypeOK
    <3> QED
      BY <3>1, <3>2 DEF JobInvariant
  <2>2. CASE ~\E a \in as : s[a] = q
    BY <1>1, <2>2 DEF JobInvariant
  <2> QED
    BY <2>1, <2>2
<1> QED
  BY <1>2, SameJobs

(* A thread that ends reports its account. *)
LEMMA EndedReports ==
  ASSUME TypeOK, JobInvariant, NEW r \in Relogin, End(r)
  PROVE  JobInvariant'
<1>1. /\ relog' = [relog EXCEPT ![r] = Resting]
      /\ job' = IF relog[r].job THEN Reported(job, 1) ELSE job
      /\ Resting.pc = "idle" /\ ~Resting.job
  BY DEF End, Resting
<1>2. relog'[r] = Resting /\ \A q \in Relogin \ {r} : relog'[q] = relog[q]
  BY <1>1 DEF TypeOK
<1>3. CASE ~relog[r].job
  <2>1. \A q \in Relogin : relog'[q].job = relog[q].job /\ (relog'[q].pc = "idle" => ~relog[q].job)
    <3>1. relog[r].job = FALSE /\ Resting.job = FALSE
      BY <1>3 DEF TypeOK, Resting
    <3> QED
      BY <1>2, <3>1, <1>1 DEF JobInvariant
  <2> QED
    BY <1>1, <1>3, <2>1, SameJobs
<1>4. CASE relog[r].job
  <2>1. r \in Jobs /\ job.active
    BY <1>4 DEF Jobs, JobInvariant
  <2>2. Jobs' = Jobs \ {r}
    BY <1>1, <1>2 DEF Jobs
  <2>3. IsFiniteSet(Jobs') /\ Cardinality(Jobs') = Cardinality(Jobs) - 1 /\ Cardinality(Jobs) \in Nat
    BY <2>1, <2>2, FS_RemoveElement, FS_CardinalityType DEF JobInvariant
  <2>4. job \in [active : BOOLEAN, done : BOOLEAN, total : Nat, processed : Nat]
    BY DEF TypeOK
  <2>5. /\ job'.active = job.active /\ job'.total = job.total
        /\ job'.processed = job.processed + 1
        /\ job'.done = (job.done \/ job.processed + 1 >= job.total)
    BY <1>1, <1>4, <2>4 DEF Reported
  <2>6. Cardinality(Jobs) # 0
    BY <2>1, FS_EmptySet DEF JobInvariant
  <2>7. job'.done <=> job'.processed = job'.total
    <3>1. Cardinality(Jobs) + job.processed = job.total /\ (job.done <=> job.processed = job.total)
      BY <2>1 DEF JobInvariant
    <3>2. ~job.done /\ (job.processed + 1 >= job.total <=> job.processed + 1 = job.total)
      BY <2>3, <2>4, <2>6, <3>1
    <3>3. job'.done <=> job.done \/ job.processed + 1 >= job.total
      BY <2>5
    <3> QED
      BY <2>5, <3>2, <3>3
  <2>8. Cardinality(Jobs') + job'.processed = job'.total
    BY <2>1, <2>3, <2>4, <2>5 DEF JobInvariant
  <2>9. \A q \in Relogin : relog'[q].pc = "idle" => ~relog'[q].job
    BY <1>1, <1>2 DEF JobInvariant
  <2> QED
    BY <2>1, <2>3, <2>5, <2>7, <2>8, <2>9 DEF JobInvariant
<1> QED
  BY <1>3, <1>4

(* A request starts one thread for each account with a password and        *)
(* reports the others.                                                     *)
LEMMA RequestCounts ==
  ASSUME TypeOK, JobInvariant, NEW as \in SUBSET Account, ReloginAccounts(as)
  PROVE  JobInvariant'
<1> DEFINE able == {a \in as : db[a].here /\ HasPassword(a)}
           skipped == Cardinality(as \ able)
           j == [active |-> TRUE, done |-> FALSE, total |-> Cardinality(as), processed |-> 0]
           free == {r \in Relogin : relog[r].pc = "idle"}
<1>1. ~job.active /\ as # {} /\ job' = Reported(j, skipped) /\ Start(able, TRUE)
  BY DEF ReloginAccounts
<1>2. PICK s \in [able -> free] :
        /\ \A a, b \in able : s[a] = s[b] => a = b
        /\ relog' = [q \in Relogin |->
             IF \E a \in able : s[a] = q
             THEN [pc |-> "login", of |-> CHOOSE a \in able : s[a] = q, job |-> TRUE, count |-> 0]
             ELSE relog[q]]
  BY <1>1 DEF Start
<1>3. \A q \in Relogin : ~relog[q].job
  BY <1>1 DEF JobInvariant, Jobs
<1>4. ASSUME NEW q \in Relogin
      PROVE  relog'[q].job <=> \E a \in able : s[a] = q
  <2>1. CASE \E a \in able : s[a] = q
    BY <1>2, <2>1
  <2>2. CASE ~\E a \in able : s[a] = q
    BY <1>2, <1>3, <2>2
  <2> QED
    BY <2>1, <2>2
<1>5. \A q \in Relogin : relog'[q].pc = "idle" => ~relog'[q].job
  <2> SUFFICES ASSUME NEW q \in Relogin, relog'[q].job
               PROVE  relog'[q].pc # "idle"
    OBVIOUS
  <2>1. \E a \in able : s[a] = q
    BY <1>4
  <2> QED
    BY <2>1, <1>2
<1>6. /\ IsFiniteSet(as) /\ IsFiniteSet(able) /\ IsFiniteSet(as \ able)
      /\ Cardinality(as) = Cardinality(able) + skipped
      /\ Cardinality(as) \in Nat /\ Cardinality(as) # 0 /\ Cardinality(able) \in Nat /\ skipped \in Nat
  <2>1. IsFiniteSet(as) /\ able \subseteq as
    BY AccountAssumption, FS_Subset DEF AccountAssumption
  <2> HIDE DEF able
  <2>2. IsFiniteSet(able) /\ IsFiniteSet(as \ able) /\ able \cap (as \ able) = {}
        /\ as = able \cup (as \ able)
    BY <2>1, FS_Subset
  <2>3. Cardinality(as) \in Nat /\ Cardinality(able) \in Nat /\ skipped \in Nat
    BY <2>1, <2>2, FS_CardinalityType
  <2>4. Cardinality(as) = Cardinality(able) + skipped
    <3>1. Cardinality(able \cup (as \ able)) =
            Cardinality(able) + Cardinality(as \ able) - Cardinality(able \cap (as \ able))
      BY <2>2, FS_Union
    <3>2. Cardinality(able \cap (as \ able)) = 0
      BY <2>2, FS_EmptySet
    <3>3. Cardinality(as) = Cardinality(able) + skipped - 0
      BY <2>2, <3>1, <3>2
    <3> QED
      BY <2>3, <3>3
  <2>5. Cardinality(as) # 0
    BY <1>1, <2>1, FS_EmptySet
  <2> QED
    BY <2>1, <2>2, <2>3, <2>4, <2>5
<1>7. IsFiniteSet(Jobs') /\ Cardinality(Jobs') = Cardinality(able)
  <2>1. s \in Bijection(able, Jobs')
    <3> HIDE DEF able
    <3>1. Jobs' = {q \in Relogin : \E a \in able : s[a] = q}
      BY <1>4 DEF Jobs
    <3>2. \A a \in able : s[a] \in Relogin
      BY <1>2
    <3>3. s \in [able -> Jobs'] /\ \A q \in Jobs' : \E a \in able : s[a] = q
      BY <1>2, <3>1, <3>2
    <3>4. s \in Injection(able, Jobs')
      <4>1. \A a, b \in able : s[a] = s[b] => a = b
        BY <1>2
      <4> QED
        BY <3>3, <4>1 DEF Injection, IsInjective
    <3>5. s \in Surjection(able, Jobs')
      BY <3>3 DEF Surjection
    <3> QED
      BY <3>4, <3>5 DEF Bijection
  <2> HIDE DEF able
  <2>2. ExistsBijection(able, Jobs')
    BY <2>1 DEF ExistsBijection
  <2> QED
    BY <2>2, <1>6, FS_Bijection
<1> HIDE DEF able, skipped
<1>8. /\ job'.active = TRUE /\ job'.total = Cardinality(as)
      /\ job'.processed = skipped
      /\ job'.done = (skipped > 0 /\ skipped >= Cardinality(as))
  BY <1>1, <1>6 DEF Reported
<1>9. job'.done <=> job'.processed = job'.total
  <2>1. (skipped > 0 /\ skipped >= Cardinality(as)) <=> skipped = Cardinality(as)
    BY <1>6
  <2>2. job'.done <=> (skipped > 0 /\ skipped >= Cardinality(as))
    BY <1>8
  <2> QED
    BY <1>8, <2>1, <2>2
<1> QED
  BY <1>5, <1>6, <1>7, <1>8, <1>9 DEF JobInvariant

LEMMA JobStep ==
  ASSUME TypeOK, JobInvariant, [Next]_vars
  PROVE  JobInvariant'
<1>1. CASE UNCHANGED <<relog, job>>
  BY <1>1 DEF JobInvariant, Jobs
<1>2. ASSUME NEW p \in Thread, RefreshStep(p)
      PROVE  JobInvariant'
  <2>1. CASE OauthRefused(p) /\ Start({th[p].of}, FALSE)
    BY <2>1, UntoldStart DEF OauthRefused, Unrefreshed
  <2> QED
    BY <1>1, <1>2, <2>1 DEF RefreshStep, Enter, Issue, OauthRefused, OauthLost, Apply, Unrefreshed
<1>3. ASSUME NEW p \in Thread, FetchStep(p)
      PROVE  JobInvariant'
  <2>1. CASE Finish(p) /\ Start({th[p].of}, FALSE)
    BY <2>1, UntoldStart DEF Finish
  <2> QED
    BY <1>1, <1>3, <2>1 DEF FetchStep, Ask, Deferred, Confirmed, Remove, Mark, Book, Store, Finish
<1>4. ASSUME NEW r \in Relogin, LoginStep(r)
      PROVE  JobInvariant'
  <2>1. CASE LoginStored(r)
    BY <2>1, EndedReports DEF LoginStored
  <2>2. ASSUME NEW x, relog' = [relog EXCEPT ![r] = x], job' = job,
               x.job = relog[r].job, x.pc # "idle"
        PROVE  JobInvariant'
    <3>1. relog'[r] = x /\ \A q \in Relogin \ {r} : relog'[q] = relog[q]
      BY <2>2 DEF TypeOK
    <3> QED
      BY <2>2, <3>1, SameJobs DEF JobInvariant
  <2>3. CASE Login(r) \/ ApplyLogin(r)
    <3>1. PICK to \in {"apply", "ban", "remove", "status"} :
            relog' = [relog EXCEPT ![r] = [relog[r] EXCEPT !.pc = to]]
      BY <2>3 DEF Login, ApplyLogin, Advance
    <3>2. PICK x : x = [relog[r] EXCEPT !.pc = to]
      OBVIOUS
    <3>3. x.job = relog[r].job /\ x.pc # "idle"
      BY <3>2 DEF TypeOK
    <3> QED
      BY <2>2, <2>3, <3>1, <3>2, <3>3 DEF Login, ApplyLogin
  <2>4. CASE LoginFailed(r)
    <3>1. PICK x : x = [relog[r] EXCEPT !.pc = "mark", !.count = db[relog[r].of].invalid]
      OBVIOUS
    <3>2. x.job = relog[r].job /\ x.pc # "idle"
      BY <3>1 DEF TypeOK
    <3> QED
      BY <2>2, <2>4, <3>1, <3>2 DEF LoginFailed
  <2> QED
    BY <1>4, <2>1, <2>3, <2>4 DEF LoginStep
<1>5. CASE Watcher
  <2>1. job' = job
    BY <1>5 DEF Watcher
  <2>2. ASSUME NEW as, NEW pc, NEW why, Batch(as, pc, why)
        PROVE  JobInvariant'
    <3>1. CASE UNCHANGED relog
      BY <1>1, <2>1, <3>1
    <3>2. ASSUME NEW again, Start(again, FALSE)
          PROVE  JobInvariant'
      BY <2>1, <3>2, UntoldStart
    <3> DEFINE logins == {a \in Account : /\ th[a].pc # "idle"
                                          /\ LogsInAgain(a, th[a].why, th[a].pc = "failed")}
    <3>3. UNCHANGED relog \/ Start(logins, FALSE)
      BY <2>2, Zenon DEF Batch
    <3> QED
      BY <3>1, <3>2, <3>3
  <2>3. CASE Sleep
    BY <1>1, <2>1, <2>3 DEF Sleep
  <2>4. CASE Wake \/ Rest \/ Check \/ Keepalive \/ Recover \/ Heal
    BY <2>2, <2>4 DEF Wake, Rest, Check, Keepalive, Recover, Heal
  <2> QED
    BY <1>5, <2>3, <2>4 DEF Watcher
<1>6. ASSUME NEW p \in Other, NEW a \in Account, Call(p, a)
      PROVE  JobInvariant'
  BY <1>1, <1>6 DEF Call
<1>7. ASSUME NEW a \in Account, SetStatus(a) \/ Trouble(a) \/ Promote(a)
      PROVE  JobInvariant'
  BY <1>1, <1>7 DEF SetStatus, Trouble, Promote
<1>8. ASSUME NEW as \in SUBSET Account, ReloginAccounts(as)
      PROVE  JobInvariant'
  BY <1>8, RequestCounts
<1>9. CASE UNCHANGED vars
  BY <1>1, <1>9 DEF vars
<1> QED
  BY <1>2, <1>3, <1>4, <1>5, <1>6, <1>7, <1>8, <1>9 DEF Next

(* The progress of a request to log in again counts each account once, as  *)
(* skipped, reported or in a thread that will report it, and is done when  *)
(* all are reported, whatever the watcher and others start meanwhile.      *)
THEOREM ProgressAddsUp == Spec => []JobAddsUp
<1>1. Init => JobInvariant
  <2> SUFFICES ASSUME Init PROVE JobInvariant
    OBVIOUS
  <2>1. job.active = FALSE /\ \A r \in Relogin : relog[r].job = FALSE
    BY DEF Init, Resting
  <2>2. Jobs = {}
    BY <2>1 DEF Jobs
  <2> QED
    BY <2>1, <2>2, FS_EmptySet DEF JobInvariant
<1>2. TypeOK /\ JobInvariant /\ [Next]_vars => JobInvariant'
  BY JobStep
<1>3. TypeOK /\ JobInvariant => JobAddsUp
  <2> SUFFICES ASSUME TypeOK, JobInvariant, job.active
               PROVE  /\ job.processed + Cardinality(Jobs) = job.total
                      /\ job.done <=> job.processed = job.total
    BY DEF JobAddsUp, Jobs
  <2>1. job.processed \in Nat /\ Cardinality(Jobs) \in Nat
    BY FS_CardinalityType DEF TypeOK, JobInvariant
  <2> QED
    BY <2>1 DEF JobInvariant
<1> QED
  BY <1>1, <1>2, <1>3, TypeCorrect, PTL DEF Spec
=============================================================================
