---------------------------- MODULE AccountPool ----------------------------
(***************************************************************************)
(* The image slots of the account pool (services/account_service.py) and   *)
(* the image requests that take them (services/protocol/conversation.py).  *)
(*                                                                         *)
(* A request thread runs _generate_single_image: it acquires a slot of an  *)
(* account, verifies the account with the upstream, reserves the egress of *)
(* the account's proxy node, generates, and records the result, which      *)
(* releases both.  Meanwhile tokens are rotated, accounts are deleted and  *)
(* imported again, and breakers open and cool.  Each action is one section *)
(* under AccountService._lock (or under the lock of the proxy pool), or    *)
(* one answer of the upstream.                                             *)
(*                                                                         *)
(* All accounts share one proxy node, the configuration in which they      *)
(* compete for its egress.  Breakers are the module CircuitBreaker's; here *)
(* they are sets of tokens that open and cool at any time.                 *)
(***************************************************************************)
EXTENDS Naturals, FiniteSets

CONSTANTS
  Token,           \* access tokens
  Initial,         \* the tokens of the accounts loaded at start-up
  NoToken,
  Request,         \* the threads that generate one image each
  MaxConcurrency,  \* image_account_concurrency
  NodeLimit,       \* the image concurrency limit of the proxy node, 0: no proxy pool
  MaxQuota,        \* a bound of the quota the upstream reports
  MaxRetries,      \* how often a request may go back for another account
  Outcome,         \* the ways an upstream call can end
  Tripping,        \* the tokens whose breaker may open
  Deleting,        \* accounts may be deleted and imported again
  AutoRemoveLimited,  \* auto_remove_rate_limited_accounts
  AutoRemoveInvalid   \* auto_remove_invalid_accounts

(* "result": an image.  "message": a text reply handed to the caller.      *)
(* "progress": the stream ends after progress events with no image.        *)
(* "retry": poll timeout, rate limit, TLS or connection error before any   *)
(* output.  "invalid": the token is refused.  "rejected": the request is    *)
(* (content policy, no image).  "error": anything else.                    *)
Outcomes == {"result", "message", "progress", "retry", "invalid", "rejected", "error"}

ASSUME TokenAssumption == Initial \subseteq Token /\ NoToken \notin Token
ASSUME BoundsAssumption ==
  /\ MaxConcurrency \in Nat \ {0}
  /\ NodeLimit \in Nat /\ MaxQuota \in Nat /\ MaxRetries \in Nat
ASSUME SwitchAssumption ==
  /\ Outcome \subseteq Outcomes /\ Tripping \subseteq Token
  /\ {Deleting, AutoRemoveLimited, AutoRemoveInvalid} \subseteq BOOLEAN

VARIABLES
  status,     \* _accounts: the status per token, "absent" when not a key
  quota,      \* _accounts: the quota per token
  alias,      \* _token_aliases
  inflight,   \* _image_inflight
  holds,      \* _egress_holds
  node,       \* AccountProxyPool._egress_inflight of the node
  open,       \* the tokens whose breaker is OPEN
  issued,     \* the tokens the upstream has issued so far
  pc,         \* where each request is
  orig,       \* the token each request took its slot with
  tok,        \* the token each request works with
  tried,      \* attempted_tokens of get_available_access_token
  out,        \* how the upstream call ended
  retries     \* how often each request went back

accountVars == <<status, quota, alias, issued>>
slotVars == <<inflight, holds, node>>
requestVars == <<pc, orig, tok, tried, out, retries>>
vars == <<accountVars, slotVars, open, requestVars>>

-----------------------------------------------------------------------------
(* One turn of the loop of _resolve_access_token_locked. *)
Hop(t) == IF status[t] = "absent" /\ alias[t] # NoToken THEN alias[t] ELSE t

(* Where the loop ends: the fixed point of Hop in every set of tokens that *)
(* contains t and is closed under Hop.                                     *)
Resolves(t, u) ==
  /\ Hop(u) = u
  /\ \A S \in SUBSET Token : t \in S /\ (\A x \in S : Hop(x) \in S) => u \in S

Resolve(t) == CHOOSE u \in Token : Resolves(t, u)

(* The keys of _accounts. *)
Live(t) == t \in {u \in Token : status[u] # "absent"}

(* _is_image_account_available, for a positive quota. *)
Available(t) == status[t] = "normal" /\ quota[t] # 0

(* _list_ready_candidate_tokens, _list_available_candidate_tokens. *)
Ready(excluded) == {t \in Token \ excluded : Available(t)}

(* Mutant: one slot too many. *)
FreeOffByOne(excluded) == {t \in Ready(excluded) : inflight[t] <= MaxConcurrency}
Free(excluded) == {t \in Ready(excluded) : inflight[t] < MaxConcurrency}

(* update_account and mark_image_result store what they computed, but drop *)
(* an account that comes out rate limited, with its breaker, when that is  *)
(* configured.  They leave its slots and reservations counted.             *)
Stored(st) == IF st = "limited" /\ AutoRemoveLimited THEN "absent" ELSE st

Store(t, st, q) ==
  /\ status' = [status EXCEPT ![t] = Stored(st)]
  /\ quota' = [quota EXCEPT ![t] = IF Stored(st) = "absent" THEN 0 ELSE q]
  /\ open' = IF Stored(st) = "absent" THEN open \ {t} ELSE open

(* Mutant: the last slot is never given back. *)
DecrementKeepingOne(n) == IF n <= 1 THEN n ELSE n - 1
Decrement(n) == IF n <= 1 THEN 0 ELSE n - 1

Goto(r, from, to) ==
  /\ pc[r] = from
  /\ pc' = [pc EXCEPT ![r] = to]

(* delete_accounts of one resolved token. *)
Forget(t) ==
  /\ status' = [status EXCEPT ![t] = "absent"]
  /\ quota' = [quota EXCEPT ![t] = 0]
  /\ inflight' = [inflight EXCEPT ![t] = 0]
  /\ holds' = [holds EXCEPT ![t] = 0]
  /\ open' = open \ {t}
  /\ alias' = [x \in Token |-> IF t \in {x, alias[x]} THEN NoToken ELSE alias[x]]

Init ==
  /\ status = [t \in Token |-> IF t \in Initial THEN "normal" ELSE "absent"]
  /\ quota \in {q \in [Token -> 0..MaxQuota] : \A t \in Token : t \in Initial <=> q[t] # 0}
  /\ alias = [t \in Token |-> NoToken]
  /\ inflight = [t \in Token |-> 0]
  /\ holds = [t \in Token |-> 0]
  /\ node = 0
  /\ open = {}
  /\ issued = Initial
  /\ pc = [r \in Request |-> "acquire"]
  /\ orig = [r \in Request |-> NoToken]
  /\ tok = [r \in Request |-> NoToken]
  /\ tried = [r \in Request |-> {}]
  /\ out = [r \in Request |-> "none"]
  /\ retries = [r \in Request |-> 0]

-----------------------------------------------------------------------------
(* get_available_access_token. *)

(* _acquire_next_candidate_token takes a slot of an account that has one.  *)
(* Which one depends on scheduler_mode.  While accounts are ready but none *)
(* has a free slot the thread waits: no action of it is enabled.           *)
Acquire(r) ==
  /\ Goto(r, "acquire", "gate")
  /\ \E t \in Free(tried[r]) :
       /\ inflight' = [inflight EXCEPT ![t] = @ + 1]
       /\ orig' = [orig EXCEPT ![r] = t]
       /\ tok' = [tok EXCEPT ![r] = t]
       /\ tried' = [tried EXCEPT ![r] = @ \cup {t}]
  /\ UNCHANGED <<accountVars, holds, node, open, out, retries>>

(* No account is ready: the request fails. *)
Refuse(r) ==
  /\ Ready(tried[r]) = {}
  /\ Goto(r, "acquire", "failed")
  /\ UNCHANGED <<accountVars, slotVars, open, orig, tok, tried, out, retries>>

(* breaker.allow_request: an OPEN breaker sends the request on to the next *)
(* candidate, with the slot it took still counted.                         *)
Gate(r) ==
  /\ Goto(r, "gate", IF orig[r] \in open THEN "acquire" ELSE "fetch")
  /\ UNCHANGED <<accountVars, slotVars, open, orig, tok, tried, out, retries>>

(* fetch_remote_info answers with a quota, which update_account stores     *)
(* under what the token resolves to by now.                                *)
FetchOk(r) ==
  LET t == Resolve(orig[r])
  IN /\ Live(t)
     /\ \E q \in 0..MaxQuota :
          /\ Store(t, IF q = 0 THEN "limited" ELSE "normal", q)
          /\ Goto(r, "fetch", IF q = 0 THEN "reject" ELSE "reserve")
     /\ tok' = [tok EXCEPT ![r] = t]
     /\ tried' = [tried EXCEPT ![r] = @ \cup {t}]
     /\ UNCHANGED <<alias, issued, slotVars, orig, out, retries>>

(* fetch_remote_info raises, or finds the account gone. *)
FetchFails(r) ==
  /\ Goto(r, "fetch", "reject")
  /\ UNCHANGED <<accountVars, slotVars, open, orig, tok, tried, out, retries>>

(* remove_invalid_token. *)
RemoveInvalid(t) ==
  /\ Live(t)
  /\ \/ AutoRemoveInvalid /\ Forget(t) /\ UNCHANGED <<issued, node>>
     \/ /\ ~AutoRemoveInvalid
        /\ Store(t, "abnormal", 0)
        /\ UNCHANGED <<alias, issued, slotVars>>

(* The upstream refuses the token once too often. *)
FetchInvalid(r) ==
  /\ Goto(r, "fetch", "reject")
  /\ RemoveInvalid(Resolve(orig[r]))
  /\ UNCHANGED <<orig, tok, tried, out, retries>>

(* _acquire_account_proxy_and_egress waits for the node, ... *)
Reserve(r) ==
  /\ Goto(r, "reserve", IF NodeLimit = 0 THEN "check" ELSE "hold")
  /\ NodeLimit # 0 => node < NodeLimit
  /\ node' = IF NodeLimit = 0 THEN node ELSE node + 1
  /\ UNCHANGED <<accountVars, inflight, holds, open, orig, tok, tried, out, retries>>

(* ... then counts the reservation under the token the slot was taken with. *)
Hold(r) ==
  /\ Goto(r, "hold", "check")
  /\ holds' = [holds EXCEPT ![orig[r]] = @ + 1]
  /\ UNCHANGED <<accountVars, inflight, node, open, orig, tok, tried, out, retries>>

(* release_image_slot under the account lock, ... *)
ReleaseSlot(t) == inflight' = [inflight EXCEPT ![Resolve(t)] = Decrement(@)]

(* ... then _release_account_egress. *)
ReleaseEgress(t) ==
  LET u == Resolve(t)
  IN /\ holds' = [holds EXCEPT ![u] = Decrement(@)]
     /\ node' = IF holds[u] > 0 /\ Live(u) THEN Decrement(node) ELSE node

(* The candidate did not do: release it and go on to the next one. *)
Reject(r) ==
  /\ Goto(r, "reject", "reject_egress")
  /\ ReleaseSlot(orig[r])
  /\ UNCHANGED <<accountVars, holds, node, open, orig, tok, tried, out, retries>>

RejectEgress(r) ==
  /\ Goto(r, "reject_egress", "acquire")
  /\ ReleaseEgress(orig[r])
  /\ UNCHANGED <<accountVars, inflight, open, orig, tok, tried, out, retries>>

-----------------------------------------------------------------------------
(* _generate_single_image. *)

(* The second look at the breaker: an OPEN one ends the request. *)
Check(r) ==
  /\ Goto(r, "check", IF tok[r] \in open THEN "circuit_open" ELSE "run")
  /\ UNCHANGED <<accountVars, slotVars, open, orig, tok, tried, out, retries>>

(* The upstream call ends; every way out begins with mark_image_result.    *)
(* MaxRetries bounds how often the upstream refuses a valid-looking token. *)
Answer(r) ==
  /\ Goto(r, "run", "release")
  /\ \E o \in Outcome :
       /\ o = "invalid" => retries[r] < MaxRetries
       /\ out' = [out EXCEPT ![r] = o]
  /\ UNCHANGED <<accountVars, slotVars, open, orig, tok, tried, retries>>

(* mark_image_result releases the slot, then the egress, ... *)
MarkRelease(r) ==
  /\ Goto(r, "release", "release_egress")
  /\ ReleaseSlot(tok[r])
  /\ UNCHANGED <<accountVars, holds, node, open, orig, tok, tried, out, retries>>

MarkEgress(r) ==
  /\ Goto(r, "release_egress", "book")
  /\ ReleaseEgress(tok[r])
  /\ UNCHANGED <<accountVars, inflight, open, orig, tok, tried, out, retries>>

(* ... and books the result on the account, if it is still there. *)
BookSuccess(t) ==
  LET q == IF quota[t] = 0 THEN 0 ELSE quota[t] - 1
      st == CASE q = 0 -> "limited"
              [] q # 0 /\ status[t] = "limited" -> "normal"
              [] OTHER -> status[t]
  IN Store(t, st, q)

Booking(r, t) ==
  \/ ~Live(t) /\ UNCHANGED <<status, quota, open>>
  \/ Live(t) /\ out[r] = "result" /\ BookSuccess(t)
  \/ Live(t) /\ out[r] # "result" /\ Store(t, status[t], quota[t])

MayRetry(r) == retries[r] < MaxRetries

(* What the caller does next.  A stream that ended without an image raises *)
(* inside the try block, whose handler marks the same result once more.    *)
AfterBook(r) ==
  CASE out[r] \in {"result", "message"} -> "done"
    [] out[r] = "progress" -> "release"
    [] out[r] = "invalid" -> "invalid"
    [] out[r] = "retry" /\ MayRetry(r) -> "acquire"
    [] out[r] = "rejected" -> "failed"
    [] OTHER -> "verify"

Book(r) ==
  /\ Goto(r, "book", AfterBook(r))
  /\ Booking(r, Resolve(tok[r]))
  /\ out' = [out EXCEPT ![r] = IF @ = "progress" THEN "rejected" ELSE "none"]
  /\ retries' = [retries EXCEPT ![r] = IF AfterBook(r) \in {"acquire", "invalid"}
                                         THEN @ + 1 ELSE @]
  /\ tried' = [tried EXCEPT ![r] = {}]
  /\ UNCHANGED <<alias, issued, slotVars, orig, tok>>

(* A refused token is refreshed, which is Rotate, or removed, or left when *)
(* the account is gone; the loop starts again.                             *)
Invalid(r) ==
  /\ Goto(r, "invalid", "acquire")
  /\ \/ UNCHANGED <<accountVars, slotVars, open>>
     \/ RemoveInvalid(Resolve(tok[r]))
  /\ UNCHANGED <<orig, tok, tried, out, retries>>

(* An error that ends the request may take the account with it: whether it *)
(* does, verify_account tells from the failure code.                       *)
Verify(r) ==
  /\ Goto(r, "verify", "failed")
  /\ \/ UNCHANGED <<accountVars, slotVars, open>>
     \/ RemoveInvalid(Resolve(tok[r]))
  /\ UNCHANGED <<orig, tok, tried, out, retries>>

-----------------------------------------------------------------------------
(* What others do to the pool. *)

(* The slots of the old token move to the new one. *)
(* Mutant: they stay where they are. *)
SlotsLeftBehind(old, new) == inflight
SlotsMoved(old, new) ==
  [inflight EXCEPT ![old] = 0, ![new] = @ + inflight[old]]

(* _apply_refreshed_tokens with a new access token, which is always one    *)
(* the upstream has not issued before.  _egress_holds is left as it is.    *)
Rotate(old, new) ==
  /\ Live(old)
  /\ new \in Token \ issued
  /\ issued' = issued \cup {new}
  /\ status' = [status EXCEPT ![old] = "absent", ![new] = status[old]]
  /\ quota' = [quota EXCEPT ![old] = 0, ![new] = quota[old]]
  /\ alias' = [alias EXCEPT ![old] = new]
  /\ inflight' = SlotsMoved(old, new)
  /\ open' = open \ {old}
  /\ UNCHANGED <<holds, node, requestVars>>

(* delete_accounts, called by an administrator. *)
Delete(t) ==
  /\ Deleting /\ Live(t)
  /\ Forget(t)
  /\ UNCHANGED <<issued, node, requestVars>>

(* _add_account_payloads of a token that was in the pool before.  An alias *)
(* that its rotation left behind stays.                                    *)
Import(t) ==
  /\ Deleting /\ ~Live(t)
  /\ t \in issued
  /\ status' = [status EXCEPT ![t] = "normal"]
  /\ quota' = [quota EXCEPT ![t] = MaxQuota]
  /\ UNCHANGED <<alias, issued, slotVars, open, requestVars>>

BreakerOpens(t) ==
  /\ t \in Tripping \ open /\ Live(t)
  /\ open' = open \cup {t}
  /\ UNCHANGED <<accountVars, slotVars, requestVars>>

BreakerCools(t) ==
  /\ t \in open
  /\ open' = open \ {t}
  /\ UNCHANGED <<accountVars, slotVars, requestVars>>

Step(r) ==
  \/ Acquire(r) \/ Refuse(r) \/ Gate(r)
  \/ FetchOk(r) \/ FetchFails(r) \/ FetchInvalid(r)
  \/ Reserve(r) \/ Hold(r) \/ Reject(r) \/ RejectEgress(r)
  \/ Check(r) \/ Answer(r) \/ MarkRelease(r) \/ MarkEgress(r)
  \/ Book(r) \/ Invalid(r) \/ Verify(r)

Environment ==
  \/ \E t, u \in Token : Rotate(t, u)
  \/ \E t \in Token : Delete(t) \/ Import(t) \/ BreakerOpens(t) \/ BreakerCools(t)

(* The image requests are all over. *)
Quiet == \A r \in Request : pc[r] \in {"done", "failed", "circuit_open"}

Next ==
  \/ \E r \in Request : Step(r)
  \/ Environment

Spec == Init /\ [][Next]_vars

(* A request thread keeps running, the upstream answers every call, and an *)
(* open breaker cools.                                                     *)
FairSpec ==
  /\ Spec
  /\ \A r \in Request : WF_vars(Step(r))
  /\ \A t \in Token : WF_vars(BreakerCools(t))

-----------------------------------------------------------------------------
Locations ==
  {"acquire", "gate", "fetch", "reserve", "hold", "reject", "reject_egress",
   "check", "run", "release", "release_egress", "book", "invalid", "verify",
   "done", "failed", "circuit_open"}

(* The type invariant. *)
TypeOK ==
  /\ status \in [Token -> {"absent", "normal", "limited", "abnormal"}]
  /\ quota \in [Token -> 0..MaxQuota]
  /\ alias \in [Token -> Token \cup {NoToken}]
  /\ inflight \in [Token -> Nat]
  /\ holds \in [Token -> Nat]
  /\ node \in 0..NodeLimit
  /\ open \subseteq Token
  /\ issued \subseteq Token
  /\ pc \in [Request -> Locations]
  /\ orig \in [Request -> Token \cup {NoToken}]
  /\ tok \in [Request -> Token \cup {NoToken}]
  /\ tried \in [Request -> SUBSET Token]
  /\ out \in [Request -> Outcomes \cup {"none"}]
  /\ retries \in [Request -> 0..MaxRetries]

(* No account is ever booked beyond image_account_concurrency, although    *)
(* rotation adds the slots of one token to those of another.               *)
SlotBound == \A t \in Token : inflight[t] <= MaxConcurrency

(* A request that has a slot of the account with token t. *)
Holding == {"gate", "fetch", "reserve", "hold", "reject", "check", "run", "release"}
Holders(t) == {r \in Request : pc[r] \in Holding /\ Resolve(tok[r]) = t}

(* Every slot in use is counted, whatever tokens are rotated and removed   *)
(* while requests run: release_image_slot finds the account by its aliases.*)
SlotsCounted ==
  \A t \in Token : Live(t) => Cardinality(Holders(t)) <= inflight[t]

(* The requests generating on the account with token t. *)
Generating(t) == {r \in Request : pc[r] = "run" /\ Resolve(tok[r]) = t}

(* What the settings page promises: no account serves more image requests  *)
(* at a time than image_account_concurrency.                               *)
LimitRespected ==
  \A t \in Token : Live(t) => Cardinality(Generating(t)) <= MaxConcurrency

(* No slot stays behind with a token that has left the pool, where an      *)
(* import of that token would find the account busy: rotation and deletion *)
(* take the count along, and a late release never adds to it.  Only the    *)
(* removal of rate limited accounts leaves it behind.                      *)
NoStrandedSlot ==
  ~AutoRemoveLimited => \A t \in Token : inflight[t] > 0 => Live(t)

(* acquire and release of the node's egress are paired: when no request is *)
(* left, the node is free.                                                 *)
EgressBalanced == Quiet => node = 0

(* The node never carries more generations than its limit. *)
NodeLimitRespected ==
  NodeLimit # 0 => Cardinality({r \in Request : pc[r] = "run"}) <= NodeLimit

(* A request waiting for a slot gets one, or is told there is none. *)
EventuallyServed == \A r \in Request : pc[r] = "acquire" ~> pc[r] # "acquire"

(* Every request ends. *)
EventuallyQuiet == <>Quiet
=============================================================================
