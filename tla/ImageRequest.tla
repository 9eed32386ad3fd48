----------------------------- MODULE ImageRequest -----------------------------
(***************************************************************************)
(* One request for images (services/protocol/conversation.py and           *)
(* services/openai_backend_api.py): each image takes an account, streams a *)
(* conversation, polls its document until the upstream has drawn, resolves *)
(* what it found, and on an error tries again or gives up.  The images of  *)
(* a request are drawn side by side or one after the other.                *)
(*                                                                         *)
(* The upstream draws on its own: the document of a conversation shows     *)
(* sediments and files when they come, or a refusal.  Wall-clock time is a *)
(* choice: the budget of a poll may run out at each wait.  Images come     *)
(* from the web conversation; the codex and fomimage back ends are not     *)
(* modelled.                                                               *)
(***************************************************************************)
EXTENDS Naturals, FiniteSets

CONSTANTS
  Account,
  N,                \* the images that the request asks for
  File,             \* image files that a conversation may end up with
  None,
  Other,            \* a conversation of the account that no image is at work on
  MaxRejections,    \* bound on the tokens that the upstream rejects
  MaxTls,           \* MAX_TLS_RETRIES
  MaxConn,          \* MAX_CONN_TIMEOUT_RETRIES
  MaxPoll,          \* MAX_POLL_TIMEOUT_RETRIES
  MaxReply,         \* MAX_TEXT_REPLY_RETRIES
  MaxRounds,        \* MAX_POLL_RETRIES, MAX_FALLBACK_POLL_RETRIES
  Parallel,         \* image_parallel_generation
  MessageAsError,   \* of the images API; chat shows the message instead
  CheckFirst,       \* image_check_before_hit_enabled
  Settle,           \* image_settle_enabled
  RemoveAfter,      \* image_remove_conversation_after_result
  RemoveAlways,     \* image_remove_conversation_always
  Failover          \* upstream_failover_enabled

ASSUME NumberAssumption ==
  /\ N \in Nat \ {0}
  /\ {MaxRejections, MaxTls, MaxConn, MaxPoll, MaxReply} \subseteq Nat
  /\ MaxRounds \in Nat \ {0}
ASSUME OptionAssumption ==
  {Parallel, MessageAsError, CheckFirst, Settle, RemoveAfter, RemoveAlways, Failover}
    \subseteq BOOLEAN

Image == 1 .. N
ASSUME ConversationAssumption == {None, Other} \cap Image = {}

VARIABLES
  run,        \* _generate_single_image for each image
  doc,        \* the document of the conversation each image opened last, at the upstream
  usable,     \* the accounts that were not removed or marked
  slots,      \* _image_inflight
  rejected,   \* tokens the upstream has rejected
  response    \* what the caller got

requestVars == <<run, doc, usable, slots, rejected, response>>

Kinds == {"invalid", "tls", "conn", "transient", "quota", "request"}
Stage == {"account", "breaker", "stream", "poll", "resolve", "failed", "returned", "end"}
Working == Stage \ {"account", "end"}
Delivered == {"result", "message", "timeout"}
Outcome == {"none", "error", "circuit", "unavailable", "refused", "limited", "upstream_text_reply",
            "no_image_generated"} \cup Kinds \cup Delivered

(* What a conversation shows, and what an attempt knows of it. *)
Shown == [files : SUBSET File, sediment : BOOLEAN]
Nothing == [files |-> {}, sediment |-> FALSE]
Together(x, y) == [files |-> x.files \cup y.files, sediment |-> x.sediment \/ y.sediment]

AttemptRecord ==
  [emitted : BOOLEAN,                      \* emitted_for_token
   cid : Image \cup {None, Other},         \* conversation_id, by the image that opened it
   text : {"none", "text", "reply"},       \* a reply describes the image it did not draw
   ids : Shown,                            \* file_ids and sediment_ids of the stream
   polled : Shown, hit : Shown,            \* those of the poll, last_hit_key
   round : 0 .. MaxRounds]                 \* which poll after the first one

NewAttempt ==
  [emitted |-> FALSE, cid |-> None, text |-> "none", ids |-> Nothing, polled |-> Nothing,
   hit |-> Nothing, round |-> 0]

Verdict == {"none", "refused", "limited"}

RequestTypeOK ==
  /\ run \in [Image -> [pc : Stage, acct : Account \cup {None}, at : AttemptRecord, out : Outcome,
                        tries : [tls : 0 .. MaxTls, conn : 0 .. MaxConn,
                                 poll : 0 .. MaxPoll, reply : 0 .. MaxReply]]]
  /\ doc \in [Image -> [shows : Shown, verdict : Verdict, kept : BOOLEAN, on : Account \cup {None}]]
  /\ usable \subseteq Account
  /\ slots \in [Account -> Nat]
  /\ rejected \in 0 .. MaxRejections
  /\ response \in {"open", "ok", "error"}

Opened(a) == [shows |-> Nothing, verdict |-> "none", kept |-> TRUE, on |-> a]

RequestInit ==
  /\ run = [i \in Image |-> [pc |-> "account", acct |-> None, at |-> NewAttempt, out |-> "none",
                             tries |-> [tls |-> 0, conn |-> 0, poll |-> 0, reply |-> 0]]]
  /\ doc = [i \in Image |-> Opened(None)]
  /\ usable = Account
  /\ slots = [a \in Account |-> 0]
  /\ rejected = 0
  /\ response = "open"

-----------------------------------------------------------------------------
(* Only what an attempt emitted, its conversation and the kind of its text *)
(* matter once it is over.  Who looks for the images in a conversation     *)
(* that another image opened may find anything there, so the document is   *)
(* followed no further either.                                             *)
Left(i) == doc' = [doc EXCEPT ![i].shows = Nothing, ![i].verdict = "none"]
Goes(i, pc, at) == run' = [run EXCEPT ![i].pc = pc, ![i].at = at] /\ UNCHANGED doc
Fetches(i, at) == Goes(i, "resolve", [at EXCEPT !.hit = Nothing])
Forgotten(at) == [NewAttempt EXCEPT !.emitted = at.emitted, !.cid = at.cid, !.text = at.text]
Raises(i, kind, at) ==
  /\ run' = [run EXCEPT ![i].pc = "failed", ![i].at = Forgotten(at), ![i].out = kind]
  /\ Left(i)
Returns(i, out, at) ==
  /\ run' = [run EXCEPT ![i].pc = "returned", ![i].at = Forgotten(at), ![i].out = out]
  /\ Left(i)
Yields(i, out, at) == Returns(i, out, [at EXCEPT !.emitted = TRUE])

(* A message is an error for callers that want nothing but images. *)
Says(i, at) == IF MessageAsError THEN Raises(i, "message", at) ELSE Yields(i, "message", at)

(* Images one after the other stop at the first error. *)
Turn(i) == Parallel \/ \A j \in 1 .. i - 1 : run[j].pc = "end" /\ run[j].out \in Delivered

Acquire(i) ==
  /\ run[i].pc = "account" /\ Turn(i)
  /\ \/ \E a \in usable :
          /\ run' = [run EXCEPT ![i].pc = "breaker", ![i].acct = a, ![i].at = NewAttempt,
                                ![i].out = "none"]
          /\ slots' = [slots EXCEPT ![a] = @ + 1]
     \/ /\ usable = {}
        /\ run' = [run EXCEPT ![i].pc = "end", ![i].acct = None, ![i].out = "unavailable"]
        /\ UNCHANGED slots
  /\ UNCHANGED <<doc, usable, rejected, response>>

(* An open circuit raises where nothing marks the image.  A new            *)
(* conversation takes the place of the one that the image opened before;   *)
(* whoever took that one for its own now has another conversation.         *)
Breaker(i) ==
  /\ run[i].pc = "breaker"
  /\ \/ /\ run' = [j \in Image |->
                     [run[j] EXCEPT !.pc = IF j = i THEN "stream" ELSE @,
                                    !.at.cid = IF @ = i THEN Other ELSE @]]
        /\ doc' = [doc EXCEPT ![i] = Opened(run[i].acct)]
     \/ run' = [run EXCEPT ![i].pc = "end", ![i].out = "circuit"] /\ UNCHANGED doc
  /\ UNCHANGED <<usable, slots, rejected, response>>

(* The upstream draws, or does not. *)
Draw(i) ==
  LET d == doc[i].shows IN
  /\ run[i].pc \in {"stream", "poll", "resolve"} /\ run[i].at.cid \in {None, i}
  /\ doc[i].verdict = "none"
  /\ \/ ~d.sediment /\ doc' = [doc EXCEPT ![i].shows.sediment = TRUE]
     \/ \E f \in File \ d.files : doc' = [doc EXCEPT ![i].shows.files = @ \cup {f}]
     \/ d = Nothing /\ \E v \in {"refused", "limited"} : doc' = [doc EXCEPT ![i].verdict = v]
  /\ UNCHANGED <<run, usable, slots, rejected, response>>

-----------------------------------------------------------------------------
(* The stream raises, before or after its first event, or ends.  Its last   *)
(* event tells the conversation, what the model said and the images that   *)
(* were shown; each event emits progress.                                  *)
Rejects(kind) ==
  IF kind = "invalid" THEN rejected < MaxRejections /\ rejected' = rejected + 1
  ELSE UNCHANGED rejected

StreamFails(i) ==
  /\ run[i].pc = "stream"
  /\ \E kind \in Kinds, emitted \in BOOLEAN :
       Rejects(kind) /\ Raises(i, kind, [run[i].at EXCEPT !.emitted = emitted])
  /\ UNCHANGED <<usable, slots, response>>

(* A poll starts from the images that the stream showed. *)
Polls(i, at, round) ==
  Goes(i, "poll", [at EXCEPT !.polled = at.ids, !.hit = at.ids, !.round = round])

(* find_conversation_by_prompt may tell a conversation that was missed: the *)
(* one of the account whose title fits best, or else the latest, whoever   *)
(* opened it.                                                              *)
Listed(a) == {Other} \cup {j \in Image : doc[j].on = a /\ doc[j].kept}
Finds(i, at) ==
  IF at.cid # None \/ at.text = "text" THEN {at}
  ELSE {at} \cup {[at EXCEPT !.cid = c] : c \in Listed(run[i].acct)}

StreamEnds(i) ==
  /\ run[i].pc = "stream"
  /\ \E seen, blocked \in BOOLEAN, cid \in {None, i}, text \in {"none", "text", "reply"},
        ids \in [files : SUBSET doc[i].shows.files, sediment : {FALSE, doc[i].shows.sediment}] :
       LET at == [NewAttempt EXCEPT !.emitted = seen, !.cid = cid, !.text = text, !.ids = ids] IN
       /\ seen \/ (at = NewAttempt /\ ~blocked)
       /\ IF blocked /\ text # "none" /\ ids = Nothing THEN Says(i, at)
          ELSE \E known \in IF text = "reply" THEN Finds(i, at) ELSE {at} :
                 IF known.cid = None \/ (ids.files # {} /\ ~ids.sediment /\ ~CheckFirst /\ ~Settle)
                 THEN Fetches(i, [known EXCEPT !.polled = ids])
                 ELSE Polls(i, known, 0)
  /\ UNCHANGED <<usable, slots, rejected, response>>

-----------------------------------------------------------------------------
(* Without an image to fetch: a model that meant to draw may yet have, so   *)
(* the conversation is polled again; otherwise the caller gets a message.  *)
NoImage(i, at) ==
  IF at.round = 0
  THEN \E known \in Finds(i, at) :
         IF known.cid # None /\ known.text # "text" THEN Polls(i, known, 1) ELSE Says(i, known)
  ELSE Says(i, at)

(* The poll raises.  Images that the stream showed are fetched all the      *)
(* same.  The first poll asks to wait longer, or raises on unless the      *)
(* model replied; later polls are repeated, but not after a refusal or the *)
(* budget.                                                                 *)
PollRaises(i, kind) ==
  LET at == run[i].at
      first == at.round = 0
      final == at.round = MaxRounds \/ kind \in {"timeout", "refused"}
  IN
  CASE at.ids # Nothing /\ (first \/ final) ->
         Fetches(i, [at EXCEPT !.polled = at.ids])
    [] at.ids = Nothing /\ first /\ kind = "timeout" -> Yields(i, "timeout", at)
    [] at.ids = Nothing /\ first /\ kind # "timeout" ->
         IF at.text = "reply" THEN NoImage(i, at) ELSE Raises(i, kind, at)
    [] at.ids = Nothing /\ ~first /\ final -> Says(i, at)
    [] OTHER -> Polls(i, at, at.round + 1)

(* The pages that the next reading of a conversation may get: one that was *)
(* deleted has none, and the reading fails.                                *)
Page == {p \in [shows : Shown, verdict : Verdict] : p.verdict # "none" => p.shows = Nothing}
Pages(i) ==
  LET c == run[i].at.cid IN
  IF c = Other \/ (c \in Image \ {i} /\ doc[c].kept) THEN Page
  ELSE {p \in Page : c = i /\ doc[i].kept /\ p.shows = doc[i].shows /\ p.verdict = doc[i].verdict}

(* A reading of the document adds what it shows.  A refusal counts as long  *)
(* as nothing was found.  What was found is returned when the last reading *)
(* found the same, at once where no second reading is asked for, or when   *)
(* time is up; a sediment may wait for its file.                           *)
Read(i) ==
  /\ run[i].pc = "poll"
  /\ \E page \in Pages(i) :
       LET at == run[i].at
           found == Together(at.polled, page.shows)
           now == [at EXCEPT !.polled = found]
       IN
       IF found = Nothing
       THEN page.verdict # "none" /\ PollRaises(i, page.verdict)
       ELSE \/ CheckFirst /\ Settle /\ at.hit # found /\ Goes(i, "poll", [now EXCEPT !.hit = found])
            \/ ~CheckFirst /\ found.sediment /\ found # at.polled /\ Goes(i, "poll", now)
            \/ Fetches(i, now)
  /\ UNCHANGED <<usable, slots, rejected, response>>

(* The budget of the poll runs out, between two readings or in the waits    *)
(* that follow errors of the upstream; an error of its task is a refusal.  *)
PollTimesOut(i) ==
  /\ run[i].pc = "poll"
  /\ \/ PollRaises(i, "timeout")
     \/ run[i].at.round = 0 /\ run[i].at.ids = Nothing /\ PollRaises(i, "refused")
  /\ UNCHANGED <<usable, slots, rejected, response>>

PollFails(i) ==
  /\ run[i].pc = "poll"
  /\ \E kind \in {"invalid", "transient", "request"} : Rejects(kind) /\ PollRaises(i, kind)
  /\ UNCHANGED <<usable, slots, response>>

(* _resolve_image_urls and the download: a sediment that is not there yet   *)
(* raises, an image whose address cannot be had is left out, a download    *)
(* that fails raises.  Downloads that are all empty leave nothing to show: *)
(* the first time, the stream then ends without a word.                    *)
Resolve(i) ==
  LET at == run[i].at
      ids == Together(at.ids, at.polled)
      there == ids.files # {} \/ (ids.sediment /\ at.cid # None)
  IN
  /\ run[i].pc = "resolve"
  /\ \/ /\ ids.sediment /\ at.cid # None
        /\ IF at.round = 0 /\ at.text = "reply" THEN NoImage(i, at) ELSE Raises(i, "transient", at)
     \/ NoImage(i, at)
     \/ there /\ Yields(i, "result", at)
     \/ there /\ at.round = 0 /\ Returns(i, "no_image_generated", at)
  /\ UNCHANGED <<usable, slots, rejected, response>>

DownloadFails(i) ==
  LET at == run[i].at
      ids == Together(at.ids, at.polled)
  IN
  /\ run[i].pc = "resolve" /\ (ids.files # {} \/ (ids.sediment /\ at.cid # None))
  /\ \E kind \in Kinds : Rejects(kind) /\ Raises(i, kind, at)
  /\ UNCHANGED <<usable, slots, response>>

-----------------------------------------------------------------------------
(* The end of an attempt: the image is marked, and its conversation may be *)
(* deleted.                                                                *)
Marked(a) == [slots EXCEPT ![a] = IF @ = 0 THEN 0 ELSE @ - 1]

End(i, out) ==
  run' = [run EXCEPT ![i].pc = "end", ![i].acct = None, ![i].out = out,
                     ![i].at = [Forgotten(run[i].at) EXCEPT !.emitted = FALSE]]

(* Mutant: conversations are deleted whether they have a result or not. *)
RemovedAnyway(i, success) ==
  \/ /\ run[i].at.cid \in Image /\ (RemoveAlways \/ RemoveAfter)
     /\ doc' = [doc EXCEPT ![run[i].at.cid].kept = FALSE]
  \/ UNCHANGED doc
Removed(i, success) ==
  \/ /\ run[i].at.cid \in Image
     /\ RemoveAlways \/ (success /\ RemoveAfter)
     /\ doc' = [doc EXCEPT ![run[i].at.cid].kept = FALSE]
  \/ UNCHANGED doc

(* What ended without a word, progress shown, is marked and then raises.    *)
FinishImage(i) ==
  /\ run[i].pc = "returned"
  /\ slots' = Marked(run[i].acct)
  /\ IF run[i].out = "no_image_generated"
     THEN run' = [run EXCEPT ![i].pc = "failed"] /\ UNCHANGED doc
     ELSE End(i, run[i].out) /\ Removed(i, run[i].out = "result")
  /\ UNCHANGED <<usable, rejected, response>>

(* Which counter bounds the attempts after a failure, and its bound. *)
Counter(i) ==
  CASE run[i].out = "limited" -> "poll"
    [] run[i].out = "message" /\ run[i].at.text = "reply" -> "reply"
    [] run[i].out \in {"tls", "conn"} -> run[i].out
    [] OTHER -> "none"
Limit == [tls |-> MaxTls, conn |-> MaxConn, poll |-> MaxPoll, reply |-> MaxReply]

(* Nothing may have been emitted. *)
Retries(i) ==
  /\ ~run[i].at.emitted
  /\ Counter(i) # "none" /\ run[i].tries[Counter(i)] < Limit[Counter(i)]

Retry(i) ==
  /\ Retries(i)
  /\ run' = [run EXCEPT ![i].pc = "account", ![i].tries[Counter(i)] = @ + 1]

(* A rejected token is refreshed, or the account is removed. *)
Replace(i) ==
  /\ run[i].out = "invalid" /\ ~run[i].at.emitted
  /\ run' = [run EXCEPT ![i].pc = "account"]

(* verify_account: what is left of the errors of accounts, and those of the *)
(* upstream when failover is on, removes the account.                      *)
Suspect(i) ==
  \/ run[i].out \in {"invalid", "quota"}
  \/ Failover /\ run[i].out \in {"tls", "conn", "transient"}

GiveUp(i) ==
  /\ ~Retries(i) /\ ~(run[i].out = "invalid" /\ ~run[i].at.emitted)
  /\ End(i, IF Counter(i) = "reply" /\ ~run[i].at.emitted THEN "upstream_text_reply"
            ELSE IF run[i].out \in Kinds THEN "error" ELSE run[i].out)

(* Mutant: an image that was rate limited is not marked. *)
HandleUnmarked(i) ==
  /\ run[i].pc = "failed"
  /\ slots' = IF run[i].out = "limited" THEN slots ELSE Marked(run[i].acct)
  /\ Removed(i, FALSE)
  /\ \/ Retry(i) /\ UNCHANGED usable
     \/ Replace(i) /\ usable' \in {usable, usable \ {run[i].acct}}
     \/ GiveUp(i) /\ usable' = IF Suspect(i) THEN usable \ {run[i].acct} ELSE usable
  /\ UNCHANGED <<rejected, response>>

Handle(i) ==
  /\ run[i].pc = "failed"
  /\ slots' = Marked(run[i].acct)
  /\ Removed(i, FALSE)
  /\ \/ Retry(i) /\ UNCHANGED usable
     \/ Replace(i) /\ usable' \in {usable, usable \ {run[i].acct}}
     \/ GiveUp(i) /\ usable' = IF Suspect(i) THEN usable \ {run[i].acct} ELSE usable
  /\ UNCHANGED <<rejected, response>>

-----------------------------------------------------------------------------
(* stream_image_outputs_with_pool: images side by side are awaited all, and *)
(* the request fails when none has anything to show; one after the other,  *)
(* it fails with the first of them.                                        *)
Ended(i) == run[i].pc = "end"
Shows(i) == Ended(i) /\ run[i].out \in Delivered

(* Mutant: one failure fails the request. *)
JoinImagesStrictly ==
  /\ response = "open" /\ \A i \in Image : Ended(i)
  /\ response' = IF \A i \in Image : Shows(i) THEN "ok" ELSE "error"
  /\ UNCHANGED <<run, doc, usable, slots, rejected>>

JoinImages ==
  /\ response = "open"
  /\ \/ \A i \in Image : Ended(i)
     \/ ~Parallel /\ \E i \in Image : Ended(i) /\ ~Shows(i)
  /\ response' = IF IF Parallel THEN \E i \in Image : Shows(i) ELSE \A i \in Image : Shows(i)
                 THEN "ok" ELSE "error"
  /\ UNCHANGED <<run, doc, usable, slots, rejected>>

-----------------------------------------------------------------------------
Step(i) ==
  \/ Acquire(i) \/ Breaker(i)
  \/ StreamFails(i) \/ StreamEnds(i)
  \/ Read(i) \/ PollTimesOut(i) \/ PollFails(i) \/ Resolve(i) \/ DownloadFails(i)
  \/ FinishImage(i) \/ Handle(i)

Done == response # "open" /\ UNCHANGED requestVars

RequestNext == (\E i \in Image : Step(i) \/ Draw(i)) \/ JoinImages \/ Done

(* A thread goes on, and the budget of a poll does run out. *)
RequestSpec == RequestInit /\ [][RequestNext]_requestVars
LiveSpec ==
  /\ RequestSpec
  /\ \A i \in Image : WF_requestVars(Step(i)) /\ WF_requestVars(PollTimesOut(i))
  /\ WF_requestVars(JoinImages)

-----------------------------------------------------------------------------
(* The slot of an account is held by the images that work with it and by   *)
(* none that has ended, however it ended; an open circuit alone keeps it.  *)
(* An image that ends without a word is marked twice and may free the slot *)
(* of another: from then on an account may have fewer slots taken than it  *)
(* has images, never more.                                                 *)
MarkedTwice(i) == run[i].pc = "end" /\ run[i].out = "no_image_generated"
Holders(a) ==
  {i \in Image : /\ run[i].acct = a
                 /\ run[i].pc \in Working \/ run[i].out = "circuit"
                 /\ ~(run[i].pc = "failed" /\ run[i].out = "no_image_generated")}
SlotsFollowAttempts ==
  \A a \in Account :
    /\ slots[a] <= Cardinality(Holders(a))
    /\ slots[a] = Cardinality(Holders(a)) \/ \E i \in Image : MarkedTwice(i)

(* An image that was drawn reaches the caller, whatever the other images   *)
(* of the request came to.                                                 *)
ResultsAreDelivered ==
  response = "error" => \A i \in Image : Ended(i) => run[i].out # "result"

(* The caller of an image that took too long is told to come back for the  *)
(* conversation; it is still there, unless another image of the request    *)
(* took it for its own, or it for that one's, and was delivered from it.   *)
DeliveredFrom(c) == \E j \in Image : Ended(j) /\ run[j].out = "result" /\ run[j].at.cid = c
TimeoutKeepsConversation ==
  \A i \in Image :
    Ended(i) /\ run[i].out = "timeout" /\ run[i].at.cid \in Image
      => doc[run[i].at.cid].kept \/ DeliveredFrom(run[i].at.cid)

(* Every request is answered: the attempts of an image are bounded, though *)
(* five counters share the loop.                                           *)
RequestEnds == <>(response # "open")

(* What the code does not do.  ImageRateLimitError: "should retry with     *)
(* different account".                                                     *)
RateLimitTriesAnother ==
  \A i \in Image : Ended(i) /\ run[i].out = "limited" => run[i].tries.poll = MaxPoll

(* is_model_text_reply_instead_of_image: a reply without an image is no    *)
(* violation of the content policy, which is what a message is reported as. *)
ReplyIsNoViolation ==
  \A i \in Image : Ended(i) /\ run[i].out = "message" /\ MessageAsError => run[i].at.text # "reply"
=============================================================================
