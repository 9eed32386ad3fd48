----------------------------- MODULE MCRequests -----------------------------
(***************************************************************************)
(* Two parts that share no state, in one run: the cache that requests for  *)
(* text go through, and the request for images.  A behaviour is one of one *)
(* part; the other rests in its initial state.                             *)
(***************************************************************************)
EXTENDS ChatCompletionCache, ImageRequest, TLC

CONSTANTS r1, r2, r3, r4, k1, k2, w1, w2, a1, f1

VARIABLE part

MCRequest == {r1, r2, r3, r4}
MCKeyOf == r1 :> k1 @@ r2 :> k1 @@ r3 :> k2 @@ r4 :> k1

PartInit == part \in {"cache", "images"} /\ Init /\ RequestInit

PartNext ==
    \/ part = "cache"  /\ Next        /\ UNCHANGED <<part, requestVars>>
    \/ part = "images" /\ RequestNext /\ UNCHANGED <<part, vars>>

PartSpec == PartInit /\ [][PartNext]_<<part, vars, requestVars>>

(* The second image meets no files, only a sediment, and is not retried; of *)
(* the tokens that are rejected and the retries of the first there is one. *)
ImagesBound ==
  /\ doc[2].shows.files = {} /\ run[2].at.polled.files = {}
  /\ run[2].tries.tls = 0 /\ rejected + run[1].tries.tls <= 1

PartSymmetry == Permutations({w1, w2})
=============================================================================
