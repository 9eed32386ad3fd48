----------------------------- MODULE MCServices -----------------------------
(***************************************************************************)
(* The parts of the program that share no state with others, in one run:   *)
(* a behaviour is one of one part, which is chosen at the start.  The      *)
(* others rest.  Each has variables of its own.                            *)
(***************************************************************************)
EXTENDS RateLimiter, TextRequest, ApiKeys, LogBook, Backups, ImageStore, ImportJobs, TLC

CONSTANTS Parts,                        \* the parts to look at
          w0,                           \* the process that changes keys and makes backups
          w1, w2,                       \* processes and threads
          i1, i2, i3,                   \* addresses of clients
          k1, k2,                       \* keys
          p1, p2,                       \* images
          a1, a2                        \* accounts

VARIABLE part

ownVars == <<limitVars, textVars, keyVars, logVars, backupVars, storeVars, importVars>>

LimitOption(redis, global, ip, workers, from) ==
    [redis |-> redis, global |-> global, ip |-> ip, workers |-> workers, from |-> from]
LimitOptions ==
    {LimitOption(TRUE, 1, 0, {w1, w2}, {i1}), LimitOption(TRUE, 2, 0, {w1}, {i1}),
     LimitOption(TRUE, 1, 1, {w1}, {i1}),
     LimitOption(FALSE, 2, 1, {w1}, {i1, i2}), LimitOption(FALSE, 0, 1, {w1}, {i1, i2, i3})}

TwoEarlier == << <<"h">>, <<"g">> >>

Init ==
    /\ part \in Parts
    /\ LimitInit /\ TextInit /\ KeyInit /\ LogInit /\ BackupInit /\ StoreInit /\ ImportInit
    /\ part # "limits" => option = LimitOption(TRUE, 1, 0, {w1, w2}, {i1}) /\ up /\ phase = 0
    /\ part # "log" => strategy = "day" /\ withId
    /\ part # "images" => mode = "local"
    /\ part # "imports" => kind = "cpa"
    /\ part # "stream" => format = "tools" /\ open = {}

Next ==
    \/ /\ part = "stream"  /\ TextNext
       /\ UNCHANGED <<part, limitVars, keyVars, logVars, backupVars, storeVars, importVars>>
    \/ /\ part = "limits"  /\ LimitNext
       /\ UNCHANGED <<part, textVars, keyVars, logVars, backupVars, storeVars, importVars>>
    \/ /\ part = "keys"    /\ KeyNext
       /\ UNCHANGED <<part, limitVars, textVars, logVars, backupVars, storeVars, importVars>>
    \/ /\ part = "log"     /\ LogNext
       /\ UNCHANGED <<part, limitVars, textVars, keyVars, backupVars, storeVars, importVars>>
    \/ /\ part = "backups" /\ BackupNext
       /\ UNCHANGED <<part, limitVars, textVars, keyVars, logVars, storeVars, importVars>>
    \/ /\ part = "images"  /\ StoreNext
       /\ UNCHANGED <<part, limitVars, textVars, keyVars, logVars, backupVars, importVars>>
    \/ /\ part = "imports" /\ ImportNext
       /\ UNCHANGED <<part, limitVars, textVars, keyVars, logVars, backupVars, storeVars>>

Spec == Init /\ [][Next]_<<part, ownVars>>

\* Files that are rolled over by size, and entries without identifiers, are looked at
\* for fewer entries or days.
LogBound ==
    /\ strategy = "size" => logged <= 3 /\ today <= 2
    /\ ~withId => today = 1

\* A part has at most one pair that can be exchanged, the limits have two.
Exchanged(x, y) == (x :> y) @@ (y :> x)
Symmetry == Permutations({i1, i2}) \cup
            {Exchanged(w1, w2) @@ Exchanged(k1, k2) @@ Exchanged(p1, p2) @@ Exchanged(a1, a2)}

=============================================================================
