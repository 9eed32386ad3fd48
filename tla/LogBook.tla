------------------------------ MODULE LogBook ------------------------------
(***************************************************************************)
(* The request log and the counts taken from it: one file per day to which *)
(* every thread appends (services/log_service.py), and the usage counters  *)
(* which a watcher brings up to date from where it stopped reading         *)
(* (services/usage_agg.py).                                                *)
(*                                                                         *)
(* An entry is its number in order of arrival.  Appending takes no lock;   *)
(* deleting entries, trimming the day's file and rolling it over do, and   *)
(* rewrite a file in two steps, reading it and replacing it.  Trimming     *)
(* keeps lines as they are; deleting parses the lines it keeps and writes  *)
(* them again, and an entry that had no identifier (LOG_FORMAT=json logs   *)
(* none) gets one, so its line becomes longer.  Lengths and offsets count  *)
(* lines as they are logged, and such a longer line as two: an offset then *)
(* falls between two lines or inside a long one, whose rest is no entry.   *)
(* In bytes it may fall inside any line, which is lost in the same way.    *)
(* The counters by hour and kind are a count per entry.  archive() has no  *)
(* callers.                                                                *)
(***************************************************************************)
EXTENDS Integers, FiniteSets, Sequences, SequencesExt, Functions

CONSTANTS MaxLogged, \* how many entries are logged
          Days,      \* how many days pass
          Retention, \* the days after which files and counts go (90)
          MaxLines,  \* the length at which a day's file is trimmed (5000)
          KeepLines, \* the length it is trimmed to (3000)
          Writer,    \* the threads that log
          RollAt,    \* the length at which a file is rolled over
          MaxRolls   \* how often in a day

Nobody == "nobody"
Admin == "admin"

ASSUME LogAssumption ==
    /\ MaxLogged \in Nat /\ Days \in Nat \ {0} /\ Retention \in Nat /\ RollAt \in Nat /\ MaxRolls \in Nat
    /\ MaxLines \in Nat /\ KeepLines \in 0 .. MaxLines
    /\ Nobody \notin Writer /\ Admin \notin Writer

VARIABLES
    strategy, \* log_rotation_strategy: files are rolled over by day or by size
    withId,  \* entries are logged with an identifier: LOG_FORMAT is not json
    today,
    file,    \* the entries of each file that exists, by day and number
    logged,  \* how many entries were logged
    born,    \* the day of each of them
    long,    \* those whose line was written again with an identifier it did not have
    at,      \* where a thread stands in add()
    lock,    \* _write_lock
    edit,    \* what its holder read, and what it will replace it with
    counted, \* how often the counters have an entry
    offset,  \* where the watcher stopped reading
    gone     \* entries that were deleted, trimmed or expired, or appended to a
             \* file that was being rewritten

logVars == <<strategy, withId, today, file, logged, born, long, at, lock, edit, counted, offset, gone>>

Entry == 1 .. MaxLogged
Day == 1 .. Days
File == Day \X (0 .. MaxRolls)
Today == <<today, 0>>
NoEdit == [file |-> <<0, 0>>, to |-> <<>>, drops |-> {}]

In(e, f) == f \in DOMAIN file /\ e \in ToSet(file[f])
Expired(day) == day < today - Retention

LogTypeOK ==
    /\ strategy \in {"day", "size"}
    /\ withId \in BOOLEAN
    /\ today \in Day
    /\ DOMAIN file \subseteq File
    /\ \A f \in DOMAIN file : file[f] \in Seq(Entry)
    /\ logged \in 0 .. MaxLogged
    /\ born \in [Entry -> 0 .. Days]
    /\ long \subseteq Entry
    /\ at \in [Writer -> {"idle", "clean", "roll"}]
    /\ lock \in Writer \cup {Admin, Nobody}
    /\ edit = NoEdit \/ edit.file \in File
    /\ counted \in [Entry -> Nat]
    /\ offset \in [File -> Nat]
    /\ DOMAIN gone = {"deleted", "trimmed", "expired", "raced"}

LogInit ==
    /\ strategy \in {"day", "size"}
    /\ withId \in BOOLEAN
    /\ today = 1
    /\ file = [f \in {} |-> <<>>]
    /\ logged = 0
    /\ born = [e \in Entry |-> 0]
    /\ long = {}
    /\ at = [w \in Writer |-> "idle"]
    /\ lock = Nobody
    /\ edit = NoEdit
    /\ counted = [e \in Entry |-> 0]
    /\ offset = [f \in File |-> 0]
    /\ gone = [deleted |-> {}, trimmed |-> {}, expired |-> {}, raced |-> {}]

WriteFile(f, lines) == file' = [g \in DOMAIN file \cup {f} |-> IF g = f THEN lines ELSE file[g]]
UnlinkFiles(fs) == file' = Restrict(file, DOMAIN file \ fs)
Lose(how, es) == gone' = [gone EXCEPT ![how] = @ \cup es]

-----------------------------------------------------------------------------
(* Logging. *)

\* One line, without the lock.  Every 200th entry is followed by a clean-up, and with
\* rotation by size a long file is rolled over.
Log(w) ==
    LET e == logged + 1
        lines == IF Today \in DOMAIN file THEN file[Today] ELSE <<>>
    IN
    /\ at[w] = "idle"
    /\ e \in Entry
    /\ logged' = e
    /\ born' = [born EXCEPT ![e] = today]
    /\ WriteFile(Today, Append(lines, e))
    /\ IF edit.file = Today THEN Lose("raced", {e}) ELSE UNCHANGED gone
    /\ \E next \in {"idle", "clean"} \cup
                   (IF strategy = "size" /\ Len(lines) + 1 > RollAt THEN {"roll"} ELSE {}) :
           at' = [at EXCEPT ![w] = next]
    /\ UNCHANGED <<strategy, withId, today, long, lock, edit, counted, offset>>

\* Mutant: one line too few is kept.
KeptOneLess(lines) == SubSeq(lines, Len(lines) - KeepLines + 2, Len(lines))
Kept(lines) == SubSeq(lines, Len(lines) - KeepLines + 1, Len(lines))

\* _auto_cleanup: old files go, and what of a long file is kept is read.
Cleanup(w) ==
    LET old == {f \in DOMAIN file : Expired(f[1])}
        lines == file[Today]
    IN
    /\ at[w] = "clean"
    /\ lock = Nobody
    /\ UnlinkFiles(old)
    /\ Lose("expired", UNION {ToSet(file[f]) : f \in old})
    /\ IF Today \in DOMAIN file /\ Len(lines) > MaxLines
       THEN /\ lock' = w
            /\ edit' = [file |-> Today, to |-> Kept(lines),
                        drops |-> ToSet(SubSeq(lines, 1, Len(lines) - KeepLines))]
            /\ UNCHANGED at
       ELSE /\ at' = [at EXCEPT ![w] = "idle"]
            /\ UNCHANGED <<lock, edit>>
    /\ UNCHANGED <<strategy, withId, today, logged, born, long, counted, offset>>

\* Replaces the file by what was read and kept, and gives the lock back.
Rewrite(how) ==
    /\ WriteFile(edit.file, edit.to)
    /\ Lose(how, edit.drops)
    /\ lock' = Nobody
    /\ edit' = NoEdit
    /\ UNCHANGED <<strategy, withId, today, logged, born, counted, offset>>

Trim(w) ==
    /\ lock = w
    /\ at' = [at EXCEPT ![w] = "idle"]
    /\ Rewrite("trimmed")
    /\ UNCHANGED long

\* _check_size_rotation compares before it takes the lock and does not compare again.
Roll(w) ==
    LET free == {n \in 1 .. MaxRolls : <<today, n>> \notin DOMAIN file} IN
    /\ at[w] = "roll"
    /\ lock = Nobody
    /\ at' = [at EXCEPT ![w] = "idle"]
    /\ IF Today \in DOMAIN file /\ free # {}
       THEN LET to == <<today, CHOOSE n \in free : \A m \in free : n <= m>> IN
            file' = [f \in (DOMAIN file \ {Today}) \cup {to} |->
                        IF f = to THEN file[Today] ELSE file[f]]
       ELSE UNCHANGED file
    /\ UNCHANGED <<strategy, withId, today, logged, born, long, lock, edit, counted, offset, gone>>

-----------------------------------------------------------------------------
(* An administrator deletes an entry: each file is read and replaced under the *)
(* lock; files without the entry stay as they are.                             *)

\* The lines without the n-th.
Without(lines, n) == [i \in 1 .. Len(lines) - 1 |-> IF i < n THEN lines[i] ELSE lines[i + 1]]

\* Identifiers are unique: an entry is one line of one file.
Delete(f, n) ==
    /\ lock = Nobody
    /\ lock' = Admin
    /\ edit' = [file |-> f, to |-> Without(file[f], n), drops |-> {file[f][n]}]
    /\ UNCHANGED <<strategy, withId, today, file, logged, born, long, at, counted, offset, gone>>

\* Every line that is kept is written as its entry now is, with an identifier.
Deleted ==
    /\ lock = Admin
    /\ Rewrite("deleted")
    /\ long' = IF withId THEN long ELSE long \cup ToSet(edit.to)
    /\ UNCHANGED at

-----------------------------------------------------------------------------
(* The watcher. *)

\* The length of the first n lines, and of a file.
Width(lines, n) == n + Cardinality({i \in 1 .. n : lines[i] \in long})
Size(f) == Width(file[f], Len(file[f]))

\* A file that is shorter than what was read of it has been rewritten.
Stale == \E f \in DOMAIN file : offset[f] > Size(f)

ReadFrom == IF Stale THEN [f \in File |-> 0] ELSE offset
Unread(f) == {file[f][n] : n \in {m \in DOMAIN file[f] : Width(file[f], m - 1) >= ReadFrom[f]}}
\* Mutant: the counters are not emptied before a rebuild.
RebuiltOnTop == counted
Rebuilt == IF Stale THEN [e \in Entry |-> 0] ELSE counted

\* ingest: reads every file from its offset on, or all of them from the start into
\* empty counters when one is stale, and drops the counts of old days.
Ingest ==
    /\ counted' = [e \in Entry |->
           IF Expired(born[e]) THEN 0
           ELSE Rebuilt[e] + Cardinality({f \in DOMAIN file : e \in Unread(f)})]
    /\ offset' = [f \in File |-> IF f \in DOMAIN file THEN Size(f) ELSE ReadFrom[f]]
    /\ UNCHANGED <<strategy, withId, today, file, logged, born, long, at, lock, edit, gone>>

NextDay ==
    /\ today < Days
    /\ today' = today + 1
    /\ UNCHANGED <<strategy, withId, file, logged, born, long, at, lock, edit, counted, offset, gone>>

LogNext ==
    \/ \E w \in Writer : Log(w) \/ Cleanup(w) \/ Trim(w) \/ Roll(w)
    \/ \E f \in DOMAIN file : \E n \in DOMAIN file[f] : Delete(f, n)
    \/ Deleted
    \/ Ingest
    \/ NextDay

LogSpec == LogInit /\ [][LogNext]_logVars

-----------------------------------------------------------------------------
(* What the log and its counts promise. *)

\* An entry is in a file until it is deleted, trimmed or expires; only one that was
\* appended while its file was being rewritten may be lost, which the code accepts
\* (services/log_service.py:48-49).  Two rewrites never undo each other: what one of
\* them removed stays removed.
RewritesKeepTheRest ==
    \A e \in 1 .. logged :
        LET present == \E f \in File : In(e, f)
            removed == e \in gone.deleted \cup gone.trimmed \cup gone.expired
        IN  /\ present \/ removed \/ e \in gone.raced
            /\ ~(present /\ removed)

\* No entry is counted twice, whatever happens to the files between two rounds of the
\* watcher: "防 double count" (services/usage_agg.py:131).  This is so unless files are
\* rolled over by size, when the same lines appear in a file of another name, or entries
\* are logged without identifiers: then a deletion can make a file longer, the comparison
\* with the offset does not notice it, and lines counted before lie behind the offset.
CountedOnce == strategy = "day" /\ withId => \A e \in Entry : counted[e] <= 1

\* After a round of the watcher the counts are those of a full scan of the files, as
\* the tests that compare the two mean to show: "证明缓存不漂移"
\* (services/usage_agg.py:11).
NoDrift ==
    [][Ingest => \A e \in Entry :
           counted'[e] = IF \E f \in File : In(e, f) THEN 1 ELSE 0]_logVars

=============================================================================
