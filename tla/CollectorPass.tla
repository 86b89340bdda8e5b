----------------------------- MODULE CollectorPass -----------------------------
(***************************************************************************)
(* The passes of one collector and what they leave in the MetricsCache.    *)
(* Two tasks may run collect() of the same collector object at a time: its *)
(* interval loop, and a one-shot that a panel switch fires; neither looks  *)
(* whether the other is in a pass.  A query reads the database when the    *)
(* database gets to it, and the task resumes with the rows some time       *)
(* later.                                                                  *)
(***************************************************************************)
EXTENDS Collectors, Functions

CONSTANTS
  Who,         \* the collectors to consider
  Err,         \* the answer of a query that failed
  Unknown,     \* a latch that is not set: None
  MaxVersion,  \* bound: changes of the database's contents
  MaxOutage    \* bound: outages

ASSUME PassAssumption ==
  /\ Who \subseteq Name
  /\ Err \notin Int
  /\ Unknown \notin BOOLEAN
  /\ MaxVersion \in Nat
  /\ MaxOutage \in Nat

\* The collector's interval loop, and a one-shot.
Pass == {"loop", "shot"}

VARIABLES
  who,      \* the collector
  watch,    \* the keys whose values are followed: one, or two that are twins
  kind,     \* whether the database is of the kind a "detect" step looks for
  version,  \* the contents of the database
  up,       \* whether queries succeed
  outages,
  latch,    \* _is_rac, _is_cdb or _detected of the collector
  pc,       \* pc[w]: the query w awaits, or 0 outside a pass
  got,      \* got[w]: the answers of the pass of w so far, by query
  overlap,  \* overlap[w]: another pass was under way during the pass of w
  cache     \* cache[k]: the answers that the value of k was computed from

dbVars == <<kind, version, up, outages>>

vars == <<who, watch, dbVars, latch, pc, got, overlap, cache>>

Prog == Program[who]

\* What a collector sets in all, with the queries that it comes from.
SetsOf(c) == UNION {Program[c][i].sets : i \in DOMAIN Program[c]}

\* Keys that the rows of some query go into, two at a time or one by itself.
Siblings(c) == {{p[1][1], p[2][1]} : p \in {r \in SetsOf(c) \X SetsOf(c) :
                                             r[1][2] \cap r[2][2] # {}}}

\* The keys to follow: two that are twins, one query's rows going into both, or
\* one without a twin.  The value of a key never depends on what another holds.
WatchSets(c) == {t \in Siblings(c) : \A u \in Siblings(c) : t \subseteq u => t = u}

\* The twins that are set with no await between them.  The other ones - the
\* waits with the sums and the count of the graphs next to them, the jobs with
\* the summary in their header - are not.
AtOnce == {{"sessions.list", "sessions.active_count", "sessions.total_count"},
           {"sqlmon.active", "sqlmon.recent"},
           {"dg.role", "dg.protection_mode"},
           {"waits.top_wait_sec", "waits.non_idle_total_sec"},
           {"health.total_sessions", "health.active_sessions"}}

Answer == 0..MaxVersion \cup {Err}

Empty == [x \in {} |-> Err]

TypeOK ==
  /\ who \in Who
  /\ kind \in BOOLEAN
  /\ version \in 0..MaxVersion
  /\ up \in BOOLEAN
  /\ outages \in 0..MaxOutage
  /\ latch \in {Unknown, TRUE, FALSE}
  /\ \A w \in Pass :
       /\ pc[w] \in 0..Len(Prog)
       /\ DOMAIN got[w] \subseteq 1..pc[w]
       /\ \A i \in DOMAIN got[w] : got[w][i] \in Answer
  /\ overlap \in [Pass -> BOOLEAN]
  /\ watch \in WatchSets(who)
  /\ DOMAIN cache \subseteq watch

Init ==
  /\ who \in Who
  /\ watch \in WatchSets(who)
  /\ kind \in IF Program[who][1].on = "detect" THEN BOOLEAN ELSE {TRUE}
  /\ version = 0
  /\ up = TRUE
  /\ outages = 0
  /\ latch = Unknown
  /\ pc = [w \in Pass |-> 0]
  /\ got = [w \in Pass |-> Empty]
  /\ overlap = [w \in Pass |-> FALSE]
  /\ cache = Empty

-----------------------------------------------------------------------------
\* Where a pass starts, or 0 when it ends at once: a "detect" step is left
\* out once the kind is known, and ends the pass when it is the wrong one.
FirstStep ==
  IF Prog[1].on # "detect" \/ latch = Unknown THEN 1
  ELSE IF latch THEN 2 ELSE 0

\* collect() is called and runs up to its first await.
Begin(w) ==
  /\ pc[w] = 0
  /\ FirstStep # 0
  /\ pc' = [pc EXCEPT ![w] = FirstStep]
  /\ overlap' = [v \in Pass |->
                   IF v = w THEN \E u \in Pass : pc[u] # 0
                   ELSE overlap[v] \/ pc[v] # 0]
  /\ UNCHANGED <<who, watch, dbVars, latch, got, cache>>

Awaits(w) == pc[w] # 0 /\ pc[w] \notin DOMAIN got[w]
Answered(w) == pc[w] # 0 /\ pc[w] \in DOMAIN got[w]

\* The database runs the query, or it fails.
DatabaseAnswers(w) ==
  /\ Awaits(w)
  /\ got' = [got EXCEPT ![w] = [i \in DOMAIN @ \cup {pc[w]} |->
                                  IF i # pc[w] THEN @[i]
                                  ELSE IF up THEN version ELSE Err]]
  /\ UNCHANGED <<who, watch, dbVars, latch, pc, overlap, cache>>

\* cache.set() of the keys of a step, from the answers in g.
Write(sets, g) ==
  [k \in DOMAIN cache \cup (watch \cap {s[1] : s \in sets}) |->
     IF \E s \in sets : s[1] = k
       THEN Restrict(g, (CHOOSE s \in sets : s[1] = k)[2])
       ELSE cache[k]]

\* The answers that steps after i still use for the keys that are followed.
NeededAfter(i) ==
  UNION {s[2] : s \in {q \in UNION {Prog[j].sets : j \in (i + 1)..Len(Prog)} :
                         q[1] \in watch}}

\* Mutant: the collector keeps the rows of its last pass.
GoToKeepsAnswers(w, i) ==
  /\ pc' = [pc EXCEPT ![w] = IF i > Len(Prog) THEN 0 ELSE i]
  /\ UNCHANGED got

\* w goes on with step i, or leaves the pass.
GoTo(w, i) ==
  /\ pc' = [pc EXCEPT ![w] = IF i > Len(Prog) THEN 0 ELSE i]
  /\ got' = [got EXCEPT ![w] = IF i > Len(Prog) \/ i = 0 THEN Empty
                               ELSE Restrict(@, DOMAIN @ \cap NeededAfter(i - 1))]

\* The task resumes: the keys are set, whatever the answer.
ResumeSet(w) ==
  /\ Answered(w)
  /\ Prog[pc[w]].on = "set"
  /\ cache' = Write(Prog[pc[w]].sets, got[w])
  /\ GoTo(w, pc[w] + 1)
  /\ UNCHANGED <<who, watch, dbVars, latch, overlap>>

ResumeKeep(w) ==
  /\ Answered(w)
  /\ Prog[pc[w]].on = "keep"
  /\ cache' = IF got[w][pc[w]] = Err THEN cache ELSE Write(Prog[pc[w]].sets, got[w])
  /\ GoTo(w, pc[w] + 1)
  /\ UNCHANGED <<who, watch, dbVars, latch, overlap>>

ResumeGate(w) ==
  /\ Answered(w)
  /\ Prog[pc[w]].on = "gate"
  /\ IF got[w][pc[w]] = Err
       THEN GoTo(w, 0) /\ UNCHANGED cache
       ELSE GoTo(w, pc[w] + 1) /\ cache' = Write(Prog[pc[w]].sets, got[w])
  /\ UNCHANGED <<who, watch, dbVars, latch, overlap>>

\* Mutant: a failed query counts as "yes".
DetectedUnlessNo(w) == got[w][pc[w]] = Err \/ kind

\* No row, which is also what a failed query gives, counts as "no".
Detected(w) == got[w][pc[w]] # Err /\ kind

ResumeDetect(w) ==
  /\ Answered(w)
  /\ Prog[pc[w]].on = "detect"
  /\ latch' = Detected(w)
  /\ cache' = Write(Prog[pc[w]].sets, got[w])
  /\ GoTo(w, IF latch' THEN pc[w] + 1 ELSE 0)
  /\ UNCHANGED <<who, watch, dbVars, overlap>>

\* With rows the next query follows; without, what it would set is set to
\* nothing and the pass goes on after it.
ResumeBranch(w) ==
  /\ Answered(w)
  /\ Prog[pc[w]].on = "branch"
  /\ \/ /\ got[w][pc[w]] # Err
        /\ cache' = Write(Prog[pc[w]].sets, got[w])
        /\ GoTo(w, pc[w] + 1)
     \/ /\ LET none == {<<s[1], {pc[w]}>> : s \in Prog[pc[w] + 1].sets}
           IN  cache' = Write(Prog[pc[w]].sets \cup none, got[w])
        /\ GoTo(w, pc[w] + 2)
  /\ UNCHANGED <<who, watch, dbVars, latch, overlap>>

\* The query raises something else than a DatabaseError - its pool is closed,
\* a connection is lost -, _safe_collect() logs it and the pass is over.
PassRaises(w) ==
  /\ Awaits(w)
  /\ ~up
  /\ GoTo(w, 0)
  /\ UNCHANGED <<who, watch, dbVars, latch, overlap, cache>>

-----------------------------------------------------------------------------
\* The database moves on, goes down or comes back.
ContentsChange ==
  /\ version < MaxVersion
  /\ version' = version + 1
  /\ UNCHANGED <<who, watch, kind, up, outages, latch, pc, got, overlap, cache>>

Outage ==
  /\ up
  /\ outages < MaxOutage
  /\ up' = FALSE
  /\ outages' = outages + 1
  /\ UNCHANGED <<who, watch, kind, version, latch, pc, got, overlap, cache>>

OutageEnds ==
  /\ ~up
  /\ up' = TRUE
  /\ UNCHANGED <<who, watch, kind, version, outages, latch, pc, got, overlap, cache>>

Resume(w) ==
  \/ ResumeSet(w) \/ ResumeKeep(w) \/ ResumeGate(w)
  \/ ResumeDetect(w) \/ ResumeBranch(w)

Next ==
  \/ \E w \in Pass : Begin(w) \/ DatabaseAnswers(w) \/ Resume(w) \/ PassRaises(w)
  \/ ContentsChange \/ Outage \/ OutageEnds

Spec == Init /\ [][Next]_vars

\* The interval loop always comes round again, and the database answers.
Fairness ==
  /\ WF_vars(Begin("loop"))
  /\ \A w \in Pass : WF_vars(DatabaseAnswers(w)) /\ WF_vars(Resume(w))

FairSpec == Spec /\ Fairness

-----------------------------------------------------------------------------
(* Properties *)

Failed(k) == Err \in Range(cache[k])

\* Both hold the same rows of every query that goes into both, or both nothing.
Agree(k, l) ==
  /\ k \in DOMAIN cache <=> l \in DOMAIN cache
  /\ k \in DOMAIN cache =>
       \A q \in DOMAIN cache[k] \cap DOMAIN cache[l] : cache[k][q] = cache[l][q]

IsAtOnce(k, l) == \E t \in AtOnce : {k, l} \subseteq t

\* The pass of w has yet to set one of the keys.
MoreToSet(w) ==
  \E i \in DOMAIN Prog : i > pc[w] /\ \E s \in Prog[i].sets : s[1] \in watch

\* What panels draw from one query's rows is not a mix of two passes.  Twins that
\* are set at once always agree.  The others differ while a pass has set only
\* one of them, and from then on if it ends there or another one overlaps it;
\* but a pass that is alone leaves them in agreement, whatever passes before it
\* have left, and whatever failed.
TwinsAgree ==
  [][ \A w \in Pass : Answered(w) /\ pc'[w] # pc[w] =>
        \A k, l \in watch :
          \/ Agree(k, l)'
          \/ ~IsAtOnce(k, l) /\ (MoreToSet(w) \/ overlap[w]) ]_vars

Older(a, b) ==
  \E q \in DOMAIN a \cap DOMAIN b : a[q] # Err /\ b[q] # Err /\ a[q] < b[q]

\* A panel never goes back in time by itself: only a pass that overlapped
\* another one may put older rows over newer ones.
AloneGoesForward ==
  [][ \A k \in DOMAIN cache :
        Older(cache'[k], cache[k])
          => \E w \in Pass : pc'[w] # pc[w] /\ overlap[w] ]_vars

\* However the passes overlap and fail, the collector recovers: once the
\* database stays up, every panel's key ends up with rows for good (a collector
\* that looks for a kind of database excepted).
Refills ==
  Prog[1].on # "detect" =>
    (<>[]up => <>[](\A k \in watch : k \in DOMAIN cache /\ ~Failed(k)))

\* A latch is set for good - _is_rac and _is_cdb "None = not yet checked" - and
\* decides which queries are made from then on.  It is "yes" only for a database
\* of the kind; "no" may be wrong, but only if a query has failed, and however
\* two passes overlap that look at the same time.
LatchIsEarned ==
  /\ latch = TRUE => kind
  /\ latch = FALSE => ~kind \/ outages > 0

-----------------------------------------------------------------------------
(* What a comment says, and a violation run refutes. *)

\* "panels keep showing the last values": a query that fails does not replace
\* the rows that a panel shows.
LastValuesStay ==
  [][ \A k \in DOMAIN cache : k \in PrimaryKeys /\ ~Failed(k) => ~Failed(k)' ]_vars
=============================================================================
