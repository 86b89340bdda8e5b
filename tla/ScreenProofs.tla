------------------------------- MODULE ScreenProofs -------------------------------
(***************************************************************************)
(* The theorems of what comes to the screen.  Of CollectorPass, for any    *)
(* set of collectors, any number of outages and of changes of the          *)
(* database: its types, LatchIsEarned, TwinsAgree and AloneGoesForward;    *)
(* what they need of the nineteen programs is stated once for all of them  *)
(* and proved program by program.  Of SelectionPanels, for every set of    *)
(* keys and any bounds: its types and DetailIsOfSelection.                 *)
(***************************************************************************)
EXTENDS MCScreen, TLAPS

-----------------------------------------------------------------------------
(* THE PASSES OF A COLLECTOR *)

\* A failed answer, in either pass, has an outage behind it: the latch is set
\* from an answer that may be old by the time the pass resumes.
FailuresAreEarned ==
  /\ version \in Nat
  /\ outages \in Nat
  /\ ~up => outages > 0
  /\ DOMAIN got = Pass
  /\ \A w \in Pass : \A i \in DOMAIN got[w] : got[w][i] = Err => outages > 0

\* The inductive invariant.
LatchInv == FailuresAreEarned /\ LatchIsEarned

USE PassAssumption

-----------------------------------------------------------------------------
LEMMA InitEstablishesInv == Init => LatchInv
<1>. SUFFICES ASSUME Init
              PROVE  LatchInv
  OBVIOUS
<1>1. version = 0 /\ outages = 0 /\ up
  BY DEF Init
<1>2. DOMAIN got = Pass /\ \A w \in Pass : DOMAIN got[w] = {}
  BY DEF Init, Empty
<1>3. latch # TRUE /\ latch # FALSE
  BY DEF Init
<1>. QED  BY <1>1, <1>2, <1>3 DEF LatchInv, FailuresAreEarned, LatchIsEarned

\* A pass that goes on, or ends, keeps only answers that it had.
LEMMA GoToKeepsFailures ==
  ASSUME FailuresAreEarned, NEW w \in Pass, NEW i, GoTo(w, i),
         UNCHANGED <<up, version, outages>>
  PROVE  FailuresAreEarned'
<1>1. /\ DOMAIN got' = Pass
      /\ \A v \in Pass : v # w => got'[v] = got[v]
      /\ \/ got'[w] = Empty
         \/ got'[w] = Restrict(got[w], DOMAIN got[w] \cap NeededAfter(i - 1))
  BY DEF GoTo, FailuresAreEarned
<1>2. \A j \in DOMAIN got'[w] : j \in DOMAIN got[w] /\ got'[w][j] = got[w][j]
  BY <1>1 DEF Restrict, Empty
<1>. QED  BY <1>1, <1>2 DEF FailuresAreEarned

\* The database answers with what it holds, or fails while it is down.
LEMMA AnswersAreEarned ==
  ASSUME LatchInv, NEW w \in Pass, DatabaseAnswers(w)
  PROVE  LatchInv'
<1>1. UNCHANGED <<version, outages, up, kind, latch>>
  BY DEF DatabaseAnswers, dbVars
<1>2. DOMAIN got' = Pass
  BY DEF DatabaseAnswers, LatchInv, FailuresAreEarned
<1>3. ASSUME NEW v \in Pass, NEW i \in DOMAIN got'[v], got'[v][i] = Err
      PROVE  outages > 0
  <2>1. CASE v = w /\ i = pc[w]
    <3>1. got'[v][i] = IF up THEN version ELSE Err
      BY <1>3, <2>1 DEF DatabaseAnswers, LatchInv, FailuresAreEarned
    <3>. QED  BY <1>3, <3>1 DEF LatchInv, FailuresAreEarned
  <2>2. CASE v = w /\ i # pc[w]
    <3>1. i \in DOMAIN got[w] /\ got'[v][i] = got[w][i]
      BY <1>3, <2>2 DEF DatabaseAnswers, LatchInv, FailuresAreEarned
    <3>. QED  BY <1>3, <2>2, <3>1 DEF LatchInv, FailuresAreEarned
  <2>3. CASE v # w
    <3>1. got'[v] = got[v]
      BY <2>3 DEF DatabaseAnswers, LatchInv, FailuresAreEarned
    <3>. QED  BY <1>3, <3>1 DEF LatchInv, FailuresAreEarned
  <2>. QED  BY <2>1, <2>2, <2>3
<1>. QED  BY <1>1, <1>2, <1>3 DEF LatchInv, FailuresAreEarned, LatchIsEarned

\* The step that latches.
LEMMA LatchingIsEarned ==
  ASSUME LatchInv, NEW w \in Pass, ResumeDetect(w)
  PROVE  LatchInv'
<1>1. FailuresAreEarned'
  BY GoToKeepsFailures DEF ResumeDetect, LatchInv, dbVars
<1>2. latch' = (got[w][pc[w]] # Err /\ kind)
  BY DEF ResumeDetect, Detected
<1>3. got[w][pc[w]] = Err => outages > 0
  BY DEF ResumeDetect, Answered, LatchInv, FailuresAreEarned
<1>4. kind' = kind /\ outages' = outages
  BY DEF ResumeDetect, dbVars
<1>. QED  BY <1>1, <1>2, <1>3, <1>4 DEF LatchInv, LatchIsEarned

LEMMA NextKeepsInv == LatchInv /\ [Next]_vars => LatchInv'
<1>. SUFFICES ASSUME LatchInv, [Next]_vars
              PROVE  LatchInv'
  OBVIOUS
<1>1. CASE UNCHANGED vars
  BY <1>1 DEF vars, dbVars, LatchInv, FailuresAreEarned, LatchIsEarned
<1>2. ASSUME NEW w \in Pass, Begin(w)
      PROVE  LatchInv'
  BY <1>2 DEF Begin, dbVars, LatchInv, FailuresAreEarned, LatchIsEarned
<1>3. ASSUME NEW w \in Pass, DatabaseAnswers(w)
      PROVE  LatchInv'
  BY <1>3, AnswersAreEarned
<1>4. ASSUME NEW w \in Pass, NEW i, GoTo(w, i), UNCHANGED <<dbVars, latch>>
      PROVE  LatchInv'
  BY <1>4, GoToKeepsFailures DEF dbVars, LatchInv, LatchIsEarned
<1>5. ASSUME NEW w \in Pass, Resume(w)
      PROVE  LatchInv'
  <2>1. CASE ResumeSet(w)
    BY <2>1, <1>4 DEF ResumeSet
  <2>2. CASE ResumeKeep(w)
    BY <2>2, <1>4 DEF ResumeKeep
  <2>3. CASE ResumeGate(w)
    BY <2>3, <1>4 DEF ResumeGate
  <2>4. CASE ResumeDetect(w)
    BY <2>4, LatchingIsEarned
  <2>5. CASE ResumeBranch(w)
    BY <2>5, <1>4 DEF ResumeBranch
  <2>. QED  BY <1>5, <2>1, <2>2, <2>3, <2>4, <2>5 DEF Resume
<1>6. ASSUME NEW w \in Pass, PassRaises(w)
      PROVE  LatchInv'
  BY <1>6, <1>4 DEF PassRaises
<1>7. CASE ContentsChange
  BY <1>7 DEF ContentsChange, LatchInv, FailuresAreEarned, LatchIsEarned
<1>8. CASE Outage
  BY <1>8 DEF Outage, LatchInv, FailuresAreEarned, LatchIsEarned
<1>9. CASE OutageEnds
  BY <1>9 DEF OutageEnds, LatchInv, FailuresAreEarned, LatchIsEarned
<1>. QED  BY <1>1, <1>2, <1>3, <1>5, <1>6, <1>7, <1>8, <1>9 DEF Next

-----------------------------------------------------------------------------
\* _is_rac, _is_cdb and _detected are "yes" only for a database of that kind,
\* and wrongly "no" only after a query has failed, however two passes that look
\* at the same time overlap.
THEOREM LatchIsEarnedAlways == Spec => []LatchIsEarned
<1>1. LatchInv => LatchIsEarned
  BY DEF LatchInv
<1>. QED  BY <1>1, InitEstablishesInv, NextKeepsInv, PTL DEF Spec

-----------------------------------------------------------------------------
(* Types *)

LEMMA Names ==
  Name = {"Health", "Waits", "Sessions", "SQL", "RAC", "SQLMonitor", "DataGuard",
          "ASM", "RMAN", "IOActivity", "PDB", "Jobs", "Exadata", "Advisor",
          "MemoryAdvisor", "AWR", "Objects", "AlertLog", "PlanHist"}
  BY DEF Name, Program

\* Every collector makes a query, and one that detects makes another one.
Fits(p) == /\ Len(p) \in Nat \ {0}
           /\ p[1].on = "detect" => Len(p) >= 2

LEMMA ProgramsFit == \A c \in Name : Fits(Program[c])
<1>. USE DEF Program, Fits, Rows, KeepRow, Step, Read
<1>1. Fits(Program["Health"])
  BY DEF HealthCollector
<1>2. Fits(Program["Waits"])
  BY DEF WaitsCollector
<1>3. Fits(Program["Sessions"])
  BY DEF SessionsCollector
<1>4. Fits(Program["SQL"])
  BY DEF SQLCollector
<1>5. Fits(Program["RAC"])
  BY DEF RACCollector
<1>6. Fits(Program["SQLMonitor"])
  BY DEF SQLMonitorCollector
<1>7. Fits(Program["DataGuard"])
  BY DEF DataGuardCollector
<1>8. Fits(Program["ASM"])
  BY DEF ASMCollector
<1>9. Fits(Program["RMAN"])
  BY DEF RMANCollector
<1>10. Fits(Program["IOActivity"])
  BY DEF IOActivityCollector
<1>11. Fits(Program["PDB"])
  BY DEF PDBCollector
<1>12. Fits(Program["Jobs"])
  BY DEF JobsCollector
<1>13. Fits(Program["Exadata"])
  BY DEF ExadataCollector
<1>14. Fits(Program["Advisor"])
  BY DEF AdvisorCollector
<1>15. Fits(Program["MemoryAdvisor"])
  BY DEF MemoryAdvisorCollector
<1>16. Fits(Program["AWR"])
  BY DEF AWRCollector
<1>17. Fits(Program["Objects"])
  BY DEF ObjectsCollector
<1>18. Fits(Program["AlertLog"])
  BY DEF AlertLogCollector
<1>19. Fits(Program["PlanHist"])
  BY DEF PlanHistCollector
<1>. HIDE DEF Program, Fits, Rows, KeepRow, Step, Read
<1>. QED
  BY <1>1, <1>2, <1>3, <1>4, <1>5, <1>6, <1>7, <1>8, <1>9, <1>10, <1>11, <1>12,
     <1>13, <1>14, <1>15, <1>16, <1>17, <1>18, <1>19, Names

PassTypes ==
  /\ TypeOK
  /\ DOMAIN pc = Pass
  /\ DOMAIN got = Pass

LEMMA LenOfProg == TypeOK => Len(Prog) \in Nat
<1>. SUFFICES ASSUME TypeOK
              PROVE  Len(Prog) \in Nat
  OBVIOUS
<1>1. who \in Name
  BY DEF TypeOK
<1>. QED  BY <1>1, ProgramsFit DEF Prog, Fits

LEMMA InitTypes == Init => PassTypes
<1>. SUFFICES ASSUME Init
              PROVE  PassTypes
  OBVIOUS
<1>1. /\ who \in Who /\ watch \in WatchSets(who)
      /\ kind \in BOOLEAN /\ up \in BOOLEAN /\ latch = Unknown
      /\ version \in 0..MaxVersion /\ outages \in 0..MaxOutage
  <2>1. kind \in BOOLEAN /\ up \in BOOLEAN
    BY Zenon DEF Init
  <2>2. /\ who \in Who /\ watch \in WatchSets(who) /\ latch = Unknown
        /\ version = 0 /\ outages = 0
    BY DEF Init
  <2>. QED  BY <2>1, <2>2
<1>2. /\ DOMAIN pc = Pass /\ DOMAIN got = Pass
      /\ \A w \in Pass : pc[w] = 0 /\ DOMAIN got[w] = {}
      /\ overlap \in [Pass -> BOOLEAN]
  BY DEF Init, Empty
<1>3. DOMAIN cache \subseteq watch
  BY DEF Init, Empty
<1>4. Len(Prog) \in Nat
  BY <1>1, ProgramsFit DEF Prog, Fits
<1>. QED  BY <1>1, <1>2, <1>3, <1>4 DEF PassTypes, TypeOK

\* A pass goes on to a step after the one it is at, or ends.
LEMMA GoToTypes ==
  ASSUME PassTypes, NEW w \in Pass, NEW i \in Nat, GoTo(w, i),
         pc[w] <= i \/ i = 0,
         latch' \in {Unknown, TRUE, FALSE}, DOMAIN cache' \subseteq watch,
         UNCHANGED <<who, watch, dbVars, overlap>>
  PROVE  PassTypes'
<1>1. Len(Prog) \in Nat /\ Prog' = Prog
  BY LenOfProg DEF PassTypes, Prog
<1>2. /\ DOMAIN pc' = Pass /\ DOMAIN got' = Pass
      /\ \A v \in Pass : v # w => pc'[v] = pc[v] /\ got'[v] = got[v]
  BY DEF GoTo, PassTypes
<1>3. pc'[w] = IF i > Len(Prog) THEN 0 ELSE i
  BY DEF GoTo, PassTypes
<1>4. got'[w] = IF i > Len(Prog) \/ i = 0 THEN Empty
                ELSE Restrict(got[w], DOMAIN got[w] \cap NeededAfter(i - 1))
  BY DEF GoTo, PassTypes
<1>5. pc'[w] \in 0..Len(Prog)
  BY <1>1, <1>3
<1>6. /\ DOMAIN got'[w] \subseteq 1..pc'[w]
      /\ \A j \in DOMAIN got'[w] : got'[w][j] \in Answer
  <2>1. CASE i > Len(Prog) \/ i = 0
    BY <1>4, <2>1 DEF Empty
  <2>2. CASE ~(i > Len(Prog) \/ i = 0)
    <3>1. pc[w] <= i /\ pc'[w] = i /\ pc[w] \in Nat
      BY <1>1, <1>3, <2>2 DEF PassTypes, TypeOK
    <3>2. \A j \in DOMAIN got'[w] : j \in DOMAIN got[w] /\ got'[w][j] = got[w][j]
      BY <1>4, <2>2 DEF Restrict
    <3>3. /\ DOMAIN got[w] \subseteq 1..pc[w]
          /\ \A j \in DOMAIN got[w] : got[w][j] \in Answer
      BY DEF PassTypes, TypeOK
    <3>. QED  BY <3>1, <3>2, <3>3
  <2>. QED  BY <2>1, <2>2
<1>7. \A v \in Pass :
        /\ pc'[v] \in 0..Len(Prog)'
        /\ DOMAIN got'[v] \subseteq 1..pc'[v]
        /\ \A j \in DOMAIN got'[v] : got'[v][j] \in Answer
  BY <1>1, <1>2, <1>5, <1>6 DEF PassTypes, TypeOK
<1>. QED  BY <1>2, <1>7 DEF PassTypes, TypeOK, dbVars

LEMMA WriteKeepsWatch ==
  ASSUME TypeOK, NEW sets, NEW g
  PROVE  DOMAIN Write(sets, g) \subseteq watch
  BY DEF Write, TypeOK

LEMMA BeginTypes ==
  ASSUME PassTypes, NEW w \in Pass, Begin(w)
  PROVE  PassTypes'
<1>1. who \in Name /\ Prog' = Prog /\ Fits(Prog)
  BY ProgramsFit DEF PassTypes, TypeOK, Begin, Prog
<1>2. FirstStep \in 0..Len(Prog)
  BY <1>1 DEF FirstStep, Fits
<1>3. /\ DOMAIN pc' = Pass
      /\ \A v \in Pass : pc'[v] = IF v = w THEN FirstStep ELSE pc[v]
  BY DEF Begin, PassTypes
<1>4. pc[w] = 0 /\ got' = got
  BY DEF Begin
<1>5. \A v \in Pass :
        /\ pc'[v] \in 0..Len(Prog)
        /\ DOMAIN got'[v] \subseteq 1..pc'[v]
        /\ \A j \in DOMAIN got'[v] : got'[v][j] \in Answer
  <2>1. DOMAIN got[w] = {}
    BY <1>4 DEF PassTypes, TypeOK
  <2>. QED  BY <1>2, <1>3, <1>4, <2>1 DEF PassTypes, TypeOK
<1>6. overlap' \in [Pass -> BOOLEAN]
  <2>1. \A v \in Pass :
          (IF v = w THEN \E u \in Pass : pc[u] # 0 ELSE overlap[v] \/ pc[v] # 0) \in BOOLEAN
    BY Zenon DEF PassTypes, TypeOK
  <2>. QED  BY <2>1, Zenon DEF Begin
<1>. QED
  BY <1>1, <1>3, <1>4, <1>5, <1>6 DEF Begin, PassTypes, TypeOK, dbVars

LEMMA DatabaseAnswersTypes ==
  ASSUME PassTypes, NEW w \in Pass, DatabaseAnswers(w)
  PROVE  PassTypes'
<1>1. Prog' = Prog /\ pc' = pc /\ DOMAIN got' = Pass
  BY DEF DatabaseAnswers, Prog, PassTypes
<1>2. \A v \in Pass \ {w} : got'[v] = got[v]
  BY DEF DatabaseAnswers, PassTypes
<1>3. got'[w] = [i \in DOMAIN got[w] \cup {pc[w]} |->
                   IF i # pc[w] THEN got[w][i] ELSE IF up THEN version ELSE Err]
  BY DEF DatabaseAnswers, PassTypes
<1>4. /\ DOMAIN got[w] \subseteq 1..pc[w] /\ pc[w] # 0 /\ pc[w] \in 0..Len(Prog)
      /\ Len(Prog) \in Nat
      /\ \A j \in DOMAIN got[w] : got[w][j] \in Answer
      /\ version \in Answer
  BY LenOfProg DEF DatabaseAnswers, Awaits, PassTypes, TypeOK, Answer
<1>5. /\ DOMAIN got'[w] \subseteq 1..pc'[w]
      /\ \A j \in DOMAIN got'[w] : got'[w][j] \in Answer
  BY <1>1, <1>3, <1>4 DEF Answer
<1>. QED
  BY <1>1, <1>2, <1>5 DEF DatabaseAnswers, PassTypes, TypeOK, dbVars

LEMMA ResumeTypes ==
  ASSUME PassTypes, NEW w \in Pass, Resume(w)
  PROVE  PassTypes'
<1>1. /\ pc[w] \in Nat /\ pc[w] + 1 \in Nat /\ pc[w] + 2 \in Nat /\ 0 \in Nat
      /\ pc[w] <= pc[w] + 1 /\ pc[w] <= pc[w] + 2
  BY LenOfProg DEF PassTypes, TypeOK
<1>2. /\ DOMAIN cache \subseteq watch /\ latch \in {Unknown, TRUE, FALSE}
      /\ \A sets, g : DOMAIN Write(sets, g) \subseteq watch
  BY WriteKeepsWatch DEF PassTypes, TypeOK
<1>3. ASSUME DOMAIN cache' \subseteq watch, latch' \in {Unknown, TRUE, FALSE},
             UNCHANGED <<who, watch, dbVars, overlap>>,
             GoTo(w, 0) \/ GoTo(w, pc[w] + 1) \/ GoTo(w, pc[w] + 2)
      PROVE  PassTypes'
  <2>1. CASE GoTo(w, 0)
    BY <1>1, <1>3, <2>1, GoToTypes
  <2>2. CASE GoTo(w, pc[w] + 1)
    BY <1>1, <1>3, <2>2, GoToTypes
  <2>3. CASE GoTo(w, pc[w] + 2)
    BY <1>1, <1>3, <2>3, GoToTypes
  <2>. QED  BY <1>3, <2>1, <2>2, <2>3
<1>4. CASE ResumeSet(w)
  <2>1. DOMAIN cache' \subseteq watch /\ latch' = latch
    BY <1>2, <1>4 DEF ResumeSet
  <2>. QED  BY <1>2, <1>3, <1>4, <2>1 DEF ResumeSet
<1>5. CASE ResumeKeep(w)
  <2>1. DOMAIN cache' \subseteq watch /\ latch' = latch
    BY <1>2, <1>5 DEF ResumeKeep
  <2>. QED  BY <1>2, <1>3, <1>5, <2>1 DEF ResumeKeep
<1>6. CASE ResumeGate(w)
  <2>1. DOMAIN cache' \subseteq watch /\ latch' = latch
    BY <1>2, <1>6 DEF ResumeGate
  <2>. QED  BY <1>2, <1>3, <1>6, <2>1 DEF ResumeGate
<1>7. CASE ResumeDetect(w)
  <2>1. latch' \in {TRUE, FALSE}
    BY <1>7, Zenon DEF ResumeDetect, Detected
  <2>2. DOMAIN cache' \subseteq watch
    BY <1>2, <1>7 DEF ResumeDetect
  <2>3. GoTo(w, 0) \/ GoTo(w, pc[w] + 1)
    <3>1. CASE latch'
      BY <1>7, <3>1 DEF ResumeDetect
    <3>2. CASE ~latch'
      BY <1>7, <3>2 DEF ResumeDetect
    <3>. QED  BY <3>1, <3>2
  <2>. QED  BY <1>3, <1>7, <2>1, <2>2, <2>3 DEF ResumeDetect
<1>8. CASE ResumeBranch(w)
  <2>1. DOMAIN cache' \subseteq watch /\ latch' = latch
    BY <1>2, <1>8 DEF ResumeBranch
  <2>. QED  BY <1>2, <1>3, <1>8, <2>1 DEF ResumeBranch
<1>. QED  BY <1>4, <1>5, <1>6, <1>7, <1>8 DEF Resume

LEMMA NextTypes == PassTypes /\ [Next]_vars => PassTypes'
<1>. SUFFICES ASSUME PassTypes, [Next]_vars
              PROVE  PassTypes'
  OBVIOUS
<1>1. CASE UNCHANGED vars
  BY <1>1 DEF vars, dbVars, PassTypes, TypeOK, Prog
<1>2. ASSUME NEW w \in Pass, Begin(w) \/ DatabaseAnswers(w) \/ Resume(w)
      PROVE  PassTypes'
  BY <1>2, BeginTypes, DatabaseAnswersTypes, ResumeTypes
<1>3. ASSUME NEW w \in Pass, PassRaises(w)
      PROVE  PassTypes'
  <2>1. /\ GoTo(w, 0) /\ 0 \in Nat
        /\ UNCHANGED <<who, watch, dbVars, overlap>>
    BY <1>3 DEF PassRaises
  <2>2. latch' \in {Unknown, TRUE, FALSE} /\ DOMAIN cache' \subseteq watch
    BY <1>3 DEF PassRaises, PassTypes, TypeOK
  <2>. QED  BY <2>1, <2>2, GoToTypes
<1>4. CASE ContentsChange
  <2>1. version' \in 0..MaxVersion
    BY <1>4 DEF ContentsChange, PassTypes, TypeOK
  <2>. QED  BY <1>4, <2>1 DEF ContentsChange, PassTypes, TypeOK, Prog, Answer
<1>5. CASE Outage
  <2>1. outages' \in 0..MaxOutage
    BY <1>5 DEF Outage, PassTypes, TypeOK
  <2>2. up' \in BOOLEAN
    BY <1>5, Zenon DEF Outage
  <2>. QED  BY <1>5, <2>1, <2>2 DEF Outage, PassTypes, TypeOK, Prog
<1>6. CASE OutageEnds
  BY <1>6 DEF OutageEnds, PassTypes, TypeOK, Prog
<1>. QED  BY <1>1, <1>2, <1>3, <1>4, <1>5, <1>6 DEF Next

\* Every variable has its type; a pass never goes beyond its program's end, and
\* holds answers of no query but those it has made.
THEOREM TypeCorrect == Spec => []TypeOK
<1>1. PassTypes => TypeOK
  BY DEF PassTypes
<1>. QED  BY <1>1, InitTypes, NextTypes, PTL DEF Spec

-----------------------------------------------------------------------------
(* What the programs have in common *)

\* A step computes its keys from queries that were made by then, without the
\* query that is left out once the kind of the database is known; and only the
\* last query is ever skipped.
Orderly(p) ==
  \A i \in DOMAIN p :
    /\ p[i].on = "branch" => i + 1 = Len(p)
    /\ \A s \in p[i].sets : \A q \in s[2] :
         /\ q \in 1..i
         /\ p[1].on = "detect" /\ i > 1 => q > 1

\* Its steps are numbered from 1 to its length.
Steps(p) == \A i \in 1..Len(p) : i \in DOMAIN p

LEMMA ProgramsAreOrderly == \A c \in Name : Orderly(Program[c])
<1>. USE DEF Program, Orderly, Rows, KeepRow, Step, Read
<1>1. Orderly(Program["Health"])
  BY DEF HealthCollector
<1>2. Orderly(Program["Waits"])
  BY DEF WaitsCollector
<1>3. Orderly(Program["Sessions"])
  BY DEF SessionsCollector
<1>4. Orderly(Program["SQL"])
  BY DEF SQLCollector
<1>5. Orderly(Program["RAC"])
  BY DEF RACCollector
<1>6. Orderly(Program["SQLMonitor"])
  BY DEF SQLMonitorCollector
<1>7. Orderly(Program["DataGuard"])
  BY DEF DataGuardCollector
<1>8. Orderly(Program["ASM"])
  BY DEF ASMCollector
<1>9. Orderly(Program["RMAN"])
  BY DEF RMANCollector
<1>10. Orderly(Program["IOActivity"])
  BY DEF IOActivityCollector
<1>11. Orderly(Program["PDB"])
  BY DEF PDBCollector
<1>12. Orderly(Program["Jobs"])
  BY DEF JobsCollector
<1>13. Orderly(Program["Exadata"])
  BY DEF ExadataCollector
<1>14. Orderly(Program["Advisor"])
  BY DEF AdvisorCollector
<1>15. Orderly(Program["MemoryAdvisor"])
  BY DEF MemoryAdvisorCollector
<1>16. Orderly(Program["AWR"])
  BY DEF AWRCollector
<1>17. Orderly(Program["Objects"])
  BY DEF ObjectsCollector
<1>18. Orderly(Program["AlertLog"])
  BY DEF AlertLogCollector
<1>19. Orderly(Program["PlanHist"])
  BY DEF PlanHistCollector
<1>. HIDE DEF Program, Orderly, Rows, KeepRow, Step, Read
<1>. QED
  BY <1>1, <1>2, <1>3, <1>4, <1>5, <1>6, <1>7, <1>8, <1>9, <1>10, <1>11,
     <1>12, <1>13, <1>14, <1>15, <1>16, <1>17, <1>18, <1>19, Names

LEMMA ProgramsHaveSteps == \A c \in Name : Steps(Program[c])
<1>. USE DEF Program, Steps, Rows, KeepRow, Step, Read
<1>1. Steps(Program["Health"])
  BY DEF HealthCollector
<1>2. Steps(Program["Waits"])
  BY DEF WaitsCollector
<1>3. Steps(Program["Sessions"])
  BY DEF SessionsCollector
<1>4. Steps(Program["SQL"])
  BY DEF SQLCollector
<1>5. Steps(Program["RAC"])
  BY DEF RACCollector
<1>6. Steps(Program["SQLMonitor"])
  BY DEF SQLMonitorCollector
<1>7. Steps(Program["DataGuard"])
  BY DEF DataGuardCollector
<1>8. Steps(Program["ASM"])
  BY DEF ASMCollector
<1>9. Steps(Program["RMAN"])
  BY DEF RMANCollector
<1>10. Steps(Program["IOActivity"])
  BY DEF IOActivityCollector
<1>11. Steps(Program["PDB"])
  BY DEF PDBCollector
<1>12. Steps(Program["Jobs"])
  BY DEF JobsCollector
<1>13. Steps(Program["Exadata"])
  BY DEF ExadataCollector
<1>14. Steps(Program["Advisor"])
  BY DEF AdvisorCollector
<1>15. Steps(Program["MemoryAdvisor"])
  BY DEF MemoryAdvisorCollector
<1>16. Steps(Program["AWR"])
  BY DEF AWRCollector
<1>17. Steps(Program["Objects"])
  BY DEF ObjectsCollector
<1>18. Steps(Program["AlertLog"])
  BY DEF AlertLogCollector
<1>19. Steps(Program["PlanHist"])
  BY DEF PlanHistCollector
<1>. HIDE DEF Program, Steps, Rows, KeepRow, Step, Read
<1>. QED
  BY <1>1, <1>2, <1>3, <1>4, <1>5, <1>6, <1>7, <1>8, <1>9, <1>10, <1>11,
     <1>12, <1>13, <1>14, <1>15, <1>16, <1>17, <1>18, <1>19, Names

\* A program may have no twins: each query's rows go into one key.
Lone(p) ==
  \A i, j \in DOMAIN p : \A a \in p[i].sets, b \in p[j].sets :
    a[2] \cap b[2] # {} => a[1] = b[1]

\* That is so when a step has one key, which comes from the step's query.
Plain(p) ==
  \A i \in DOMAIN p : \A a \in p[i].sets :
    a[2] = {i} /\ \A b \in p[i].sets : a[1] = b[1]

\* Or all its twins are T, which it sets in one step, of that step's query alone.
Together(p, T, n) ==
  /\ n \in DOMAIN p
  /\ \A k \in T : <<k, {n}>> \in p[n].sets
  /\ \A i \in DOMAIN p :
       /\ p[i].on # "branch"
       /\ \A a \in p[i].sets :
            /\ a[2] = {i}
            /\ i = n => a[1] \in T
            /\ i # n => a[1] \notin T /\ \A b \in p[i].sets : a[1] = b[1]

\* Or it sets each of its keys in every pass that gets so far, and once; and those
\* that are set at once in one step, of the same queries.
Steady(p) ==
  /\ \A i \in DOMAIN p : i \in Nat /\ i > 0 /\ p[i].on = "set"
  /\ \A i, j \in DOMAIN p : \A a \in p[i].sets, b \in p[j].sets :
       a[1] = b[1] \/ IsAtOnce(a[1], b[1]) => i = j /\ a[2] = b[2]

LEMMA PlainIsLone == \A p : Plain(p) => Lone(p)
  BY DEF Plain, Lone

LEMMA ProgramsWithoutTwins ==
  \A c \in Name \ {"Waits", "Jobs", "Health", "Sessions", "SQLMonitor", "DataGuard"} :
    Lone(Program[c])
<1>. USE DEF Program, Plain, Rows, KeepRow, Step, Read
<1>1. Plain(Program["SQL"])
  BY DEF SQLCollector
<1>2. Plain(Program["RAC"])
  BY DEF RACCollector
<1>3. Plain(Program["ASM"])
  BY DEF ASMCollector
<1>4. Plain(Program["IOActivity"])
  BY DEF IOActivityCollector
<1>5. Plain(Program["PDB"])
  BY DEF PDBCollector
<1>6. Plain(Program["Exadata"])
  BY DEF ExadataCollector
<1>7. Plain(Program["Advisor"])
  BY DEF AdvisorCollector
<1>8. Plain(Program["MemoryAdvisor"])
  BY DEF MemoryAdvisorCollector
<1>9. Plain(Program["AWR"])
  BY DEF AWRCollector
<1>10. Plain(Program["Objects"])
  BY DEF ObjectsCollector
<1>11. Plain(Program["AlertLog"])
  BY DEF AlertLogCollector
<1>12. Plain(Program["PlanHist"])
  BY DEF PlanHistCollector
<1>13. Lone(Program["RMAN"])
  BY DEF RMANCollector, Lone
<1>. HIDE DEF Program, Plain, Rows, KeepRow, Step, Read
<1>. QED
  BY <1>1, <1>2, <1>3, <1>4, <1>5, <1>6, <1>7,
     <1>8, <1>9, <1>10, <1>11, <1>12, <1>13, PlainIsLone, Names

LEMMA ProgramsWithTwins ==
  /\ Together(Program["Health"], {"health.total_sessions", "health.active_sessions"}, 2)
  /\ Together(Program["Sessions"],
       {"sessions.list", "sessions.active_count", "sessions.total_count"}, 1)
  /\ Together(Program["SQLMonitor"], {"sqlmon.active", "sqlmon.recent"}, 1)
  /\ Together(Program["DataGuard"], {"dg.role", "dg.protection_mode"}, 1)
  /\ Steady(Program["Waits"])
  /\ Steady(Program["Jobs"])
<1>. USE DEF Program, Together, Steady, Rows, KeepRow, Step, Read
<1>1. Together(Program["Health"], {"health.total_sessions", "health.active_sessions"}, 2)
  <2>. DEFINE T == {"health.total_sessions", "health.active_sessions"}
  <2>1. 2 \in DOMAIN Program["Health"]
    BY DEF HealthCollector
  <2>2. \A k \in T : <<k, {2}>> \in Program["Health"][2].sets
    BY DEF HealthCollector
  <2>3. \A i \in DOMAIN Program["Health"] : \A a \in Program["Health"][i].sets :
          /\ a[2] = {i}
          /\ i = 2 => a[1] \in T
          /\ i # 2 => a[1] \notin T
    BY DEF HealthCollector
  <2>4. \A i \in DOMAIN Program["Health"] :
          /\ Program["Health"][i].on # "branch"
          /\ i # 2 => \A a, b \in Program["Health"][i].sets : a[1] = b[1]
    BY DEF HealthCollector
  <2>. HIDE DEF Program
  <2>. QED  BY <2>1, <2>2, <2>3, <2>4
<1>2. Together(Program["Sessions"],
       {"sessions.list", "sessions.active_count", "sessions.total_count"}, 1)
  <2>. DEFINE T == {"sessions.list", "sessions.active_count", "sessions.total_count"}
  <2>1. 1 \in DOMAIN Program["Sessions"]
    BY DEF SessionsCollector
  <2>2. \A k \in T : <<k, {1}>> \in Program["Sessions"][1].sets
    BY DEF SessionsCollector
  <2>3. \A i \in DOMAIN Program["Sessions"] : \A a \in Program["Sessions"][i].sets :
          /\ a[2] = {i}
          /\ i = 1 => a[1] \in T
          /\ i # 1 => a[1] \notin T
    BY DEF SessionsCollector
  <2>4. \A i \in DOMAIN Program["Sessions"] :
          /\ Program["Sessions"][i].on # "branch"
          /\ i # 1 => \A a, b \in Program["Sessions"][i].sets : a[1] = b[1]
    BY DEF SessionsCollector
  <2>. HIDE DEF Program
  <2>. QED  BY <2>1, <2>2, <2>3, <2>4
<1>3. Together(Program["SQLMonitor"], {"sqlmon.active", "sqlmon.recent"}, 1)
  <2>. DEFINE T == {"sqlmon.active", "sqlmon.recent"}
  <2>1. 1 \in DOMAIN Program["SQLMonitor"]
    BY DEF SQLMonitorCollector
  <2>2. \A k \in T : <<k, {1}>> \in Program["SQLMonitor"][1].sets
    BY DEF SQLMonitorCollector
  <2>3. \A i \in DOMAIN Program["SQLMonitor"] : \A a \in Program["SQLMonitor"][i].sets :
          /\ a[2] = {i}
          /\ i = 1 => a[1] \in T
          /\ i # 1 => a[1] \notin T
    BY DEF SQLMonitorCollector
  <2>4. \A i \in DOMAIN Program["SQLMonitor"] :
          /\ Program["SQLMonitor"][i].on # "branch"
          /\ i # 1 => \A a, b \in Program["SQLMonitor"][i].sets : a[1] = b[1]
    BY DEF SQLMonitorCollector
  <2>. HIDE DEF Program
  <2>. QED  BY <2>1, <2>2, <2>3, <2>4
<1>4. Together(Program["DataGuard"], {"dg.role", "dg.protection_mode"}, 1)
  <2>. DEFINE T == {"dg.role", "dg.protection_mode"}
  <2>1. 1 \in DOMAIN Program["DataGuard"]
    BY DEF DataGuardCollector
  <2>2. \A k \in T : <<k, {1}>> \in Program["DataGuard"][1].sets
    BY DEF DataGuardCollector
  <2>3. \A i \in DOMAIN Program["DataGuard"] : \A a \in Program["DataGuard"][i].sets :
          /\ a[2] = {i}
          /\ i = 1 => a[1] \in T
          /\ i # 1 => a[1] \notin T
    BY DEF DataGuardCollector
  <2>4. \A i \in DOMAIN Program["DataGuard"] :
          /\ Program["DataGuard"][i].on # "branch"
          /\ i # 1 => \A a, b \in Program["DataGuard"][i].sets : a[1] = b[1]
    BY DEF DataGuardCollector
  <2>. HIDE DEF Program
  <2>. QED  BY <2>1, <2>2, <2>3, <2>4
<1>5. Steady(Program["Waits"])
  <2>. DEFINE SetIn(k) == IF k = "waits.system_top" THEN 1
                          ELSE IF k = "waits.active_sessions" THEN 2 ELSE 3
              From(k) == IF k = "waits.active_sessions" \/ k = "waits.active_count" THEN {2}
                         ELSE IF k = "waits.by_class" THEN {3} ELSE {1}
              Keys == {"waits.system_top", "waits.active_sessions", "waits.by_class",
                       "waits.active_count", "waits.top_wait_sec",
                       "waits.non_idle_total_sec"}
  <2>1. \A i \in DOMAIN Program["Waits"] :
          i \in Nat /\ i > 0 /\ Program["Waits"][i].on = "set"
    BY DEF WaitsCollector
  <2>2. \A i \in DOMAIN Program["Waits"] : \A a \in Program["Waits"][i].sets :
          \/ a = <<"waits.system_top", {1}>> /\ i = 1
          \/ a = <<"waits.active_sessions", {2}>> /\ i = 2
          \/ a = <<"waits.by_class", {3}>> /\ i = 3
          \/ a = <<"waits.top_wait_sec", {1}>> /\ i = 3
          \/ a = <<"waits.non_idle_total_sec", {1}>> /\ i = 3
          \/ a = <<"waits.active_count", {2}>> /\ i = 3
    BY DEF WaitsCollector
  <2>. HIDE DEF Program
  <2>4. ASSUME NEW i \in DOMAIN Program["Waits"], NEW a \in Program["Waits"][i].sets
        PROVE  a[1] \in Keys /\ i = SetIn(a[1]) /\ a[2] = From(a[1])
    <3>1. CASE a = <<"waits.system_top", {1}>> /\ i = 1
      BY <3>1
    <3>2. CASE a = <<"waits.active_sessions", {2}>> /\ i = 2
      BY <3>2
    <3>3. CASE a = <<"waits.by_class", {3}>> /\ i = 3
      BY <3>3
    <3>4. CASE a = <<"waits.top_wait_sec", {1}>> /\ i = 3
      BY <3>4
    <3>5. CASE a = <<"waits.non_idle_total_sec", {1}>> /\ i = 3
      BY <3>5
    <3>6. CASE a = <<"waits.active_count", {2}>> /\ i = 3
      BY <3>6
    <3>. QED  BY <2>2, <3>1, <3>2, <3>3, <3>4, <3>5, <3>6
  <2>3. \A k, l \in Keys : IsAtOnce(k, l) => SetIn(k) = SetIn(l) /\ From(k) = From(l)
    BY DEF IsAtOnce, AtOnce
  <2>. HIDE DEF SetIn, From, Keys
  <2>. QED  BY <2>1, <2>3, <2>4 DEF Steady
<1>6. Steady(Program["Jobs"])
  <2>. DEFINE SetIn(k) == IF k = "jobs.list" THEN 2 ELSE IF k = "jobs.running" THEN 3
                          ELSE IF k = "jobs.upcoming" THEN 4
                          ELSE IF k = "jobs.daily" THEN 5 ELSE 6
              From(k) == IF k = "jobs.list" THEN {1, 2} ELSE IF k = "jobs.running" THEN {3}
                         ELSE IF k = "jobs.upcoming" THEN {4}
                         ELSE IF k = "jobs.daily" THEN {5} ELSE {1, 2, 3, 6}
              Keys == {"jobs.list", "jobs.running", "jobs.upcoming", "jobs.daily",
                       "jobs.summary"}
  <2>1. \A i \in DOMAIN Program["Jobs"] :
          i \in Nat /\ i > 0 /\ Program["Jobs"][i].on = "set"
    BY DEF JobsCollector
  <2>2. \A i \in DOMAIN Program["Jobs"] : \A a \in Program["Jobs"][i].sets :
          \/ a = <<"jobs.list", {1, 2}>> /\ i = 2
          \/ a = <<"jobs.running", {3}>> /\ i = 3
          \/ a = <<"jobs.upcoming", {4}>> /\ i = 4
          \/ a = <<"jobs.daily", {5}>> /\ i = 5
          \/ a = <<"jobs.summary", {1, 2, 3, 6}>> /\ i = 6
    BY DEF JobsCollector
  <2>. HIDE DEF Program
  <2>4. ASSUME NEW i \in DOMAIN Program["Jobs"], NEW a \in Program["Jobs"][i].sets
        PROVE  a[1] \in Keys /\ i = SetIn(a[1]) /\ a[2] = From(a[1])
    <3>1. CASE a = <<"jobs.list", {1, 2}>> /\ i = 2
      BY <3>1
    <3>2. CASE a = <<"jobs.running", {3}>> /\ i = 3
      BY <3>2
    <3>3. CASE a = <<"jobs.upcoming", {4}>> /\ i = 4
      BY <3>3
    <3>4. CASE a = <<"jobs.daily", {5}>> /\ i = 5
      BY <3>4
    <3>5. CASE a = <<"jobs.summary", {1, 2, 3, 6}>> /\ i = 6
      BY <3>5
    <3>. QED  BY <2>2, <3>1, <3>2, <3>3, <3>4, <3>5
  <2>3. \A k, l \in Keys : ~IsAtOnce(k, l)
    BY DEF IsAtOnce, AtOnce
  <2>. HIDE DEF SetIn, From, Keys
  <2>. QED  BY <2>1, <2>3, <2>4 DEF Steady
<1>. HIDE DEF Program, Together, Steady
<1>. QED  BY <1>1, <1>2, <1>3, <1>4, <1>5, <1>6

-----------------------------------------------------------------------------
(* What a resuming pass does *)

\* The keys that a pass sets when it resumes with the answer of query i: those of
\* the step, and when no row sends it past the next query, what that would set.
SetsAt(i) ==
  {Prog[i].sets} \cup
  IF Prog[i].on = "branch"
    THEN {Prog[i].sets \cup {<<s[1], {i}>> : s \in Prog[i + 1].sets}}
    ELSE {}

\* What a pass that resumes does to the cache, and where it goes on.
LEMMA ResumeWrites ==
  ASSUME PassTypes, NEW w \in Pass, Resume(w)
  PROVE  /\ UNCHANGED <<who, watch, dbVars, overlap>>
         /\ Answered(w) /\ pc[w] \in DOMAIN Prog
         /\ \/ GoTo(w, 0) \/ GoTo(w, pc[w] + 1)
            \/ Prog[pc[w]].on = "branch" /\ GoTo(w, pc[w] + 2)
         /\ UNCHANGED cache \/ \E S \in SetsAt(pc[w]) : cache' = Write(S, got[w])
<1>1. Answered(w) => pc[w] \in DOMAIN Prog
  BY ProgramsHaveSteps, LenOfProg, PassAssumption
     DEF Answered, PassTypes, TypeOK, Prog, Steps
<1>2. CASE ResumeSet(w) \/ ResumeKeep(w) \/ ResumeGate(w)
  BY <1>1, <1>2 DEF ResumeSet, ResumeKeep, ResumeGate, SetsAt
<1>3. CASE ResumeDetect(w)
  <2>1. CASE latch'
    BY <1>1, <1>3, <2>1 DEF ResumeDetect, SetsAt
  <2>2. CASE ~latch'
    BY <1>1, <1>3, <2>2 DEF ResumeDetect, SetsAt
  <2>. QED  BY <2>1, <2>2
<1>4. CASE ResumeBranch(w)
  BY <1>1, <1>4 DEF ResumeBranch, SetsAt
<1>. QED  BY <1>2, <1>3, <1>4 DEF Resume

LEMMA OnlyResumeWrites ==
  ASSUME [Next]_vars, ~UNCHANGED cache
  PROVE  \E w \in Pass : Resume(w)
<1>1. ASSUME NEW w \in Pass, Begin(w) \/ DatabaseAnswers(w) \/ PassRaises(w)
      PROVE  UNCHANGED cache
  BY <1>1 DEF Begin, DatabaseAnswers, PassRaises
<1>2. CASE ContentsChange \/ Outage \/ OutageEnds \/ UNCHANGED vars
  BY <1>2 DEF vars, ContentsChange, Outage, OutageEnds
<1>. QED  BY <1>1, <1>2 DEF Next

LEMMA NextKeepsWatch ==
  ASSUME PassTypes, [Next]_vars
  PROVE  UNCHANGED <<who, watch>>
<1>1. ASSUME NEW w \in Pass, Begin(w) \/ DatabaseAnswers(w) \/ PassRaises(w)
      PROVE  UNCHANGED <<who, watch>>
  BY <1>1 DEF Begin, DatabaseAnswers, PassRaises
<1>2. CASE ContentsChange \/ Outage \/ OutageEnds \/ UNCHANGED vars
  BY <1>2 DEF vars, ContentsChange, Outage, OutageEnds
<1>. QED  BY <1>1, <1>2, ResumeWrites DEF Next

-----------------------------------------------------------------------------
(* AloneGoesForward *)

Past(a) == a = Err \/ a \in 0..version

\* No answer is newer than the database.
PastOnly ==
  /\ \A w \in Pass : \A i \in DOMAIN got[w] : Past(got[w][i])
  /\ \A k \in DOMAIN cache : \A q \in DOMAIN cache[k] : Past(cache[k][q])

Alone(w) == pc[w] # 0 /\ ~overlap[w]

\* A pass that is not marked is the only one under way.
Solitude == \A w \in Pass : Alone(w) => \A u \in Pass \ {w} : pc[u] = 0

\* What it has got is at least as new as what panels show.
NotOlder ==
  \A w \in Pass : Alone(w) =>
    \A k \in DOMAIN cache : \A q \in DOMAIN got[w] \cap DOMAIN cache[k] :
      got[w][q] # Err /\ cache[k][q] # Err => got[w][q] >= cache[k][q]

\* A pass has kept the answers that it has yet to use.
HoldsWhatItNeeds ==
  \A w \in Pass : pc[w] # 0 =>
    \A j \in NeededAfter(pc[w] - 1) : j < pc[w] => j \in DOMAIN got[w]

AloneInv == PassTypes /\ PastOnly /\ Solitude /\ NotOlder /\ HoldsWhatItNeeds

LEMMA InitAlone == Init => AloneInv
<1>. SUFFICES ASSUME Init
              PROVE  AloneInv
  OBVIOUS
<1>1. /\ \A w \in Pass : pc[w] = 0 /\ DOMAIN got[w] = {}
      /\ DOMAIN cache = {}
  BY DEF Init, Empty
<1>. QED
  BY <1>1, InitTypes DEF AloneInv, PastOnly, Solitude, NotOlder, HoldsWhatItNeeds, Alone

LEMMA Needed ==
  ASSUME NEW i \in Int, NEW q
  PROVE  q \in NeededAfter(i) <=>
           \E j \in (i + 1)..Len(Prog) : \E s \in Prog[j].sets : s[1] \in watch /\ q \in s[2]
  BY DEF NeededAfter

\* The answers that a resuming pass computes a key from are answers that it has.
LEMMA WritesWhatItHas ==
  ASSUME AloneInv, NEW w \in Pass, Answered(w), pc[w] \in DOMAIN Prog,
         NEW S \in SetsAt(pc[w]), NEW s \in S, s[1] \in watch, NEW q \in s[2]
  PROVE  q \in DOMAIN got[w]
<1>1. Orderly(Prog) /\ pc[w] \in 1..Len(Prog) /\ Len(Prog) \in Nat
  BY ProgramsAreOrderly, LenOfProg, PassAssumption
     DEF AloneInv, PassTypes, TypeOK, Prog, Answered
<1>2. CASE s \in Prog[pc[w]].sets
  <2>1. q \in 1..pc[w]
    BY <1>1, <1>2 DEF Orderly
  <2>2. q \in NeededAfter(pc[w] - 1)
    BY <1>1, <1>2, Needed
  <2>. QED  BY <1>1, <2>1, <2>2 DEF AloneInv, HoldsWhatItNeeds, Answered
<1>3. CASE s \notin Prog[pc[w]].sets
  <2>1. q = pc[w]
    BY <1>3 DEF SetsAt
  <2>. QED  BY <2>1 DEF Answered
<1>. QED  BY <1>2, <1>3

\* A resumed pass goes on with the next query, or is over.
LEMMA ResumeGoes ==
  ASSUME PassTypes, NEW w \in Pass, Resume(w)
  PROVE  /\ pc'[w] # pc[w]
         /\ \A u \in Pass \ {w} : pc'[u] = pc[u] /\ got'[u] = got[u]
         /\ \/ pc'[w] = 0 /\ got'[w] = Empty
            \/ /\ pc'[w] = pc[w] + 1
               /\ got'[w] = Restrict(got[w], DOMAIN got[w] \cap NeededAfter(pc[w]))
<1>1. /\ Orderly(Prog) /\ pc[w] \in 1..Len(Prog) /\ Len(Prog) \in Nat
      /\ pc[w] \in DOMAIN Prog
  <2>1. Answered(w) /\ pc[w] \in DOMAIN Prog
    BY ResumeWrites
  <2>. QED
    BY <2>1, ProgramsAreOrderly, LenOfProg, PassAssumption
       DEF PassTypes, TypeOK, Prog, Answered
<1>2. PICK i \in Int : /\ GoTo(w, i)
                       /\ i > Len(Prog) \/ i = 0 \/ i = pc[w] + 1
  <2>1. Prog[pc[w]].on = "branch" => pc[w] + 2 > Len(Prog)
    BY <1>1 DEF Orderly
  <2>. QED  BY <1>1, <2>1, ResumeWrites
<1>3. \A u \in Pass \ {w} : pc'[u] = pc[u] /\ got'[u] = got[u]
  BY <1>2 DEF GoTo, PassTypes
<1>4. /\ pc'[w] = IF i > Len(Prog) THEN 0 ELSE i
      /\ got'[w] = IF i > Len(Prog) \/ i = 0 THEN Empty
                   ELSE Restrict(got[w], DOMAIN got[w] \cap NeededAfter(i - 1))
  BY <1>2 DEF GoTo, PassTypes
<1>5. CASE i > Len(Prog) \/ i = 0
  BY <1>1, <1>3, <1>4, <1>5
<1>6. CASE i = pc[w] + 1 /\ i <= Len(Prog)
  <2>1. i - 1 = pc[w] /\ i # 0 /\ ~(i > Len(Prog)) /\ i # pc[w]
    BY <1>1, <1>6
  <2>2. got'[w] = Restrict(got[w], DOMAIN got[w] \cap NeededAfter(i - 1))
    BY <1>4, <2>1
  <2>3. got'[w] = Restrict(got[w], DOMAIN got[w] \cap NeededAfter(pc[w]))
    BY <2>1, <2>2, Zenon
  <2>. QED  BY <1>3, <1>4, <1>6, <2>1, <2>3
<1>. QED  BY <1>1, <1>2, <1>5, <1>6

\* What a resuming pass leaves behind.
LEMMA ResumeLeaves ==
  ASSUME AloneInv, NEW w \in Pass, Resume(w), NEW k \in DOMAIN cache'
  PROVE  \/ k \in DOMAIN cache /\ cache'[k] = cache[k]
         \/ \E Q \in SUBSET DOMAIN got[w] : cache'[k] = Restrict(got[w], Q)
<1>1. CASE UNCHANGED cache
  BY <1>1
<1>2. CASE ~UNCHANGED cache
  <2>1. PICK S \in SetsAt(pc[w]) : cache' = Write(S, got[w])
    BY <1>2, ResumeWrites DEF AloneInv
  <2>2. k \in watch
    BY <2>1, WriteKeepsWatch DEF AloneInv, PassTypes
  <2>3. CASE \E s \in S : s[1] = k
    <3>1. PICK s \in S : s[1] = k /\ cache'[k] = Restrict(got[w], s[2])
      BY <2>1, <2>3 DEF Write
    <3>2. s[2] \subseteq DOMAIN got[w]
      BY <2>2, <3>1, ResumeWrites, WritesWhatItHas DEF AloneInv
    <3>. QED  BY <3>1, <3>2
  <2>4. CASE ~\E s \in S : s[1] = k
    BY <2>1, <2>4 DEF Write
  <2>. QED  BY <2>3, <2>4
<1>. QED  BY <1>1, <1>2

\* A pass that nobody disturbed writes nothing older than what is shown.
LEMMA ResumeForward ==
  ASSUME AloneInv, NEW w \in Pass, Resume(w), NEW k \in DOMAIN cache,
         Older(cache'[k], cache[k])
  PROVE  pc'[w] # pc[w] /\ overlap[w]
<1>1. PICK q \in DOMAIN cache'[k] \cap DOMAIN cache[k] :
        cache'[k][q] # Err /\ cache[k][q] # Err /\ cache'[k][q] < cache[k][q]
  BY DEF Older
<1>2. k \in DOMAIN cache'
  <2>1. CASE UNCHANGED cache
    BY <2>1
  <2>2. CASE ~UNCHANGED cache
    BY <2>2, ResumeWrites DEF AloneInv, Write
  <2>. QED  BY <2>1, <2>2
<1>3. cache[k][q] \in Int /\ version \in Nat
  BY <1>1 DEF AloneInv, PastOnly, Past, PassTypes, TypeOK
<1>4. cache'[k] # cache[k]
  BY <1>1, <1>3
<1>5. PICK Q \in SUBSET DOMAIN got[w] : cache'[k] = Restrict(got[w], Q)
  BY <1>2, <1>4, ResumeLeaves
<1>6. q \in DOMAIN got[w] /\ cache'[k][q] = got[w][q]
  BY <1>1, <1>5 DEF Restrict
<1>7. got[w][q] \in Int
  BY <1>1, <1>3, <1>6 DEF AloneInv, PastOnly, Past
<1>8. ~Alone(w)
  BY <1>1, <1>3, <1>6, <1>7 DEF AloneInv, NotOlder
<1>9. pc[w] # 0 /\ pc'[w] # pc[w]
  BY ResumeWrites, ResumeGoes DEF AloneInv, Answered
<1>. QED  BY <1>8, <1>9 DEF Alone

LEMMA ResumeAlone ==
  ASSUME AloneInv, NEW w \in Pass, Resume(w)
  PROVE  AloneInv'
<1>1. PassTypes'
  BY ResumeTypes DEF AloneInv
<1>2. /\ UNCHANGED <<who, watch, version, overlap>>
      /\ Answered(w) /\ pc[w] \in DOMAIN Prog
  BY ResumeWrites DEF AloneInv, dbVars
<1>3. /\ \A u \in Pass \ {w} : pc'[u] = pc[u] /\ got'[u] = got[u]
      /\ \/ pc'[w] = 0 /\ got'[w] = Empty
         \/ /\ pc'[w] = pc[w] + 1
            /\ got'[w] = Restrict(got[w], DOMAIN got[w] \cap NeededAfter(pc[w]))
  BY ResumeGoes DEF AloneInv
<1>4. \A u \in Pass : \A i \in DOMAIN got'[u] :
        i \in DOMAIN got[u] /\ got'[u][i] = got[u][i]
  BY <1>3 DEF Restrict, Empty
<1>5. PastOnly'
  <2>1. ASSUME NEW k \in DOMAIN cache', NEW q \in DOMAIN cache'[k]
        PROVE  cache'[k][q] = Err \/ cache'[k][q] \in 0..version
    <3>1. CASE k \in DOMAIN cache /\ cache'[k] = cache[k]
      BY <2>1, <3>1 DEF AloneInv, PastOnly, Past
    <3>2. ASSUME NEW Q \in SUBSET DOMAIN got[w], cache'[k] = Restrict(got[w], Q)
          PROVE  cache'[k][q] = Err \/ cache'[k][q] \in 0..version
      BY <2>1, <3>2 DEF AloneInv, PastOnly, Past, Restrict
    <3>. QED  BY <2>1, <3>1, <3>2, ResumeLeaves
  <2>. QED  BY <1>2, <1>4, <2>1 DEF AloneInv, PastOnly, Past
<1>6. Solitude'
  BY <1>2, <1>3 DEF AloneInv, Solitude, Alone, Answered
<1>7. NotOlder'
  <2>. SUFFICES ASSUME NEW u \in Pass, Alone(u)', NEW k \in DOMAIN cache',
                       NEW q \in DOMAIN got'[u] \cap DOMAIN cache'[k],
                       got'[u][q] # Err, cache'[k][q] # Err
                PROVE  got'[u][q] >= cache'[k][q]
    BY DEF NotOlder
  <2>1. u = w
    BY <1>2, <1>3 DEF Alone, Answered, AloneInv, Solitude
  <2>2. Alone(w) /\ got'[w][q] = got[w][q] /\ q \in DOMAIN got[w]
    BY <1>2, <1>4, <2>1 DEF Alone, Answered
  <2>3. CASE k \in DOMAIN cache /\ cache'[k] = cache[k]
    BY <2>1, <2>2, <2>3 DEF AloneInv, NotOlder
  <2>4. ASSUME NEW Q \in SUBSET DOMAIN got[w], cache'[k] = Restrict(got[w], Q)
        PROVE  got'[u][q] >= cache'[k][q]
    <3>1. cache'[k][q] = got[w][q]
      BY <2>4 DEF Restrict
    <3>2. got[w][q] \in 0..version /\ version \in Nat
      BY <2>1, <2>2 DEF AloneInv, PastOnly, Past, PassTypes, TypeOK
    <3>. QED  BY <2>1, <2>2, <3>1, <3>2
  <2>. QED  BY <2>3, <2>4, ResumeLeaves
<1>8. HoldsWhatItNeeds'
  <2>1. /\ NeededAfter(pc[w])' = NeededAfter(pc'[w])
        /\ \A i : NeededAfter(i)' = NeededAfter(i)
    BY <1>2 DEF NeededAfter, Prog
  <2>2. pc[w] \in Int /\ Len(Prog) \in Nat
    BY LenOfProg DEF AloneInv, PassTypes, TypeOK
  <2>3. ASSUME NEW u \in Pass, pc'[u] # 0, NEW j \in NeededAfter(pc'[u] - 1), j < pc'[u]
        PROVE  j \in DOMAIN got'[u]
    <3>1. CASE u # w
      BY <1>3, <2>3, <3>1 DEF AloneInv, HoldsWhatItNeeds
    <3>2. CASE u = w
      <4>1. pc'[w] = pc[w] + 1 /\ pc'[w] - 1 = pc[w]
        BY <1>3, <2>2, <2>3, <3>2
      <4>2. j \in NeededAfter(pc[w])
        BY <2>3, <3>2, <4>1
      <4>3. j \in NeededAfter(pc[w] - 1)
        BY <2>2, <4>2, Needed
      <4>4. j \in Int
        <5>1. PICK i \in (pc[w] + 1)..Len(Prog) : \E s \in Prog[i].sets : j \in s[2]
          BY <2>2, <4>2, Needed
        <5>2. Orderly(Prog) /\ i \in DOMAIN Prog
          BY <2>2, <5>1, <1>2, ProgramsAreOrderly, ProgramsHaveSteps, PassAssumption
             DEF AloneInv, PassTypes, TypeOK, Prog, Steps, Answered
        <5>. QED  BY <5>1, <5>2 DEF Orderly
      <4>5. j \in DOMAIN got[w]
        <5>1. CASE j < pc[w]
          BY <1>2, <4>3, <5>1 DEF AloneInv, HoldsWhatItNeeds, Answered
        <5>2. CASE j = pc[w]
          BY <1>2, <5>2 DEF Answered
        <5>. QED  BY <2>2, <2>3, <3>2, <4>1, <4>4, <5>1, <5>2
      <4>. QED  BY <1>3, <2>3, <3>2, <4>2, <4>5 DEF Restrict
    <3>. QED  BY <3>1, <3>2
  <2>. QED  BY <2>1, <2>3 DEF HoldsWhatItNeeds
<1>. QED  BY <1>1, <1>5, <1>6, <1>7, <1>8 DEF AloneInv

LEMMA BeginAlone ==
  ASSUME AloneInv, NEW w \in Pass, Begin(w)
  PROVE  AloneInv'
<1>1. PassTypes'
  BY BeginTypes DEF AloneInv
<1>2. /\ UNCHANGED <<who, watch, version, got, cache>>
      /\ pc[w] = 0 /\ pc'[w] = FirstStep
      /\ \A u \in Pass \ {w} : pc'[u] = pc[u]
      /\ overlap' = [v \in Pass |->
                       IF v = w THEN \E u \in Pass : pc[u] # 0
                       ELSE overlap[v] \/ pc[v] # 0]
  BY DEF Begin, dbVars, AloneInv, PassTypes
<1>3. DOMAIN got[w] = {}
  BY <1>2 DEF AloneInv, PassTypes, TypeOK
<1>4. PastOnly'
  BY <1>2 DEF AloneInv, PastOnly, Past
<1>5. \A u \in Pass \ {w} : ~Alone(u)'
  BY <1>2 DEF Alone
<1>6. Solitude'
  <2>1. ASSUME Alone(w)' PROVE \A u \in Pass \ {w} : pc'[u] = 0
    BY <1>2, <2>1 DEF Alone
  <2>. QED  BY <1>5, <2>1 DEF Solitude
<1>7. NotOlder'
  BY <1>2, <1>3, <1>5 DEF NotOlder
<1>8. HoldsWhatItNeeds'
  <2>1. \A i : NeededAfter(i)' = NeededAfter(i)
    BY <1>2 DEF NeededAfter, Prog
  <2>2. \A j \in NeededAfter(FirstStep - 1) : FirstStep # 0 => ~(j < FirstStep)
    <3>1. /\ Orderly(Prog) /\ Steps(Prog) /\ Len(Prog) \in Nat
          /\ FirstStep \in {0, 1, 2}
          /\ FirstStep = 2 => Prog[1].on = "detect"
      BY ProgramsAreOrderly, ProgramsHaveSteps, LenOfProg, PassAssumption
         DEF AloneInv, PassTypes, TypeOK, Prog, FirstStep
    <3>2. ASSUME NEW j \in NeededAfter(FirstStep - 1), FirstStep # 0
          PROVE  ~(j < FirstStep)
      <4>1. PICK i \in FirstStep..Len(Prog) : \E s \in Prog[i].sets : j \in s[2]
        <5>1. FirstStep - 1 \in Int /\ FirstStep - 1 + 1 = FirstStep
          BY <3>1
        <5>. QED  BY <3>2, <5>1, Needed
      <4>2. i \in DOMAIN Prog /\ j \in 1..i /\ (Prog[1].on = "detect" /\ i > 1 => j > 1)
        BY <3>1, <3>2, <4>1 DEF Orderly, Steps
      <4>. QED  BY <3>1, <3>2, <4>1, <4>2
    <3>. QED  BY <3>2
  <2>. QED  BY <1>2, <2>1, <2>2 DEF AloneInv, HoldsWhatItNeeds
<1>. QED  BY <1>1, <1>4, <1>6, <1>7, <1>8 DEF AloneInv

LEMMA DatabaseAnswersAlone ==
  ASSUME AloneInv, NEW w \in Pass, DatabaseAnswers(w)
  PROVE  AloneInv'
<1>1. PassTypes'
  BY DatabaseAnswersTypes DEF AloneInv
<1>2. /\ UNCHANGED <<who, watch, version, pc, overlap, cache>>
      /\ \A u \in Pass \ {w} : got'[u] = got[u]
      /\ got'[w] = [i \in DOMAIN got[w] \cup {pc[w]} |->
                      IF i # pc[w] THEN got[w][i] ELSE IF up THEN version ELSE Err]
      /\ pc[w] \notin DOMAIN got[w]
      /\ version \in Nat
  BY DEF DatabaseAnswers, Awaits, dbVars, AloneInv, PassTypes, TypeOK
<1>3. \A u \in Pass : \A i \in DOMAIN got'[u] :
        \/ i \in DOMAIN got[u] /\ got'[u][i] = got[u][i]
        \/ got'[u][i] = version
        \/ got'[u][i] = Err
  BY <1>2
<1>4. PastOnly'
  BY <1>2, <1>3 DEF AloneInv, PastOnly, Past
<1>5. Solitude'
  BY <1>2 DEF AloneInv, Solitude, Alone
<1>6. NotOlder'
  BY <1>2, <1>3 DEF AloneInv, NotOlder, Alone, PastOnly, Past
<1>7. HoldsWhatItNeeds'
  <2>1. \A i : NeededAfter(i)' = NeededAfter(i)
    BY <1>2 DEF NeededAfter, Prog
  <2>2. \A u \in Pass : DOMAIN got[u] \subseteq DOMAIN got'[u]
    BY <1>2
  <2>. QED  BY <1>2, <2>1, <2>2 DEF AloneInv, HoldsWhatItNeeds
<1>. QED  BY <1>1, <1>4, <1>5, <1>6, <1>7 DEF AloneInv

LEMMA PassRaisesAlone ==
  ASSUME AloneInv, NEW w \in Pass, PassRaises(w), PassTypes'
  PROVE  AloneInv'
<1>1. /\ UNCHANGED <<who, watch, version, overlap, cache>>
      /\ \A u \in Pass \ {w} : pc'[u] = pc[u] /\ got'[u] = got[u]
      /\ pc'[w] = 0 /\ got'[w] = Empty
  BY LenOfProg DEF PassRaises, GoTo, dbVars, AloneInv, PassTypes
<1>2. PastOnly'
  BY <1>1 DEF AloneInv, PastOnly, Past, Empty
<1>3. Solitude'
  BY <1>1 DEF AloneInv, Solitude, Alone
<1>4. NotOlder'
  BY <1>1 DEF AloneInv, NotOlder, Alone
<1>5. HoldsWhatItNeeds'
  <2>1. \A i : NeededAfter(i)' = NeededAfter(i)
    BY <1>1 DEF NeededAfter, Prog
  <2>. QED  BY <1>1, <2>1 DEF AloneInv, HoldsWhatItNeeds
<1>. QED  BY <1>2, <1>3, <1>4, <1>5 DEF AloneInv

LEMMA NextAlone == AloneInv /\ [Next]_vars => AloneInv'
<1>. SUFFICES ASSUME AloneInv, [Next]_vars
              PROVE  AloneInv'
  OBVIOUS
<1>1. PassTypes'
  BY NextTypes DEF AloneInv
<1>2. ASSUME UNCHANGED <<who, watch, pc, got, overlap, cache>>,
             version' \in Nat, version' >= version
      PROVE  AloneInv'
  <2>1. PastOnly'
    BY <1>2 DEF AloneInv, PastOnly, Past, PassTypes, TypeOK
  <2>2. \A i : NeededAfter(i)' = NeededAfter(i)
    BY <1>2 DEF NeededAfter, Prog
  <2>3. Solitude' /\ NotOlder' /\ HoldsWhatItNeeds'
    BY <1>2, <2>2 DEF AloneInv, Solitude, NotOlder, Alone, HoldsWhatItNeeds
  <2>. QED  BY <1>1, <2>1, <2>3 DEF AloneInv
<1>3. version \in Nat
  BY DEF AloneInv, PassTypes, TypeOK
<1>4. CASE ContentsChange \/ Outage \/ OutageEnds \/ UNCHANGED vars
  BY <1>2, <1>3, <1>4 DEF ContentsChange, Outage, OutageEnds, vars, dbVars
<1>. QED
  BY <1>1, <1>4, BeginAlone, DatabaseAnswersAlone, ResumeAlone, PassRaisesAlone DEF Next

\* A panel goes back in time only by a pass that overlapped another one: a pass
\* that is alone has read nothing older than what panels show: AloneGoesForward.
THEOREM AlonePassesGoForward == Spec => AloneGoesForward
<1>1. ASSUME AloneInv, [Next]_vars
      PROVE  [ \A k \in DOMAIN cache :
                 Older(cache'[k], cache[k])
                   => \E w \in Pass : pc'[w] # pc[w] /\ overlap[w] ]_vars
  <2>1. CASE UNCHANGED cache
    <3>1. \A k \in DOMAIN cache : ~Older(cache[k], cache[k])
      <4>1. \A k \in DOMAIN cache : \A q \in DOMAIN cache[k] :
              cache[k][q] # Err => ~(cache[k][q] < cache[k][q])
        BY <1>1 DEF AloneInv, PastOnly, Past, PassTypes, TypeOK
      <4>. QED  BY <4>1 DEF Older
    <3>. QED  BY <2>1, <3>1
  <2>2. CASE ~UNCHANGED cache
    <3>1. PICK w \in Pass : Resume(w)
      BY <1>1, <2>2, OnlyResumeWrites
    <3>. QED  BY <1>1, <3>1, ResumeForward
  <2>. QED  BY <2>1, <2>2
<1>. QED  BY <1>1, InitAlone, NextAlone, PTL DEF Spec, AloneGoesForward

-----------------------------------------------------------------------------
(* TwinsAgree *)

\* The keys that are followed are set in step n, from the queries Q alone.
Watched(n, Q) ==
  /\ n \in DOMAIN Prog
  /\ \A k \in watch : \E s \in Prog[n].sets : s[1] = k
  /\ \A i \in DOMAIN Prog :
       /\ Prog[i].on # "branch"
       /\ \A s \in Prog[i].sets : s[1] \in watch => i = n /\ s[2] = Q

\* One key, or some that are set in one step, are never apart.
Apart == ~(\E k : watch = {k}) /\ ~(\E n, Q : Watched(n, Q))

LEMMA WhatIsApart ==
  ASSUME TypeOK, Apart
  PROVE  /\ Steady(Prog)
         /\ \A k, l \in watch : k # l => ~IsAtOnce(k, l)
         /\ \A k \in watch : \E i \in DOMAIN Prog : \E s \in Prog[i].sets : s[1] = k
<1>1. who \in Name /\ watch \in Siblings(who)
  BY PassAssumption DEF TypeOK, WatchSets
<1>2. PICK i \in DOMAIN Prog, j \in DOMAIN Prog :
        \E a \in Prog[i].sets, b \in Prog[j].sets :
          watch = {a[1], b[1]} /\ a[2] \cap b[2] # {}
  BY <1>1 DEF Siblings, SetsOf, Prog
<1>3. PICK a \in Prog[i].sets, b \in Prog[j].sets :
        watch = {a[1], b[1]} /\ a[2] \cap b[2] # {}
  BY <1>2
<1>4. a[1] # b[1]
  BY <1>3 DEF Apart
<1>5. ~Lone(Prog)
  BY <1>3, <1>4 DEF Lone
<1>6. ASSUME NEW T, NEW n, Together(Prog, T, n)
      PROVE  FALSE
  <2>1. i = j /\ a[2] = {i}
    BY <1>3, <1>6 DEF Together
  <2>2. i = n
    BY <1>4, <1>6, <2>1 DEF Together
  <2>3. watch \subseteq T
    BY <1>3, <1>6, <2>1, <2>2 DEF Together
  <2>4. \A k \in watch : \E s \in Prog[n].sets : s[1] = k
    BY <1>3, <2>1, <2>2
  <2>5. Watched(n, {n})
    BY <1>6, <2>3, <2>4 DEF Together, Watched
  <2>. QED  BY <2>5 DEF Apart
<1>7. Steady(Prog)
  BY <1>1, <1>5, <1>6, ProgramsWithoutTwins, ProgramsWithTwins, Zenon DEF Prog
<1>8. ~(i = j /\ a[2] = b[2])
  <2>1. ASSUME i = j, a[2] = b[2]
        PROVE  Watched(i, a[2])
    <3>1. \A k \in watch : \E s \in Prog[i].sets : s[1] = k
      BY <1>3, <2>1
    <3>2. \A m \in DOMAIN Prog :
            /\ Prog[m].on # "branch"
            /\ \A s \in Prog[m].sets : s[1] \in watch => m = i /\ s[2] = a[2]
      BY <1>3, <1>7, <2>1 DEF Steady
    <3>. QED  BY <3>1, <3>2 DEF Watched
  <2>. QED  BY <2>1 DEF Apart
<1>9. ~IsAtOnce(a[1], b[1]) /\ ~IsAtOnce(b[1], a[1])
  BY <1>7, <1>8 DEF Steady
<1>. QED  BY <1>3, <1>7, <1>9

\* The keys that are followed, all of them, hold the same or nothing.
SameRows ==
  \A k, l \in watch : /\ k \in DOMAIN cache <=> l \in DOMAIN cache
                      /\ k \in DOMAIN cache => cache[k] = cache[l]

\* The key of a is set, from no other queries than a's, and holds what w has got.
HoldsIts(w, a) ==
  /\ a[1] \in DOMAIN cache
  /\ DOMAIN cache[a[1]] \subseteq a[2]
  /\ \A q \in DOMAIN cache[a[1]] \cap DOMAIN got[w] : cache[a[1]][q] = got[w][q]

\* What the pass of w has set up to step n agrees, with what it has got, too.
SetUpTo(w, n) ==
  \A i \in DOMAIN Prog : i <= n =>
    \A a \in Prog[i].sets : a[1] \in watch =>
      /\ HoldsIts(w, a)
      /\ \A j \in DOMAIN Prog : j <= n => \A b \in Prog[j].sets :
           b[1] \in watch => Agree(a[1], b[1])

\* A pass that is alone leaves behind what it has got.
LeavesInAgreement == \A w \in Pass : Alone(w) => SetUpTo(w, pc[w] - 1)

TwinsInv ==
  /\ AloneInv
  /\ ~Apart => SameRows
  /\ Apart => LeavesInAgreement

LEMMA InitTwins == Init => TwinsInv
<1>. SUFFICES ASSUME Init
              PROVE  TwinsInv
  OBVIOUS
<1>1. AloneInv
  BY InitAlone
<1>2. SameRows
  BY DEF Init, Empty, SameRows
<1>3. LeavesInAgreement
  BY DEF Init, LeavesInAgreement, Alone
<1>. QED  BY <1>1, <1>2, <1>3 DEF TwinsInv

\* Keys that are set in one step, of the same queries, are written together.
LEMMA WriteKeepsSameRows ==
  ASSUME TypeOK, SameRows, NEW n, NEW Q, Watched(n, Q), NEW i \in DOMAIN Prog,
         NEW g, cache' = Write(Prog[i].sets, g), UNCHANGED watch
  PROVE  SameRows'
<1>. DEFINE sets == Prog[i].sets
<1>1. DOMAIN cache \subseteq watch
  BY DEF TypeOK
<1>2. CASE i = n
  <2>1. \A k \in watch : \E s \in sets : s[1] = k
    BY <1>2 DEF Watched
  <2>2. DOMAIN cache' = watch
    BY <1>1, <2>1 DEF Write
  <2>3. \A k \in watch : (CHOOSE s \in sets : s[1] = k)[2] = Q
    BY <2>1 DEF Watched
  <2>4. \A k \in watch : cache'[k] = Restrict(g, Q)
    BY <1>1, <2>1, <2>3 DEF Write
  <2>. QED  BY <2>2, <2>4 DEF SameRows
<1>3. CASE i # n
  <2>1. \A k \in watch : ~\E s \in sets : s[1] = k
    BY <1>3 DEF Watched
  <2>2. watch \cap {s[1] : s \in sets} = {}
    BY <2>1
  <2>3. DOMAIN cache' = DOMAIN cache /\ \A k \in DOMAIN cache : cache'[k] = cache[k]
    BY <1>1, <2>1, <2>2 DEF Write
  <2>. QED  BY <2>3 DEF SameRows
<1>. QED  BY <1>2, <1>3

LEMMA NextKeepsSameRows ==
  ASSUME PassTypes, ~Apart, SameRows, [Next]_vars
  PROVE  SameRows'
<1>1. UNCHANGED <<who, watch>>
  BY NextKeepsWatch
<1>2. CASE \E k : watch = {k}
  BY <1>1, <1>2 DEF SameRows
<1>3. CASE \E n, Q : Watched(n, Q)
  <2>1. PICK n, Q : Watched(n, Q)
    BY <1>3
  <2>2. CASE UNCHANGED cache
    BY <1>1, <2>2 DEF SameRows
  <2>3. CASE ~UNCHANGED cache
    <3>1. PICK w \in Pass : /\ pc[w] \in DOMAIN Prog
                            /\ cache' = Write(Prog[pc[w]].sets, got[w])
      BY <2>1, <2>3, OnlyResumeWrites, ResumeWrites DEF Watched, SetsAt
    <3>. QED  BY <1>1, <2>1, <3>1, WriteKeepsSameRows DEF PassTypes
  <2>. QED  BY <2>2, <2>3
<1>. QED  BY <1>2, <1>3 DEF Apart

\* A steady step sets its keys from answers that the pass has, and no other key.
LEMMA SteadyStepSets ==
  ASSUME AloneInv, Steady(Prog), NEW w \in Pass, Resume(w), NEW n, n = pc[w]
  PROVE  /\ n \in DOMAIN Prog
         /\ \A a \in Prog[n].sets : a[1] \in watch =>
              /\ a[1] \in DOMAIN cache' /\ cache'[a[1]] = Restrict(got[w], a[2])
              /\ a[2] \subseteq DOMAIN got[w]
         /\ \A k \in DOMAIN cache : (\A a \in Prog[n].sets : a[1] # k) =>
              k \in DOMAIN cache' /\ cache'[k] = cache[k]
<1>1. n \in DOMAIN Prog /\ Answered(w)
  BY ResumeWrites DEF AloneInv
<1>2. cache' = Write(Prog[n].sets, got[w])
  BY <1>1 DEF Steady, Resume, ResumeSet, ResumeKeep, ResumeGate, ResumeDetect, ResumeBranch
<1>3. ASSUME NEW a \in Prog[n].sets, a[1] \in watch
      PROVE  /\ a[1] \in DOMAIN cache' /\ cache'[a[1]] = Restrict(got[w], a[2])
             /\ a[2] \subseteq DOMAIN got[w]
  <2>1. \A b \in Prog[n].sets : b[1] = a[1] => b[2] = a[2]
    BY <1>1 DEF Steady
  <2>2. (CHOOSE s \in Prog[n].sets : s[1] = a[1])[2] = a[2]
    BY <2>1
  <2>3. a[1] \in DOMAIN cache' /\ cache'[a[1]] = Restrict(got[w], a[2])
    BY <1>2, <1>3, <2>2 DEF Write
  <2>4. Prog[n].sets \in SetsAt(pc[w])
    BY DEF SetsAt
  <2>5. a[2] \subseteq DOMAIN got[w]
    BY <1>1, <1>3, <2>4, WritesWhatItHas
  <2>. QED  BY <2>3, <2>5
<1>4. \A k \in DOMAIN cache : (\A a \in Prog[n].sets : a[1] # k) =>
              k \in DOMAIN cache' /\ cache'[k] = cache[k]
  BY <1>2 DEF Write
<1>. QED  BY <1>1, <1>3, <1>4

\* A pass that is alone leaves what it sets in agreement with what it has set.
LEMMA ResumeAgrees ==
  ASSUME AloneInv, Steady(Prog), NEW w \in Pass, Resume(w), NEW n, n = pc[w],
         SetUpTo(w, n - 1)
  PROVE  SetUpTo(w, n)'
<1>1. /\ UNCHANGED <<who, watch>> /\ Prog' = Prog
      /\ n \in DOMAIN Prog /\ n \in Int
      /\ \A i \in DOMAIN Prog : i \in Int
  BY ResumeWrites DEF AloneInv, Prog, Steady
<1>2. \A q \in DOMAIN got'[w] : q \in DOMAIN got[w] /\ got'[w][q] = got[w][q]
  BY ResumeGoes DEF AloneInv, Restrict, Empty
<1>3. ASSUME NEW i \in DOMAIN Prog, i <= n, NEW a \in Prog[i].sets, a[1] \in watch
      PROVE  /\ a[1] \in DOMAIN cache'
             /\ DOMAIN cache'[a[1]] \subseteq a[2]
             /\ \A q \in DOMAIN cache'[a[1]] \cap DOMAIN got[w] :
                  cache'[a[1]][q] = got[w][q]
             /\ i = n => DOMAIN cache'[a[1]] \subseteq DOMAIN got[w]
             /\ i # n => cache'[a[1]] = cache[a[1]] /\ a[1] \in DOMAIN cache
  <2>1. CASE i = n
    <3>1. /\ a[1] \in DOMAIN cache' /\ cache'[a[1]] = Restrict(got[w], a[2])
          /\ a[2] \subseteq DOMAIN got[w]
      BY <1>3, <2>1, SteadyStepSets
    <3>. QED  BY <2>1, <3>1 DEF Restrict
  <2>2. CASE i # n
    <3>1. i <= n - 1
      BY <1>1, <1>3, <2>2
    <3>2. HoldsIts(w, a)
      BY <1>3, <3>1 DEF SetUpTo
    <3>3. \A b \in Prog[n].sets : b[1] # a[1]
      BY <1>1, <2>2 DEF Steady
    <3>4. a[1] \in DOMAIN cache' /\ cache'[a[1]] = cache[a[1]]
      BY <3>2, <3>3, SteadyStepSets DEF HoldsIts
    <3>. QED  BY <2>2, <3>2, <3>4 DEF HoldsIts
  <2>. QED  BY <2>1, <2>2
<1>4. ASSUME NEW i \in DOMAIN Prog, i <= n, NEW a \in Prog[i].sets, a[1] \in watch,
             NEW j \in DOMAIN Prog, j <= n, NEW b \in Prog[j].sets, b[1] \in watch
      PROVE  Agree(a[1], b[1])'
  <2>1. a[1] \in DOMAIN cache' /\ b[1] \in DOMAIN cache'
    BY <1>3, <1>4
  <2>2. ASSUME NEW q \in DOMAIN cache'[a[1]] \cap DOMAIN cache'[b[1]]
        PROVE  cache'[a[1]][q] = cache'[b[1]][q]
    <3>1. CASE i = n \/ j = n
      <4>1. q \in DOMAIN got[w]
        BY <1>3, <1>4, <2>2, <3>1
      <4>2. cache'[a[1]][q] = got[w][q]
        BY <1>3, <1>4, <2>2, <4>1
      <4>3. cache'[b[1]][q] = got[w][q]
        BY <1>3, <1>4, <2>2, <4>1
      <4>. QED  BY <4>2, <4>3
    <3>2. CASE i # n /\ j # n
      <4>1. i <= n - 1 /\ j <= n - 1
        BY <1>1, <1>4, <3>2
      <4>2. Agree(a[1], b[1])
        BY <1>4, <4>1 DEF SetUpTo
      <4>3. cache'[a[1]] = cache[a[1]] /\ a[1] \in DOMAIN cache
        BY <1>3, <1>4, <3>2
      <4>4. cache'[b[1]] = cache[b[1]]
        BY <1>3, <1>4, <3>2
      <4>. QED  BY <2>2, <4>2, <4>3, <4>4 DEF Agree
    <3>. QED  BY <3>1, <3>2
  <2>. QED  BY <2>1, <2>2 DEF Agree
<1>5. ASSUME NEW i \in DOMAIN Prog, i <= n, NEW a \in Prog[i].sets, a[1] \in watch
      PROVE  HoldsIts(w, a)'
  BY <1>2, <1>3, <1>5 DEF HoldsIts
<1>. QED  BY <1>1, <1>4, <1>5 DEF SetUpTo

\* Where the two keys are set apart, and a step leaves the cache alone, a pass
\* that is alone has at most the answer of a query that nothing was set from yet.
LEMMA AnswerAgrees ==
  ASSUME AloneInv, Steady(Prog), NEW w \in Pass, DatabaseAnswers(w), NEW n,
         n = pc[w], SetUpTo(w, n - 1)
  PROVE  SetUpTo(w, n - 1)'
<1>1. /\ UNCHANGED <<who, watch, cache>> /\ Prog' = Prog
      /\ n \in Int
      /\ \A i \in DOMAIN Prog : i \in Int
  BY LenOfProg DEF DatabaseAnswers, AloneInv, PassTypes, TypeOK, Prog, Steady
<1>2. \A q \in DOMAIN got'[w] : q # n => q \in DOMAIN got[w] /\ got'[w][q] = got[w][q]
  BY DEF DatabaseAnswers, AloneInv, PassTypes
<1>3. Orderly(Prog)
  BY ProgramsAreOrderly, PassAssumption DEF AloneInv, PassTypes, TypeOK, Prog
<1>4. ASSUME NEW i \in DOMAIN Prog, i <= n - 1, NEW a \in Prog[i].sets, a[1] \in watch
      PROVE  HoldsIts(w, a)'
  <2>1. HoldsIts(w, a)
    BY <1>4 DEF SetUpTo
  <2>2. n \notin a[2]
    BY <1>1, <1>3, <1>4 DEF Orderly
  <2>. QED  BY <1>1, <1>2, <2>1, <2>2 DEF HoldsIts
<1>5. \A k, l : Agree(k, l) => Agree(k, l)'
  BY <1>1 DEF Agree
<1>. QED  BY <1>1, <1>4, <1>5 DEF SetUpTo

LEMMA NextLeavesInAgreement ==
  ASSUME AloneInv, Apart, LeavesInAgreement, [Next]_vars
  PROVE  LeavesInAgreement'
<1>1. UNCHANGED <<who, watch>> /\ Prog' = Prog
  BY NextKeepsWatch DEF AloneInv, Prog
<1>2. Steady(Prog)
  BY WhatIsApart DEF AloneInv, PassTypes
<1>3. SUFFICES ASSUME NEW u \in Pass, Alone(u)', NEW n, n = pc'[u]
               PROVE  SetUpTo(u, n - 1)'
  BY DEF LeavesInAgreement
<1>4. ASSUME pc'[u] = pc[u], overlap'[u] = overlap[u], got'[u] = got[u], UNCHANGED cache
      PROVE  SetUpTo(u, n - 1)'
  <2>1. SetUpTo(u, n - 1)
    BY <1>3, <1>4 DEF LeavesInAgreement, Alone
  <2>. QED  BY <1>1, <1>4, <2>1 DEF SetUpTo, HoldsIts, Agree
<1>5. ASSUME NEW w \in Pass, Begin(w)
      PROVE  SetUpTo(u, n - 1)'
  <2>1. u = w
    BY <1>3, <1>5 DEF Begin, Alone, AloneInv, PassTypes
  <2>2. n = FirstStep
    BY <1>3, <1>5, <2>1 DEF Begin, AloneInv, PassTypes
  <2>3. n = 1
    <3>1. Fits(Prog) /\ Steps(Prog)
      BY ProgramsFit, ProgramsHaveSteps, PassAssumption
         DEF AloneInv, PassTypes, TypeOK, Prog
    <3>2. 1 \in DOMAIN Prog
      BY <3>1 DEF Fits, Steps
    <3>. QED  BY <1>2, <2>2, <3>2 DEF Steady, FirstStep
  <2>4. \A i \in DOMAIN Prog : ~(i <= n - 1)
    BY <1>2, <2>3 DEF Steady
  <2>. QED  BY <1>1, <2>4 DEF SetUpTo
<1>6. ASSUME NEW w \in Pass, DatabaseAnswers(w)
      PROVE  SetUpTo(u, n - 1)'
  <2>1. UNCHANGED <<pc, overlap, cache>>
    BY <1>6 DEF DatabaseAnswers
  <2>2. CASE u = w
    <3>1. n = pc[w] /\ SetUpTo(w, n - 1)
      BY <1>3, <2>1, <2>2 DEF LeavesInAgreement, Alone
    <3>. QED  BY <1>2, <1>6, <2>2, <3>1, AnswerAgrees
  <2>3. CASE u # w
    <3>1. got'[u] = got[u]
      BY <1>6, <2>3 DEF DatabaseAnswers, AloneInv, PassTypes
    <3>. QED  BY <1>4, <2>1, <3>1
  <2>. QED  BY <2>2, <2>3
<1>7. ASSUME NEW w \in Pass, Resume(w)
      PROVE  SetUpTo(u, n - 1)'
  <2>1. /\ UNCHANGED overlap
        /\ \A v \in Pass \ {w} : pc'[v] = pc[v]
        /\ pc'[w] = 0 \/ pc'[w] = pc[w] + 1
    BY <1>7, ResumeWrites, ResumeGoes DEF AloneInv
  <2>7. pc[w] # 0 /\ pc[w] \in Int
    <3>1. Answered(w)
      BY <1>7, ResumeWrites DEF AloneInv
    <3>. QED  BY <3>1, LenOfProg DEF AloneInv, PassTypes, TypeOK, Answered
  <2>2. u = w
    BY <1>3, <2>1, <2>7 DEF Alone, AloneInv, Solitude
  <2>3. PICK m : m = pc[w]
    OBVIOUS
  <2>4. Alone(w) /\ n - 1 = m
    BY <1>3, <2>1, <2>2, <2>3, <2>7 DEF Alone
  <2>5. SetUpTo(w, m - 1)
    BY <2>3, <2>4 DEF LeavesInAgreement
  <2>6. SetUpTo(w, m)'
    BY <1>2, <1>7, <2>3, <2>5, ResumeAgrees
  <2>. QED  BY <2>2, <2>4, <2>6
<1>8. ASSUME NEW w \in Pass, PassRaises(w)
      PROVE  SetUpTo(u, n - 1)'
  <2>1. /\ UNCHANGED <<overlap, cache>> /\ pc'[w] = 0
        /\ \A v \in Pass \ {w} : pc'[v] = pc[v] /\ got'[v] = got[v]
    BY <1>8, LenOfProg DEF PassRaises, GoTo, AloneInv, PassTypes
  <2>2. u # w
    BY <1>3, <2>1 DEF Alone
  <2>. QED  BY <1>4, <2>1, <2>2
<1>9. CASE ContentsChange \/ Outage \/ OutageEnds \/ UNCHANGED vars
  BY <1>4, <1>9 DEF ContentsChange, Outage, OutageEnds, vars
<1>. QED  BY <1>5, <1>6, <1>7, <1>8, <1>9 DEF Next

LEMMA NextTwins == TwinsInv /\ [Next]_vars => TwinsInv'
<1>. SUFFICES ASSUME TwinsInv, [Next]_vars
              PROVE  TwinsInv'
  OBVIOUS
<1>1. AloneInv /\ PassTypes /\ AloneInv'
  BY NextAlone DEF TwinsInv, AloneInv
<1>2. Apart' <=> Apart
  <2>1. watch' = watch /\ Prog' = Prog
    BY <1>1, NextKeepsWatch DEF Prog
  <2>2. \A n, Q : Watched(n, Q)' <=> Watched(n, Q)
    BY <2>1 DEF Watched
  <2>. QED  BY <2>1, <2>2 DEF Apart
<1>3. CASE Apart
  BY <1>1, <1>2, <1>3, NextLeavesInAgreement DEF TwinsInv
<1>4. CASE ~Apart
  BY <1>1, <1>2, <1>4, NextKeepsSameRows DEF TwinsInv
<1>. QED  BY <1>3, <1>4

\* Only by resuming does a pass leave a query that was answered.
LEMMA OnlyResumeGoes ==
  ASSUME PassTypes, [Next]_vars, NEW w \in Pass, Answered(w), pc'[w] # pc[w]
  PROVE  Resume(w)
<1>1. ASSUME NEW v \in Pass, Begin(v)
      PROVE  FALSE
  BY <1>1 DEF Begin, Answered, PassTypes
<1>2. ASSUME NEW v \in Pass, PassRaises(v)
      PROVE  FALSE
  BY <1>2 DEF PassRaises, Awaits, Answered, GoTo, PassTypes
<1>3. ASSUME NEW v \in Pass, Resume(v)
      PROVE  v = w
  BY <1>3, ResumeGoes
<1>4. ~(ContentsChange \/ Outage \/ OutageEnds \/ UNCHANGED vars)
  BY DEF ContentsChange, Outage, OutageEnds, vars
<1>5. ~(\E v \in Pass : DatabaseAnswers(v))
  BY DEF DatabaseAnswers
<1>. QED  BY <1>1, <1>2, <1>3, <1>4, <1>5 DEF Next

\* Keys that one query's rows go into are not left as a mix of two passes by a
\* pass that was alone, whichever the collector, whatever failed and whatever
\* earlier passes left behind; those set at once never are: TwinsAgree.
THEOREM TwinsAlwaysAgree == Spec => TwinsAgree
<1>1. ASSUME TwinsInv, TwinsInv', [Next]_vars, NEW w \in Pass, Answered(w), pc'[w] # pc[w],
             NEW k \in watch, NEW l \in watch
      PROVE  Agree(k, l)' \/ (~IsAtOnce(k, l) /\ (MoreToSet(w) \/ overlap[w]))
  <2>1. AloneInv /\ PassTypes /\ TypeOK /\ UNCHANGED <<who, watch>>
    BY <1>1, NextKeepsWatch DEF TwinsInv, AloneInv, PassTypes
  <2>2. CASE ~Apart
    <3>1. SameRows'
      BY <1>1, <2>1, <2>2 DEF TwinsInv, Apart, Watched, Prog
    <3>. QED  BY <2>1, <3>1 DEF SameRows, Agree
  <2>3. CASE k = l
    BY <2>3 DEF Agree
  <2>4. CASE Apart /\ k # l /\ ~MoreToSet(w) /\ ~overlap[w]
    <3>1. Resume(w)
      BY <1>1, <2>1, OnlyResumeGoes
    <3>2. PICK n : n = pc[w]
      OBVIOUS
    <3>3. SetUpTo(w, n - 1) /\ Steady(Prog)
      BY <1>1, <2>1, <2>4, <3>2, WhatIsApart
         DEF TwinsInv, LeavesInAgreement, Alone, Answered
    <3>4. SetUpTo(w, n)'
      BY <2>1, <3>1, <3>2, <3>3, ResumeAgrees
    <3>5. PICK i \in DOMAIN Prog, j \in DOMAIN Prog :
            \E a \in Prog[i].sets, b \in Prog[j].sets : a[1] = k /\ b[1] = l
      BY <1>1, <2>1, <2>4, WhatIsApart
    <3>6. PICK a \in Prog[i].sets, b \in Prog[j].sets : a[1] = k /\ b[1] = l
      BY <3>5
    <3>7. n \in Int /\ i \in Int /\ j \in Int
      BY <2>1, <3>2, <3>3, LenOfProg DEF PassTypes, TypeOK, Steady
    <3>8. i <= n /\ j <= n
      BY <1>1, <2>4, <3>2, <3>6, <3>7 DEF MoreToSet
    <3>. QED  BY <1>1, <2>1, <3>4, <3>6, <3>8 DEF SetUpTo, Prog
  <2>. QED  BY <1>1, <2>1, <2>2, <2>3, <2>4, WhatIsApart
<1>2. TwinsInv /\ TwinsInv' /\ [Next]_vars =>
        [ \A w \in Pass : Answered(w) /\ pc'[w] # pc[w] =>
            \A k, l \in watch :
              \/ Agree(k, l)'
              \/ ~IsAtOnce(k, l) /\ (MoreToSet(w) \/ overlap[w]) ]_vars
  BY <1>1
<1>. QED  BY <1>2, InitTwins, NextTwins, PTL DEF Spec, TwinsAgree

-----------------------------------------------------------------------------
(* THE DETAIL OF A SELECTED ROW *)

\* The two halves of DetailIsOfSelection are kept by each other and by a fact
\* about the selection: what is drawn of a key, fetched or still to be, is of the
\* selected one.  Without it a late answer could end the worker and leave
\* "Fetching ..." behind.
DetailIsSelected == detail.what \in {"fetching", "answer"} => detail.of = selected

FetchIsRunning == detail.what = "fetching" => worker = detail.of

SelectionInv == SelectionTypeOK /\ DetailIsSelected /\ FetchIsRunning

-----------------------------------------------------------------------------
\* A list of at most RowMax rows is a sequence of keys.
LEMMA ListsAreSequences ==
  ASSUME NEW l \in Lists
  PROVE  /\ l \in Seq(Key \cup {NoKey})
         /\ Len(l) \in Nat
         /\ \A i \in 1..Len(l) : l[i] \in Key \cup {NoKey}
<1>1. PICK n \in 0..RowMax : l \in [1..n -> Key \cup {NoKey}]
  BY DEF Lists
<1>2. n \in Nat
  BY BoundAssumption
<1>3. l \in Seq(Key \cup {NoKey})
  BY <1>1, <1>2
<1>. QED  BY <1>3

\* Selecting a row of what is shown keeps the three parts of the invariant.
LEMMA SelectKeepsInv ==
  ASSUME SelectionInv, NEW shown \in Lists, NEW at \in Nat, Select(shown, at)
  PROVE  /\ selected' \in Key \cup {NoKey}
         /\ detail' \in Details
         /\ worker' \in Key \cup {NoKey}
         /\ foreign' \in BOOLEAN
         /\ DetailIsSelected'
         /\ FetchIsRunning'
<1>. USE DEF SelectionInv, SelectionTypeOK, DetailIsSelected, FetchIsRunning, Details
<1>1. CASE UNCHANGED <<selected, detail, worker, foreign>>
  BY <1>1
<1>2. CASE SelectKeyless
  BY <1>2 DEF SelectKeyless, Nothing, Message
<1>3. CASE \E k \in Key : SelectKey(k)
  <2>1. PICK k \in Key : SelectKey(k)
    BY <1>3
  <2>2. CASE k = selected
    BY <2>1, <2>2 DEF SelectKey
  <2>3. CASE k # selected
    BY <2>1, <2>3 DEF SelectKey, Start, Fetching
  <2>. QED  BY <2>2, <2>3
<1>4. at < Len(shown) => shown[at + 1] \in Key \cup {NoKey}
  <2>1. at < Len(shown) => at + 1 \in 1..Len(shown)
    BY ListsAreSequences
  <2>. QED  BY <2>1, ListsAreSequences
<1>. QED  BY <1>1, <1>2, <1>3, <1>4 DEF Select

\* A redraw leaves the cursor on a line of the table, or on line 0 of an empty one.
LEMMA RedrawKeepsCursor ==
  ASSUME SelectionTypeOK, NEW l \in Lists
  PROVE  /\ CursorAfter(l) \in Nat
         /\ CursorAfter(l) = 0 \/ CursorAfter(l) < Len(l)
         /\ Posted(l, CursorAfter(l)) \in Seq(Nat)
<1>1. Len(l) \in Nat
  BY ListsAreSequences
<1>2. /\ CursorAfter(l) \in Nat
      /\ CursorAfter(l) = 0 \/ CursorAfter(l) < Len(l)
  BY <1>1 DEF CursorAfter, SelectionTypeOK
<1>. QED  BY <1>2 DEF Posted

-----------------------------------------------------------------------------
LEMMA InitEstablishesSelection == SelectionInit => SelectionInv
<1>. SUFFICES ASSUME SelectionInit PROVE SelectionInv
  OBVIOUS
<1>. USE DEF SelectionInit, Nothing
<1>1. <<>> \in Lists
  <2>1. <<>> \in [1..0 -> Key \cup {NoKey}] /\ 0 \in 0..RowMax
    BY BoundAssumption
  <2>. QED  BY <2>1 DEF Lists
<1>2. detail \in Details
  BY DEF Details
<1>3. SelectionTypeOK
  <2>1. /\ panel \in {"sqlmon", "jobs"} /\ list \in Lists /\ rows \in Lists
        /\ selected \in Key \cup {NoKey} /\ worker \in Key \cup {NoKey}
        /\ foreign \in BOOLEAN
    BY <1>1
  <2>2. events \in Seq(Nat)
    OBVIOUS
  <2>3. cursor \in Nat /\ cursor = 0
    OBVIOUS
  <2>. QED  BY <1>2, <2>1, <2>2, <2>3 DEF SelectionTypeOK
<1>4. DetailIsSelected /\ FetchIsRunning
  BY DEF DetailIsSelected, FetchIsRunning
<1>. QED  BY <1>3, <1>4 DEF SelectionInv

LEMMA NextKeepsSelection == SelectionInv /\ [SelectionNext]_selectionVars => SelectionInv'
<1>. SUFFICES ASSUME SelectionInv, [SelectionNext]_selectionVars PROVE SelectionInv'
  OBVIOUS
<1>. USE DEF SelectionInv
<1>1. CASE Collect
  BY <1>1 DEF Collect, SelectionTypeOK, DetailIsSelected, FetchIsRunning
<1>2. CASE Refresh
  <2>. DEFINE at == CursorAfter(list)
  <2>1. list \in Lists /\ at \in Nat
    BY RedrawKeepsCursor DEF SelectionTypeOK
  <2>2. Select(list, at)
    BY <1>2 DEF Refresh
  <2>3. events' \in Seq(Nat)
    BY <1>2, <2>1, RedrawKeepsCursor DEF Refresh, SelectionTypeOK
  <2>4. /\ rows' \in Lists /\ list' \in Lists /\ panel' \in {"sqlmon", "jobs"}
        /\ cursor' \in Nat /\ (cursor' = 0 \/ cursor' < Len(rows'))
    BY <1>2, <2>1, RedrawKeepsCursor DEF Refresh, SelectionTypeOK
  <2>. QED  BY <2>1, <2>2, <2>3, <2>4, SelectKeepsInv DEF SelectionTypeOK
<1>3. CASE MoveCursor
  <2>1. /\ cursor' \in Nat /\ cursor' < Len(rows)
        /\ UNCHANGED <<panel, list, rows, selected, detail, worker, foreign>>
        /\ events' = Append(events, cursor')
    BY <1>3, BoundAssumption DEF MoveCursor
  <2>. QED  BY <2>1 DEF SelectionTypeOK, DetailIsSelected, FetchIsRunning
<1>4. CASE Highlighted
  <2>1. Head(events) \in Nat /\ Tail(events) \in Seq(Nat)
    BY <1>4 DEF Highlighted, SelectionTypeOK
  <2>2. rows \in Lists /\ Select(rows, Head(events))
    BY <1>4 DEF Highlighted, SelectionTypeOK
  <2>3. events' \in Seq(Nat) /\ UNCHANGED <<panel, list, rows, cursor>>
    BY <1>4, <2>1 DEF Highlighted
  <2>. QED  BY <2>1, <2>2, <2>3, SelectKeepsInv DEF SelectionTypeOK
<1>5. CASE \E k \in Key : DetailAnswered(k)
  <2>1. PICK k \in Key : DetailAnswered(k)
    BY <1>5
  <2>2. CASE k = selected
    BY <2>1, <2>2 DEF DetailAnswered, Draw, DetailOf, Details,
                      SelectionTypeOK, DetailIsSelected, FetchIsRunning
  <2>3. CASE k # selected
    <3>1. detail.what # "fetching"
      BY <2>1, <2>3 DEF DetailAnswered, DetailIsSelected, FetchIsRunning
    <3>. QED
      BY <2>1, <2>3, <3>1 DEF DetailAnswered, Draw,
                      SelectionTypeOK, DetailIsSelected, FetchIsRunning
  <2>. QED  BY <2>2, <2>3
<1>6. CASE UNCHANGED selectionVars
  BY <1>6 DEF selectionVars, SelectionTypeOK, DetailIsSelected, FetchIsRunning
<1>. QED  BY <1>1, <1>2, <1>3, <1>4, <1>5, <1>6 DEF SelectionNext

-----------------------------------------------------------------------------
\* Types: the cursor is on a line of the table, and what is drawn as fetched, the
\* selection and the worker are of keys.
THEOREM SelectionTypesCorrect == SelectionSpec => []SelectionTypeOK
<1>1. SelectionInv => SelectionTypeOK
  BY DEF SelectionInv
<1>. QED  BY <1>1, InitEstablishesSelection, NextKeepsSelection, PTL DEF SelectionSpec

\* A plan or a history on the screen is of the selected row, and "Fetching ..." is
\* there only while a worker fetches just that, whatever the order of moves,
\* redraws, messages and late answers.
THEOREM DetailFollowsSelection == SelectionSpec => []DetailIsOfSelection
<1>1. SelectionInv => DetailIsOfSelection
  BY DEF SelectionInv, DetailIsSelected, FetchIsRunning, DetailIsOfSelection
<1>. QED  BY <1>1, InitEstablishesSelection, NextKeepsSelection, PTL DEF SelectionSpec
==============================================================================
