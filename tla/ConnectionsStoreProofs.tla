------------------------ MODULE ConnectionsStoreProofs ------------------------
(***************************************************************************)
(* The theorems of ConnectionsStore, for any instances, keys and bounds:   *)
(* its types, OneEntryPerKey and IsAMap.                                   *)
(***************************************************************************)
EXTENDS ConnectionsStore, TLAPS

\* A list of connections in which a key means one of them.
IsUnique(es) == \A d, e \in es : d.key = e.key => d = e

\* What a call has as its argument at each of its steps.
ArgFits(i) ==
  /\ at[i] # "idle" => arg[i] # None
  /\ at[i] \in {"called", "stored"} => arg[i].data \in Version

StoreInv ==
  /\ StoreTypeOK
  /\ OneEntryPerKey
  /\ \A i \in Instance : IsUnique(list[i])
  /\ \A i \in Instance : ArgFits(i)

-----------------------------------------------------------------------------
LEMMA Bounds == CallMax \in Nat /\ DeathMax \in Nat /\ None \notin Version
  BY StoreAssumption DEF Version

\* An update and a removal keep a list unique.
LEMMA UniqueAfter ==
  ASSUME NEW es, IsUnique(es), NEW e, NEW k
  PROVE  IsUnique(Saved(es, e)) /\ IsUnique(Removed(es, k))
  BY DEF IsUnique, Saved, Removed

LEMMA LoadsUnique ==
  ASSUME StoreInv
  PROVE  load_connections \in SUBSET Entry /\ IsUnique(load_connections)
<1>1. IsUnique({})
  BY DEF IsUnique
<1>. QED
  BY <1>1 DEF load_connections, StoreInv, StoreTypeOK, OneEntryPerKey, IsUnique

LEMMA ArgType ==
  ASSUME StoreInv, NEW i \in Instance, at[i] # "idle"
  PROVE  /\ arg[i] \in [key : Key, data : Version \cup {None},
                        password : Version \cup {None}]
         /\ arg[i].key \in Key
         /\ at[i] \in {"called", "stored"} => arg[i] \in Entry
  BY DEF StoreInv, StoreTypeOK, ArgFits, Entry

LEMMA CallingKeepsInv ==
  ASSUME StoreInv, NEW i \in Instance, NEW k \in Key, NEW step, NEW a,
         Calling(i, step, a),
         \/ step = "called" /\ a = [key |-> k, data |-> calls + 1, password |-> calls + 1]
         \/ step = "removing" /\ a = [key |-> k, data |-> None, password |-> None]
  PROVE  StoreInv'
<1>. DEFINE Arg == [key : Key, data : Version \cup {None},
                    password : Version \cup {None}]
<1>1. calls \in 0..CallMax /\ calls < CallMax /\ calls' = calls + 1
  BY DEF StoreInv, StoreTypeOK, Calling
<1>2. calls' \in 0..CallMax /\ calls + 1 \in Version
  BY <1>1, Bounds DEF Version
<1>3. a \in Arg /\ step \in Place /\ (step = "called" => a.data \in Version)
  BY <1>2 DEF Place
<1>4. a # None
  <2>1. CASE a = [key |-> k, data |-> calls + 1, password |-> calls + 1]
    BY <2>1, <1>2, StoreAssumption DEF Version
  <2>2. CASE a = [key |-> k, data |-> None, password |-> None]
    BY <2>2, StoreAssumption DEF Version
  <2>. QED  BY <2>1, <2>2
<1>5. /\ at' = [at EXCEPT ![i] = step] /\ arg' = [arg EXCEPT ![i] = a]
      /\ disturbed' = (disturbed \/ \E j \in Instance : at[j] # "idle")
      /\ UNCHANGED <<hasKeyring, file, form, keyring, list, deaths>>
  BY DEF Calling
<1>6. disturbed' \in BOOLEAN
  BY <1>5
<1>7. StoreTypeOK'
  BY <1>2, <1>3, <1>5, <1>6 DEF StoreInv, StoreTypeOK
<1>8. \A j \in Instance : ArgFits(j)'
  BY <1>3, <1>4, <1>5 DEF StoreInv, StoreTypeOK, ArgFits
<1>. QED  BY <1>5, <1>7, <1>8 DEF StoreInv, OneEntryPerKey, IsUnique

LEMMA StepKeepsInv ==
  ASSUME StoreInv, NEW i \in Instance, StoreStep(i) \/ Die(i)
  PROVE  StoreInv'
<1>. USE DEF StoreInv
<1>1. CASE StorePassword(i)
  <2>1. at[i] = "called" /\ arg[i] \in Entry /\ arg[i].key \in Key
    BY <1>1, ArgType DEF StorePassword
  <2>2. /\ at' = [at EXCEPT ![i] = "stored"]
        /\ keyring' \in [Key -> Version \cup {None}]
        /\ UNCHANGED <<hasKeyring, file, form, list, calls, deaths, disturbed>>
    BY <1>1, <2>1 DEF StorePassword, StoreTypeOK, Entry
  <2>3. /\ arg' = [arg EXCEPT ![i] = arg'[i]]
        /\ arg'[i] \in Entry
    BY <1>1, <2>1 DEF StorePassword, StoreTypeOK, Entry
  <2>4. arg'[i] # None /\ arg'[i].data \in Version
    BY <2>3, StoreAssumption, Bounds DEF Entry, Version
  <2>5. StoreTypeOK'
    BY <2>2, <2>3 DEF StoreTypeOK, Place, Entry
  <2>6. \A j \in Instance : ArgFits(j)'
    BY <2>2, <2>3, <2>4 DEF StoreTypeOK, ArgFits
  <2>. QED  BY <2>2, <2>5, <2>6 DEF OneEntryPerKey, IsUnique
<1>2. CASE LoadToSave(i)
  <2>1. at[i] = "stored" /\ arg[i] \in Entry
    BY <1>2, ArgType DEF LoadToSave
  <2>2. load_connections \in SUBSET Entry /\ IsUnique(load_connections)
    BY LoadsUnique
  <2>. DEFINE new == Saved(load_connections, arg[i])
  <2>3. new \in SUBSET Entry /\ IsUnique(new)
    BY <2>1, <2>2, UniqueAfter DEF Saved
  <2>4. /\ at' = [at EXCEPT ![i] = "loaded"] /\ list' = [list EXCEPT ![i] = new]
        /\ UNCHANGED <<hasKeyring, file, form, keyring, arg, calls, deaths, disturbed>>
    BY <1>2 DEF LoadToSave
  <2>. HIDE DEF new
  <2>5. StoreTypeOK'
    BY <2>3, <2>4 DEF StoreTypeOK, Place
  <2>6. \A j \in Instance : IsUnique(list'[j])
    BY <2>3, <2>4 DEF StoreTypeOK
  <2>7. \A j \in Instance : ArgFits(j)'
    BY <2>1, <2>4 DEF StoreTypeOK, ArgFits
  <2>. QED  BY <2>4, <2>5, <2>6, <2>7 DEF OneEntryPerKey, IsUnique
<1>3. CASE LoadToRemove(i)
  <2>1. load_connections \in SUBSET Entry /\ IsUnique(load_connections)
    BY LoadsUnique
  <2>. DEFINE new == Removed(load_connections, arg[i].key)
  <2>2. new \in SUBSET Entry /\ IsUnique(new)
    BY <2>1, UniqueAfter DEF Removed
  <2>3. /\ at[i] = "removing"
        /\ at' = [at EXCEPT ![i] = "loaded"] /\ list' = [list EXCEPT ![i] = new]
        /\ UNCHANGED <<hasKeyring, file, form, keyring, arg, calls, deaths, disturbed>>
    BY <1>3 DEF LoadToRemove
  <2>. HIDE DEF new
  <2>4. StoreTypeOK'
    BY <2>2, <2>3 DEF StoreTypeOK, Place
  <2>5. \A j \in Instance : IsUnique(list'[j])
    BY <2>2, <2>3 DEF StoreTypeOK
  <2>6. \A j \in Instance : ArgFits(j)'
    BY <2>3 DEF StoreTypeOK, ArgFits
  <2>. QED  BY <2>3, <2>4, <2>5, <2>6 DEF OneEntryPerKey, IsUnique
<1>4. CASE OpenFile(i)
  <2>1. StoreTypeOK'
    BY <1>4 DEF OpenFile, StoreTypeOK, Place
  <2>2. \A j \in Instance : ArgFits(j)'
    BY <1>4 DEF OpenFile, StoreTypeOK, ArgFits
  <2>. QED  BY <1>4, <2>1, <2>2 DEF OpenFile, OneEntryPerKey, IsUnique
<1>5. CASE WriteFile(i)
  <2>. DEFINE saving == arg[i].data # None
  <2>1. /\ file' \in SUBSET Entry /\ IsUnique(file')
        /\ form' \in {"whole", "garbage"}
    BY <1>5 DEF WriteFile, StoreTypeOK, IsUnique
  <2>2. /\ at' = [at EXCEPT ![i] = IF saving THEN "idle" ELSE "written"]
        /\ arg' = [arg EXCEPT ![i] = IF saving THEN None ELSE arg[i]]
        /\ list' = [list EXCEPT ![i] = {}]
        /\ at[i] = "opened"
        /\ UNCHANGED <<hasKeyring, keyring, calls, deaths, disturbed>>
    BY <1>5 DEF WriteFile
  <2>. HIDE DEF saving
  <2>3. StoreTypeOK'
    BY <2>1, <2>2 DEF StoreTypeOK, Place
  <2>4. \A j \in Instance : IsUnique(list'[j])
    BY <2>2 DEF StoreTypeOK, IsUnique
  <2>5. \A j \in Instance : ArgFits(j)'
    BY <2>2 DEF StoreTypeOK, ArgFits
  <2>. QED  BY <2>1, <2>3, <2>4, <2>5 DEF OneEntryPerKey, IsUnique
<1>6. CASE ForgetPassword(i)
  <2>1. StoreTypeOK'
    BY <1>6, ArgType DEF ForgetPassword, StoreTypeOK, Place
  <2>2. \A j \in Instance : ArgFits(j)'
    BY <1>6 DEF ForgetPassword, StoreTypeOK, ArgFits
  <2>. QED  BY <1>6, <2>1, <2>2 DEF ForgetPassword, OneEntryPerKey, IsUnique
<1>7. CASE Die(i)
  <2>1. /\ at' = [at EXCEPT ![i] = "idle"]
        /\ arg' = [arg EXCEPT ![i] = None]
        /\ list' = [list EXCEPT ![i] = {}]
        /\ deaths' \in 0..DeathMax
        /\ form' \in {"whole", "empty", "garbage"}
        /\ file' \in {file, {}}
        /\ UNCHANGED <<hasKeyring, keyring, calls>>
    BY <1>7, Bounds DEF Die, StoreTypeOK
  <2>2. disturbed' \in BOOLEAN
    BY <1>7 DEF Die
  <2>3. StoreTypeOK'
    BY <2>1, <2>2 DEF StoreTypeOK, Place
  <2>4. \A j \in Instance : IsUnique(list'[j])
    BY <2>1 DEF StoreTypeOK, IsUnique
  <2>5. \A j \in Instance : ArgFits(j)'
    BY <2>1 DEF StoreTypeOK, ArgFits
  <2>. QED  BY <2>1, <2>3, <2>4, <2>5 DEF OneEntryPerKey, IsUnique
<1>. QED  BY <1>1, <1>2, <1>3, <1>4, <1>5, <1>6, <1>7 DEF StoreStep

LEMMA InitEstablishesInv == StoreInit => StoreInv
<1>. SUFFICES ASSUME StoreInit PROVE StoreInv
  OBVIOUS
<1>1. StoreTypeOK
  <2>1. keyring \in [Key -> Version \cup {None}]
    BY DEF StoreInit
  <2>2. at \in [Instance -> Place]
    BY DEF StoreInit, Place
  <2>3. /\ list \in [Instance -> SUBSET Entry]
        /\ arg \in [Instance -> [key : Key, data : Version \cup {None},
                                password : Version \cup {None}] \cup {None}]
    BY DEF StoreInit
  <2>4. calls \in 0..CallMax /\ deaths \in 0..DeathMax
    BY Bounds DEF StoreInit
  <2>5. file \in SUBSET Entry /\ form \in {"whole", "empty", "garbage"}
    BY DEF StoreInit
  <2>6. hasKeyring \in BOOLEAN /\ disturbed \in BOOLEAN
    BY DEF StoreInit
  <2>. QED  BY <2>1, <2>2, <2>3, <2>4, <2>5, <2>6 DEF StoreTypeOK
<1>. QED
  BY <1>1 DEF StoreInit, StoreInv, OneEntryPerKey, IsUnique, ArgFits

LEMMA NextKeepsInv == StoreInv /\ [StoreNext]_storeVars => StoreInv'
<1>. SUFFICES ASSUME StoreInv, [StoreNext]_storeVars PROVE StoreInv'
  OBVIOUS
<1>1. CASE UNCHANGED storeVars
  BY <1>1 DEF storeVars, StoreInv, StoreTypeOK, OneEntryPerKey, IsUnique, ArgFits
<1>2. ASSUME NEW i \in Instance, CallStep(i)
      PROVE  StoreInv'
  <2>1. PICK k \in Key : CallRemove(i, k) \/ CallSave(i, k)
    BY <1>2 DEF CallStep
  <2>. QED  BY <2>1, CallingKeepsInv DEF CallRemove, CallSave
<1>. QED  BY <1>1, <1>2, StepKeepsInv DEF StoreNext

-----------------------------------------------------------------------------
\* Types of the store's two halves, the file and the keyring, and of the calls.
THEOREM TypeCorrect == StoreSpec => []StoreTypeOK
<1>1. StoreInv => StoreTypeOK
  BY DEF StoreInv
<1>. QED  BY <1>1, InitEstablishesInv, NextKeepsInv, PTL DEF StoreSpec

\* The file never has two entries for one key, however many instances overlap
\* and die: what each is about to write is unique as well.
THEOREM KeysAreUnique == StoreSpec => []OneEntryPerKey
<1>1. StoreInv => OneEntryPerKey
  BY DEF StoreInv
<1>. QED  BY <1>1, InitEstablishesInv, NextKeepsInv, PTL DEF StoreSpec

-----------------------------------------------------------------------------
(* The map.  While nothing is disturbed at most one instance, i, has a call   *)
(* under way, and the map is a view of its variables, of the file and of the  *)
(* keyring; each step of i changes the view as the map may, or not at all.    *)

Alone(i) == \A j \in Instance : j # i => at[j] = "idle"

\* What a call knows at each of its steps, of the file and of the keyring.
CallKnows(i) ==
  /\ at[i] = "called" => arg[i].password = arg[i].data
  /\ at[i] = "removing" => arg[i].data = None
  /\ at[i] \in {"stored", "loaded", "opened"} /\ arg[i].data # None =>
       \/ arg[i].password = arg[i].data
       \/ arg[i].password = None /\ keyring[arg[i].key] = arg[i].data
  /\ at[i] = "stored" => arg[i].data # None
  /\ at[i] = "loaded" =>
       list[i] = IF arg[i].data # None THEN Saved(file, arg[i])
                                       ELSE Removed(file, arg[i].key)
  /\ at[i] = "opened" => form = "empty"
  /\ at[i] = "opened" /\ arg[i].data = None => \A e \in list[i] : e.key # arg[i].key
  /\ at[i] = "written" =>
       arg[i].data = None /\ \A e \in file : e.key # arg[i].key

QuietInv ==
  ~disturbed =>
    /\ \A i \in Instance : at[i] # "idle" => Alone(i)
    /\ form = "whole" \/ \E i \in Instance : at[i] = "opened"
    /\ \A i \in Instance : CallKnows(i)

\* A step of i that leaves nothing disturbed finds and leaves the others idle.
LEMMA AloneBefore ==
  ASSUME QuietInv, ~disturbed', StoreInv, NEW i \in Instance,
         CallStep(i) \/ StoreStep(i) \/ Die(i)
  PROVE  ~disturbed /\ Alone(i) /\ Alone(i)'
<1>1. CASE CallStep(i)
  BY <1>1 DEF CallStep, CallSave, CallRemove, Calling, Alone, StoreInv, StoreTypeOK
<1>2. CASE StoreStep(i)
  BY <1>2 DEF StoreStep, StorePassword, LoadToSave, LoadToRemove, OpenFile, WriteFile,
              ForgetPassword, QuietInv, Alone, StoreInv, StoreTypeOK
<1>3. CASE Die(i)
  BY <1>3 DEF Die, QuietInv, Alone, StoreInv, StoreTypeOK
<1>. QED  BY <1>1, <1>2, <1>3

\* With the others idle all there is to know is about i.
LEMMA QuietAgain ==
  ASSUME NEW i \in Instance, Alone(i)', CallKnows(i)',
         (form = "whole" \/ at[i] = "opened")'
  PROVE  QuietInv'
  BY DEF QuietInv, Alone, CallKnows

LEMMA QuietLoads ==
  ASSUME QuietInv, ~disturbed, NEW i \in Instance, Alone(i), at[i] # "opened"
  PROVE  form = "whole" /\ load_connections = file
  BY DEF QuietInv, Alone, load_connections

LEMMA QuietInit == StoreInit => QuietInv
  BY DEF StoreInit, QuietInv, Alone, CallKnows

LEMMA CallKeepsQuiet ==
  ASSUME StoreInv, QuietInv, ~disturbed', NEW i \in Instance, CallStep(i)
  PROVE  QuietInv'
<1>1. ~disturbed /\ Alone(i) /\ Alone(i)'
  BY AloneBefore
<1>2. PICK k \in Key : CallRemove(i, k) \/ CallSave(i, k)
  BY DEF CallStep
<1>3. at[i] = "idle"
  BY <1>2 DEF CallRemove, CallSave, Calling
<1>4. form = "whole"
  BY <1>1, <1>3, QuietLoads
<1>5. CASE CallRemove(i, k)
  <2>1. CallKnows(i)' /\ form' = form
    BY <1>5 DEF CallRemove, Calling, CallKnows, StoreInv, StoreTypeOK
  <2>. QED  BY <1>1, <1>4, <2>1, QuietAgain
<1>6. CASE CallSave(i, k)
  <2>1. CallKnows(i)' /\ form' = form
    BY <1>6 DEF CallSave, Calling, CallKnows, StoreInv, StoreTypeOK
  <2>. QED  BY <1>1, <1>4, <2>1, QuietAgain
<1>. QED  BY <1>2, <1>5, <1>6

LEMMA StepKeepsQuiet ==
  ASSUME StoreInv, QuietInv, ~disturbed', NEW i \in Instance, StoreStep(i) \/ Die(i)
  PROVE  QuietInv'
<1>1. ~disturbed /\ Alone(i) /\ Alone(i)' /\ CallKnows(i)
  BY AloneBefore DEF QuietInv
<1>. USE DEF StoreInv
<1>2. CASE StorePassword(i)
  <2>1. at[i] = "called" /\ arg[i] \in Entry /\ arg[i].data # None
    BY <1>2, ArgType, Bounds DEF StorePassword, Entry
  <2>2. /\ at' = [at EXCEPT ![i] = "stored"] /\ form' = form /\ form = "whole"
    BY <1>1, <1>2, <2>1, QuietLoads DEF StorePassword
  <2>3. \/ arg'[i] = arg[i]
        \/ /\ arg'[i].data = arg[i].data /\ arg'[i].password = None
           /\ arg'[i].key = arg[i].key /\ keyring'[arg[i].key] = arg[i].password
    BY <1>2, <2>1 DEF StorePassword, StoreTypeOK, Entry
  <2>4. CallKnows(i)'
    BY <1>1, <2>1, <2>2, <2>3 DEF CallKnows, StoreTypeOK
  <2>. QED  BY <1>1, <2>2, <2>4, QuietAgain
<1>3. CASE LoadToSave(i)
  <2>1. load_connections = file /\ form' = "whole"
    BY <1>1, <1>3, QuietLoads DEF LoadToSave
  <2>2. CallKnows(i)'
    BY <1>1, <1>3, <2>1 DEF LoadToSave, CallKnows, StoreTypeOK
  <2>. QED  BY <1>1, <2>1, <2>2, QuietAgain
<1>4. CASE LoadToRemove(i)
  <2>1. load_connections = file /\ form' = "whole"
    BY <1>1, <1>4, QuietLoads DEF LoadToRemove
  <2>2. CallKnows(i)'
    BY <1>1, <1>4, <2>1 DEF LoadToRemove, CallKnows, StoreTypeOK
  <2>. QED  BY <1>1, <2>1, <2>2, QuietAgain
<1>5. CASE OpenFile(i)
  <2>1. at[i] = "loaded" /\ at'[i] = "opened" /\ form' = "empty"
        /\ UNCHANGED <<keyring, arg, list>>
    BY <1>5 DEF OpenFile, StoreTypeOK
  <2>2. arg[i].data = None => \A e \in list[i] : e.key # arg[i].key
    BY <1>1, <2>1 DEF CallKnows, Removed
  <2>3. CallKnows(i)'
    BY <1>1, <2>1, <2>2 DEF CallKnows
  <2>. QED  BY <1>1, <2>1, <2>3, QuietAgain
<1>6. CASE WriteFile(i)
  <2>1. at[i] = "opened" /\ form = "empty"
    BY <1>1, <1>6 DEF WriteFile, CallKnows
  <2>2. file' = list[i] /\ form' = "whole"
    BY <1>6, <2>1 DEF WriteFile
  <2>3. CASE arg[i].data # None
    <3>1. at'[i] = "idle"
      BY <1>6, <2>3 DEF WriteFile, StoreTypeOK
    <3>. QED  BY <1>1, <2>2, <3>1, QuietAgain DEF CallKnows
  <2>4. CASE arg[i].data = None
    <3>1. at'[i] = "written" /\ arg'[i] = arg[i]
      BY <1>6, <2>4 DEF WriteFile, StoreTypeOK
    <3>2. CallKnows(i)'
      BY <1>1, <2>1, <2>2, <2>4, <3>1 DEF CallKnows
    <3>. QED  BY <1>1, <2>2, <3>2, QuietAgain
  <2>. QED  BY <2>3, <2>4
<1>7. CASE ForgetPassword(i)
  <2>1. form' = "whole" /\ at'[i] = "idle"
    BY <1>1, <1>7, QuietLoads DEF ForgetPassword, StoreTypeOK
  <2>. QED  BY <1>1, <2>1, QuietAgain DEF CallKnows
<1>8. CASE Die(i)
  <2>1. at[i] # "opened" /\ at'[i] = "idle"
    BY <1>8 DEF Die, StoreTypeOK
  <2>2. form' = form /\ form = "whole"
    BY <1>1, <1>8, <2>1, QuietLoads DEF Die
  <2>. QED  BY <1>1, <2>1, <2>2, QuietAgain DEF CallKnows
<1>. QED  BY <1>2, <1>3, <1>4, <1>5, <1>6, <1>7, <1>8 DEF StoreStep

LEMMA NextKeepsQuiet ==
  ASSUME StoreInv, QuietInv, [StoreNext]_storeVars
  PROVE  QuietInv'
<1>1. CASE disturbed'
  BY <1>1 DEF QuietInv
<1>2. CASE UNCHANGED storeVars
  BY <1>2 DEF storeVars, QuietInv, Alone, CallKnows
<1>3. CASE ~disturbed' /\ StoreNext
  <2>1. PICK i \in Instance : CallStep(i) \/ StoreStep(i) \/ Die(i)
    BY <1>3 DEF StoreNext
  <2>. QED  BY <1>3, <2>1, CallKeepsQuiet, StepKeepsQuiet
<1>. QED  BY <1>1, <1>2, <1>3

-----------------------------------------------------------------------------
\* Lookup() in connections es with a keyring kr.
Find(es, kr, k) ==
  IF \E e \in es : e.key = k
    THEN LET e == CHOOSE e \in es : e.key = k
         IN  <<e.data, IF e.password # None THEN e.password ELSE kr[e.key]>>
    ELSE None

LEMMA FindThe ==
  ASSUME NEW es, IsUnique(es), NEW e \in es, NEW kr
  PROVE  Find(es, kr, e.key)
           = <<e.data, IF e.password # None THEN e.password ELSE kr[e.key]>>
<1>. DEFINE c == CHOOSE d \in es : d.key = e.key
<1>1. c \in es /\ c.key = e.key
  OBVIOUS
<1>2. c = e
  BY <1>1 DEF IsUnique
<1>. QED  BY <1>2 DEF Find

LEMMA FindNone ==
  ASSUME NEW es, NEW k, NEW kr, \A e \in es : e.key # k
  PROVE  Find(es, kr, k) = None
  BY DEF Find

\* What is found depends on the entries of the key and its password only.
LEMMA FindSame ==
  ASSUME NEW es, IsUnique(es), NEW fs, IsUnique(fs), NEW k, NEW kr, NEW lr,
         {e \in es : e.key = k} = {e \in fs : e.key = k},
         kr[k] = lr[k]
  PROVE  Find(es, kr, k) = Find(fs, lr, k)
<1>1. CASE \E e \in es : e.key = k
  <2>1. PICK e \in es : e.key = k
    BY <1>1
  <2>2. e \in fs
    BY <2>1
  <2>. DEFINE pair(r) == <<e.data, IF e.password # None THEN e.password ELSE r[e.key]>>
  <2>3. Find(es, kr, k) = pair(kr)
    BY <2>1, FindThe
  <2>4. Find(fs, lr, k) = pair(lr)
    BY <2>1, <2>2, FindThe
  <2>5. pair(kr) = pair(lr)
    BY <2>1
  <2>. QED  BY <2>3, <2>4, <2>5
<1>2. CASE ~\E e \in es : e.key = k
  <2>1. \A e \in es : e.key # k
    BY <1>2
  <2>2. \A e \in fs : e.key # k
    BY <2>1
  <2>. QED  BY <2>1, <2>2, FindNone
<1>. QED  BY <1>1, <1>2

\* The update of a list, seen through Find.
LEMMA FindSaved ==
  ASSUME NEW es, IsUnique(es), NEW e, NEW k, NEW kr
  PROVE  Find(Saved(es, e), kr, k) =
           IF k = e.key
             THEN <<e.data, IF e.password # None THEN e.password ELSE kr[e.key]>>
             ELSE Find(es, kr, k)
<1>1. IsUnique(Saved(es, e)) /\ e \in Saved(es, e)
  BY UniqueAfter DEF Saved
<1>2. k # e.key => {d \in Saved(es, e) : d.key = k} = {d \in es : d.key = k}
  BY DEF Saved
<1>3. CASE k = e.key
  BY <1>1, <1>3, FindThe
<1>4. CASE k # e.key
  BY <1>1, <1>2, <1>4, FindSame
<1>. QED  BY <1>3, <1>4

LEMMA FindRemoved ==
  ASSUME NEW es, IsUnique(es), NEW r, NEW k, NEW kr
  PROVE  Find(Removed(es, r), kr, k) = IF k = r THEN None ELSE Find(es, kr, k)
<1>1. IsUnique(Removed(es, r))
  BY UniqueAfter
<1>2. CASE k = r
  <2>1. \A e \in Removed(es, r) : e.key # k
    BY <1>2 DEF Removed
  <2>. QED  BY <1>2, <2>1, FindNone
<1>3. CASE k # r
  <2>1. {d \in Removed(es, r) : d.key = k} = {d \in es : d.key = k}
    BY <1>3 DEF Removed
  <2>. QED  BY <1>1, <1>3, <2>1, FindSame
<1>. QED  BY <1>2, <1>3

-----------------------------------------------------------------------------
\* The map while only i is busy.
Now(i) == IF at[i] = "opened" THEN list[i] ELSE load_connections

ViewAt(i, k) ==
  IF HalfSaved(i) /\ arg[i].key = k
    THEN <<arg[i].data, arg[i].data>>
    ELSE Find(Now(i), keyring, k)

View(i) == [k \in Key |-> ViewAt(i, k)]

CallOf(i) ==
  IF at[i] = "idle" THEN None
  ELSE [key |-> arg[i].key,
        value |-> IF arg[i].data = None THEN None ELSE <<arg[i].data, arg[i].data>>,
        done |-> HalfSaved(i) \/ at[i] \in {"opened", "written"}]

LEMMA MapIsView == \A i \in Instance : Alone(i) => MapStore = View(i)
<1>. SUFFICES ASSUME NEW i \in Instance, Alone(i) PROVE MapStore = View(i)
  OBVIOUS
<1>1. \A j \in Instance : at[j] = "opened" => j = i
  BY DEF Alone
<1>2. Contents = Now(i)
  <2>1. CASE at[i] = "opened"
    <3>1. (CHOOSE j \in Instance : at[j] = "opened") = i
      BY <1>1, <2>1
    <3>. QED  BY <2>1, <3>1 DEF Contents, Now
  <2>2. CASE at[i] # "opened"
    BY <1>1, <2>2 DEF Contents, Now
  <2>. QED  BY <2>1, <2>2
<1>3. ASSUME NEW k \in Key
      PROVE  MapStore[k] = ViewAt(i, k)
  <2>1. Pending(k) = IF HalfSaved(i) /\ arg[i].key = k THEN {i} ELSE {}
    BY DEF Pending, HalfSaved, Alone
  <2>2. CASE HalfSaved(i) /\ arg[i].key = k
    <3>1. Pending(k) # {} /\ (CHOOSE j \in Pending(k) : TRUE) = i
      BY <2>1, <2>2
    <3>. QED  BY <2>2, <3>1 DEF MapStore, ViewAt
  <2>3. CASE ~(HalfSaved(i) /\ arg[i].key = k)
    <3>1. Lookup(Contents, k) = Find(Contents, keyring, k)
      BY DEF Lookup, Find, resolved_password
    <3>. QED  BY <1>2, <2>1, <2>3, <3>1 DEF MapStore, ViewAt
  <2>. QED  BY <2>2, <2>3
<1>. QED  BY <1>3 DEF MapStore, View

LEMMA MapIsViewNext == (\A i \in Instance : Alone(i) => MapStore = View(i))'
  BY MapIsView, PTL

\* A step of i takes the map from one view to the next, and changes no call but
\* that of i.
LEMMA StepChangesView ==
  ASSUME QuietInv, ~disturbed', StoreInv, NEW i \in Instance,
         CallStep(i) \/ StoreStep(i) \/ Die(i)
  PROVE  /\ MapStore = View(i) /\ MapStore' = View(i)'
         /\ MapCall[i] = CallOf(i)
         /\ MapCall' = [MapCall EXCEPT ![i] = CallOf(i)']
<1>1. Alone(i) /\ Alone(i)'
  BY AloneBefore
<1>2. MapStore = View(i) /\ MapStore' = View(i)'
  BY <1>1, MapIsView, MapIsViewNext
<1>3. /\ MapCall = [j \in Instance |-> CallOf(j)]
      /\ MapCall' = [j \in Instance |-> CallOf(j)']
  BY DEF MapCall, CallOf
<1>4. \A j \in Instance : j # i => CallOf(j)' = None /\ CallOf(j) = None
  BY <1>1 DEF Alone, CallOf
<1>. HIDE DEF CallOf
<1>. QED  BY <1>2, <1>3, <1>4

\* Nothing changes for the map, or it does what one of its actions may.
LEMMA StutterOf ==
  ASSUME QuietInv, ~disturbed', StoreInv, NEW i \in Instance,
         CallStep(i) \/ StoreStep(i) \/ Die(i),
         View(i)' = View(i), CallOf(i)' = CallOf(i), deaths' = deaths
  PROVE  UNCHANGED <<MapStore, MapCall, deaths>>
<1>1. MapCall' = [MapCall EXCEPT ![i] = MapCall[i]]
  BY StepChangesView
<1>2. [MapCall EXCEPT ![i] = MapCall[i]] = MapCall
  BY DEF MapCall
<1>. QED  BY <1>1, <1>2, StepChangesView

LEMMA ReturnOf ==
  ASSUME QuietInv, ~disturbed', StoreInv, NEW i \in Instance,
         CallStep(i) \/ StoreStep(i) \/ Die(i),
         View(i)' = View(i), CallOf(i)' = None, CallOf(i) # None
  PROVE  /\ deaths' = deaths + 1 => Map!Die(i)
         /\ deaths' = deaths /\ CallOf(i).done => Map!Return(i)
  BY StepChangesView DEF Map!Die, Map!Return

LEMMA ApplyOf ==
  ASSUME QuietInv, ~disturbed', StoreInv, NEW i \in Instance,
         CallStep(i) \/ StoreStep(i) \/ Die(i),
         NEW k, NEW v, CallOf(i) = [key |-> k, value |-> v, done |-> FALSE],
         CallOf(i)' = [key |-> k, value |-> v, done |-> TRUE],
         CallOf(i) # None,
         View(i)' = [View(i) EXCEPT ![k] = v],
         deaths' = deaths
  PROVE  Map!Apply(i)
<1>1. /\ MapStore = View(i) /\ MapStore' = View(i)'
      /\ MapCall[i] = CallOf(i)
      /\ MapCall' = [MapCall EXCEPT ![i] = CallOf(i)']
  BY StepChangesView
<1>2. /\ MapCall[i].key = k /\ MapCall[i].value = v /\ MapCall[i].done = FALSE
      /\ MapCall[i] # None
  BY <1>1
<1>3. Map!Call(MapCall[i].key, MapCall[i].value, TRUE) = CallOf(i)'
  BY <1>2 DEF Map!Call
<1>4. MapStore' = [MapStore EXCEPT ![MapCall[i].key] = MapCall[i].value]
  BY <1>1, <1>2
<1>5. MapCall' = [MapCall EXCEPT ![i] = Map!Call(MapCall[i].key, MapCall[i].value, TRUE)]
  BY <1>1, <1>3
<1>. QED  BY <1>2, <1>4, <1>5 DEF Map!Apply

\* A call that is under way is one of the map's, which are not None.
LEMMA CallIsNotNone ==
  ASSUME StoreInv, NEW i \in Instance, at[i] # "idle"
  PROVE  CallOf(i) # None
<1>1. /\ arg[i].key \in Key /\ arg[i].data \in (1..CallMax) \cup {None}
  BY ArgType DEF Version
<1>. DEFINE v == IF arg[i].data = None THEN None ELSE <<arg[i].data, arg[i].data>>
            d == HalfSaved(i) \/ at[i] \in {"opened", "written"}
<1>2. v \in (1..CallMax) \X (1..CallMax) \cup {None}
  BY <1>1
<1>3. d \in BOOLEAN
  BY DEF HalfSaved
<1>4. CallOf(i) = [key |-> arg[i].key, value |-> v, done |-> d]
  BY DEF CallOf
<1>. HIDE DEF v, d
<1>5. [key |-> arg[i].key, value |-> v, done |-> d]
        \in [key : Key, value : (1..CallMax) \X (1..CallMax) \cup {None},
             done : BOOLEAN]
  BY <1>1, <1>2, <1>3
<1>. QED  BY <1>4, <1>5, StoreAssumption

\* The call of a save or a removal begins a call of the map.
LEMMA CallRefines ==
  ASSUME StoreInv, QuietInv, ~disturbed', NEW i \in Instance, CallStep(i)
  PROVE  Map!Next
<1>1. PICK k \in Key : CallRemove(i, k) \/ CallSave(i, k)
  BY DEF CallStep
<1>2. /\ at[i] = "idle" /\ at'[i] \in {"called", "removing"}
      /\ UNCHANGED <<file, form, keyring, list, deaths>>
  BY <1>1 DEF CallRemove, CallSave, Calling, StoreInv, StoreTypeOK
<1>3. View(i)' = View(i)
  BY <1>2 DEF View, ViewAt, HalfSaved, Now, load_connections
<1>4. CallOf(i) = None
  BY <1>2 DEF CallOf
<1>5. CASE CallRemove(i, k)
  <2>1. CallOf(i)' = [key |-> k, value |-> None, done |-> FALSE]
    BY <1>2, <1>5 DEF CallOf, CallRemove, Calling, HalfSaved, StoreInv, StoreTypeOK
  <2>2. Map!Begin(i)
    BY <1>2, <1>3, <1>4, <2>1, StepChangesView DEF Map!Begin, Map!Call
  <2>. QED  BY <2>2 DEF Map!Next
<1>6. CASE CallSave(i, k)
  <2>1. calls + 1 \in Version /\ calls + 1 # None
    BY <1>6, Bounds DEF CallSave, Calling, StoreInv, StoreTypeOK, Version
  <2>2. CallOf(i)' = [key |-> k, value |-> <<calls + 1, calls + 1>>, done |-> FALSE]
    BY <1>2, <1>6, <2>1 DEF CallOf, CallSave, Calling, HalfSaved, StoreInv, StoreTypeOK
  <2>3. Map!Begin(i)
    BY <1>2, <1>3, <1>4, <2>1, <2>2, StepChangesView DEF Map!Begin, Map!Call
  <2>. QED  BY <2>1, <2>3 DEF Map!Next
<1>. QED  BY <1>1, <1>5, <1>6

\* What i has in its call, and what the map makes of it.
LEMMA CallParts ==
  ASSUME StoreInv, NEW i \in Instance, at[i] # "idle"
  PROVE  /\ arg[i].key \in Key
         /\ arg[i].data = None \/ arg[i].data \in Version
         /\ load_connections \in SUBSET Entry /\ IsUnique(load_connections)
         /\ IsUnique(list[i])
  BY ArgType, LoadsUnique DEF StoreInv

LEMMA ViewChange ==
  ASSUME NEW i \in Instance, NEW k, NEW v, ViewAt(i, k)' = v,
         \A l \in Key : l # k => ViewAt(i, l)' = ViewAt(i, l)
  PROVE  View(i)' = [View(i) EXCEPT ![k] = v]
<1>1. View(i)' = [l \in Key |-> ViewAt(i, l)'] /\ View(i) = [l \in Key |-> ViewAt(i, l)]
  BY DEF View
<1>. QED  BY <1>1

LEMMA StorePasswordRefines ==
  ASSUME StoreInv, QuietInv, ~disturbed', NEW i \in Instance, StorePassword(i)
  PROVE  [Map!Next]_<<MapStore, MapCall, deaths>>
<1>0. PICK k, d : k = arg[i].key /\ d = arg[i].data
  OBVIOUS
<1>1. /\ ~disturbed /\ CallKnows(i) /\ StoreStep(i)
      /\ at[i] = "called" /\ at'[i] = "stored"
      /\ UNCHANGED <<file, form, list, deaths>>
  BY AloneBefore DEF StorePassword, StoreStep, QuietInv, StoreInv, StoreTypeOK
<1>2. /\ arg[i] \in Entry /\ k \in Key /\ d \in Version /\ d # None
      /\ arg[i].password = d
  BY <1>0, <1>1, ArgType, Bounds DEF Entry, CallKnows
<1>3. CallOf(i) = [key |-> k, value |-> <<d, d>>, done |-> FALSE]
  BY <1>0, <1>1, <1>2 DEF CallOf, HalfSaved
<1>4. CASE UNCHANGED <<keyring, arg>>
  <2>1. ~HalfSaved(i) /\ ~HalfSaved(i)'
    BY <1>0, <1>1, <1>2, <1>4 DEF HalfSaved
  <2>2. View(i)' = View(i)
    BY <1>1, <1>4, <2>1 DEF View, ViewAt, Now, load_connections
  <2>3. CallOf(i)' = CallOf(i)
    BY <1>1, <1>4, <2>1 DEF CallOf
  <2>. QED  BY <1>1, <2>2, <2>3, StutterOf
<1>5. CASE ~UNCHANGED <<keyring, arg>>
  <2>1. /\ keyring' = [keyring EXCEPT ![k] = d]
        /\ arg'[i].key = k /\ arg'[i].data = d /\ arg'[i].password = None
    BY <1>0, <1>2, <1>5 DEF StorePassword, StoreInv, StoreTypeOK, Entry
  <2>2. ~HalfSaved(i) /\ HalfSaved(i)'
    BY <1>0, <1>1, <1>2, <2>1 DEF HalfSaved
  <2>3. ASSUME NEW l \in Key, l # k
        PROVE  ViewAt(i, l)' = ViewAt(i, l)
    <3>1. keyring'[l] = keyring[l]
      BY <2>1, <2>3 DEF StoreInv, StoreTypeOK
    <3>2. Find(load_connections, keyring', l) = Find(load_connections, keyring, l)
      BY <3>1, FindSame, LoadsUnique
    <3>3. load_connections' = load_connections
      BY <1>1 DEF load_connections
    <3>. QED  BY <1>0, <1>1, <2>1, <2>2, <2>3, <3>2, <3>3 DEF ViewAt, Now
  <2>4. ViewAt(i, k)' = <<d, d>>
    BY <2>1, <2>2 DEF ViewAt
  <2>5. View(i)' = [View(i) EXCEPT ![k] = <<d, d>>]
    BY <2>3, <2>4, ViewChange
  <2>6. CallOf(i)' = [key |-> k, value |-> <<d, d>>, done |-> TRUE]
    BY <1>1, <1>2, <2>1, <2>2 DEF CallOf
  <2>7. CallOf(i) # None
    BY <1>1, CallIsNotNone
  <2>8. Map!Apply(i)
    BY <1>1, <1>3, <2>5, <2>6, <2>7, ApplyOf
  <2>. QED  BY <2>8 DEF Map!Next
<1>. QED  BY <1>4, <1>5

LEMMA LoadRefines ==
  ASSUME StoreInv, QuietInv, ~disturbed', NEW i \in Instance,
         LoadToSave(i) \/ LoadToRemove(i)
  PROVE  [Map!Next]_<<MapStore, MapCall, deaths>>
<1>1. /\ ~disturbed /\ CallKnows(i) /\ StoreStep(i)
      /\ at[i] \in {"stored", "removing"} /\ at'[i] = "loaded"
      /\ UNCHANGED <<file, form, keyring, arg, deaths>>
  BY AloneBefore DEF LoadToSave, LoadToRemove, StoreStep, QuietInv, StoreInv, StoreTypeOK
<1>2. HalfSaved(i)' = HalfSaved(i)
  BY <1>1 DEF HalfSaved, CallKnows
<1>3. View(i)' = View(i)
  BY <1>1, <1>2 DEF View, ViewAt, Now, load_connections
<1>4. CallOf(i)' = CallOf(i)
  BY <1>1, <1>2 DEF CallOf
<1>. QED  BY <1>1, <1>3, <1>4, StutterOf

\* The write, as far as the map sees it, is done when the file is opened: nobody
\* reads it before it is written.
LEMMA OpenRefines ==
  ASSUME StoreInv, QuietInv, ~disturbed', NEW i \in Instance, OpenFile(i)
  PROVE  [Map!Next]_<<MapStore, MapCall, deaths>>
<1>0. PICK k, d : k = arg[i].key /\ d = arg[i].data
  OBVIOUS
<1>1. /\ ~disturbed /\ Alone(i) /\ CallKnows(i) /\ StoreStep(i)
      /\ at[i] = "loaded" /\ at'[i] = "opened"
      /\ UNCHANGED <<keyring, arg, list, deaths>>
  BY AloneBefore DEF OpenFile, StoreStep, QuietInv, StoreInv, StoreTypeOK
<1>2. load_connections = file /\ IsUnique(file)
  BY <1>1, QuietLoads, LoadsUnique
<1>3. ~HalfSaved(i)' /\ CallOf(i) # None
  BY <1>1, CallIsNotNone DEF HalfSaved
<1>4. \A l \in Key : ViewAt(i, l)' = Find(list[i], keyring, l)
  BY <1>1, <1>3 DEF ViewAt, Now
<1>5. \A l \in Key : l # k => ViewAt(i, l) = Find(file, keyring, l)
  BY <1>0, <1>1, <1>2 DEF ViewAt, Now
<1>6. k \in Key
  BY <1>0, <1>1, CallParts
<1>7. CASE d # None
  <2>1. list[i] = Saved(file, arg[i])
    BY <1>0, <1>1, <1>7 DEF CallKnows
  <2>2. ViewAt(i, k)' = <<d, d>>
    BY <1>0, <1>1, <1>2, <1>4, <1>6, <1>7, <2>1, FindSaved DEF CallKnows
  <2>3. \A l \in Key : l # k => ViewAt(i, l)' = ViewAt(i, l)
    BY <1>0, <1>2, <1>4, <1>5, <2>1, FindSaved
  <2>4. View(i)' = [View(i) EXCEPT ![k] = <<d, d>>]
    BY <2>2, <2>3, ViewChange
  <2>5. CallOf(i)' = [key |-> k, value |-> <<d, d>>, done |-> TRUE]
    BY <1>0, <1>1, <1>7 DEF CallOf
  <2>6. CASE HalfSaved(i)
    <3>1. ViewAt(i, k) = <<d, d>>
      BY <1>0, <2>6 DEF ViewAt
    <3>2. View(i)' = View(i)
      BY <2>4, <3>1 DEF View
    <3>3. CallOf(i)' = CallOf(i)
      BY <1>0, <1>1, <1>7, <2>5, <2>6 DEF CallOf
    <3>. QED  BY <1>1, <3>2, <3>3, StutterOf
  <2>7. CASE ~HalfSaved(i)
    <3>1. CallOf(i) = [key |-> k, value |-> <<d, d>>, done |-> FALSE]
      BY <1>0, <1>1, <1>7, <2>7 DEF CallOf
    <3>2. Map!Apply(i)
      BY <1>1, <1>3, <2>4, <2>5, <3>1, ApplyOf
    <3>. QED  BY <3>2 DEF Map!Next
  <2>. QED  BY <2>6, <2>7
<1>8. CASE d = None
  <2>1. list[i] = Removed(file, k)
    BY <1>0, <1>1, <1>8 DEF CallKnows
  <2>2. ViewAt(i, k)' = None
    BY <1>2, <1>4, <1>6, <2>1, FindRemoved
  <2>3. \A l \in Key : l # k => ViewAt(i, l)' = ViewAt(i, l)
    BY <1>2, <1>4, <1>5, <2>1, FindRemoved
  <2>4. View(i)' = [View(i) EXCEPT ![k] = None]
    BY <2>2, <2>3, ViewChange
  <2>5. CallOf(i)' = [key |-> k, value |-> None, done |-> TRUE]
    BY <1>0, <1>1, <1>8 DEF CallOf
  <2>6. CallOf(i) = [key |-> k, value |-> None, done |-> FALSE]
    BY <1>0, <1>1, <1>8 DEF CallOf, HalfSaved
  <2>7. Map!Apply(i)
    BY <1>1, <1>3, <2>4, <2>5, <2>6, ApplyOf
  <2>. QED  BY <2>7 DEF Map!Next
<1>. QED  BY <1>7, <1>8

LEMMA WriteRefines ==
  ASSUME StoreInv, QuietInv, ~disturbed', NEW i \in Instance, WriteFile(i)
  PROVE  [Map!Next]_<<MapStore, MapCall, deaths>>
<1>1. /\ ~disturbed /\ CallKnows(i) /\ StoreStep(i)
      /\ at[i] = "opened" /\ UNCHANGED <<keyring, deaths>>
  BY AloneBefore DEF WriteFile, StoreStep, QuietInv
<1>2. file' = list[i] /\ form' = "whole"
  BY <1>1 DEF WriteFile, CallKnows
<1>3. at'[i] = (IF arg[i].data # None THEN "idle" ELSE "written")
  BY DEF WriteFile, StoreInv, StoreTypeOK
<1>4. ~HalfSaved(i) /\ ~HalfSaved(i)'
  BY <1>1, <1>3 DEF HalfSaved
<1>5. Now(i)' = Now(i)
  BY <1>1, <1>2, <1>3 DEF Now, load_connections
<1>6. View(i)' = View(i)
  BY <1>1, <1>4, <1>5 DEF View, ViewAt
<1>7. CASE arg[i].data # None
  <2>1. CallOf(i)' = None /\ CallOf(i) # None /\ CallOf(i).done
    BY <1>1, <1>3, <1>7, CallIsNotNone DEF CallOf
  <2>2. Map!Return(i)
    BY <1>1, <1>6, <2>1, ReturnOf
  <2>. QED  BY <2>2 DEF Map!Next
<1>8. CASE arg[i].data = None
  <2>1. arg'[i] = arg[i]
    BY <1>8 DEF WriteFile, StoreInv, StoreTypeOK
  <2>2. CallOf(i)' = CallOf(i)
    BY <1>1, <1>3, <1>8, <2>1 DEF CallOf
  <2>. QED  BY <1>1, <1>6, <2>2, StutterOf
<1>. QED  BY <1>7, <1>8

LEMMA ForgetRefines ==
  ASSUME StoreInv, QuietInv, ~disturbed', NEW i \in Instance, ForgetPassword(i)
  PROVE  [Map!Next]_<<MapStore, MapCall, deaths>>
<1>1. /\ ~disturbed /\ Alone(i) /\ CallKnows(i) /\ StoreStep(i)
      /\ at[i] = "written" /\ at'[i] = "idle"
      /\ UNCHANGED <<file, form, deaths>>
  BY AloneBefore DEF ForgetPassword, StoreStep, QuietInv, StoreInv, StoreTypeOK
<1>2. load_connections = file /\ load_connections' = file /\ IsUnique(file)
  BY <1>1, QuietLoads, LoadsUnique DEF load_connections
<1>3. ~HalfSaved(i) /\ ~HalfSaved(i)'
  BY <1>1 DEF HalfSaved
<1>4. ASSUME NEW l \in Key
      PROVE  ViewAt(i, l)' = ViewAt(i, l)
  <2>1. ViewAt(i, l) = Find(file, keyring, l) /\ ViewAt(i, l)' = Find(file, keyring', l)
    BY <1>1, <1>2, <1>3 DEF ViewAt, Now
  <2>2. CASE l = arg[i].key
    <3>1. \A e \in file : e.key # l
      BY <1>1, <2>2 DEF CallKnows
    <3>. QED  BY <2>1, <3>1, FindNone
  <2>3. CASE l # arg[i].key
    <3>1. keyring'[l] = keyring[l]
      BY <2>3 DEF ForgetPassword, StoreInv, StoreTypeOK
    <3>. QED  BY <1>2, <2>1, <3>1, FindSame
  <2>. QED  BY <2>2, <2>3
<1>5. View(i)' = View(i)
  BY <1>4 DEF View
<1>6. CallOf(i)' = None /\ CallOf(i) # None /\ CallOf(i).done
  BY <1>1, CallIsNotNone DEF CallOf
<1>7. Map!Return(i)
  BY <1>1, <1>5, <1>6, ReturnOf
<1>. QED  BY <1>7 DEF Map!Next

\* A death that disturbs nothing is one of a call that has taken effect as a
\* whole, or not at all.
LEMMA DieRefines ==
  ASSUME StoreInv, QuietInv, ~disturbed', NEW i \in Instance, Die(i)
  PROVE  [Map!Next]_<<MapStore, MapCall, deaths>>
<1>1. /\ at[i] \notin {"idle", "opened"} /\ at'[i] = "idle" /\ ~HalfSaved(i)
      /\ deaths' = deaths + 1 /\ UNCHANGED <<file, form, keyring>>
  BY DEF Die, HalfSaved, StoreInv, StoreTypeOK
<1>2. ~HalfSaved(i)'
  BY <1>1 DEF HalfSaved
<1>3. View(i)' = View(i)
  BY <1>1, <1>2 DEF View, ViewAt, Now, load_connections
<1>4. CallOf(i)' = None /\ CallOf(i) # None
  BY <1>1, CallIsNotNone DEF CallOf
<1>5. Map!Die(i)
  BY <1>1, <1>3, <1>4, ReturnOf
<1>. QED  BY <1>5 DEF Map!Next

LEMMA StepRefines ==
  ASSUME StoreInv, QuietInv, [StoreNext]_storeVars
  PROVE  [disturbed' \/ Map!Next]_<<MapStore, MapCall, deaths>>
<1>1. CASE disturbed'
  BY <1>1
<1>2. CASE UNCHANGED storeVars
  <2>1. MapStore' = MapStore
    BY <1>2 DEF storeVars, MapStore, Pending, HalfSaved, Lookup, Contents,
                load_connections, resolved_password
  <2>2. MapCall' = MapCall /\ deaths' = deaths
    BY <1>2 DEF storeVars, MapCall, HalfSaved
  <2>. QED  BY <2>1, <2>2
<1>3. CASE ~disturbed' /\ StoreNext
  <2>1. PICK i \in Instance : CallStep(i) \/ StoreStep(i) \/ Die(i)
    BY <1>3 DEF StoreNext
  <2>2. CASE CallStep(i)
    BY <1>3, <2>2, CallRefines
  <2>3. CASE StoreStep(i)
    BY <1>3, <2>3, StorePasswordRefines, LoadRefines, OpenRefines, WriteRefines,
       ForgetRefines DEF StoreStep
  <2>4. CASE Die(i)
    BY <1>3, <2>4, DieRefines
  <2>. QED  BY <2>1, <2>2, <2>3, <2>4
<1>. QED  BY <1>1, <1>2, <1>3

LEMMA InitRefines == StoreInit => Map!Init
<1>. SUFFICES ASSUME StoreInit PROVE Map!Init
  OBVIOUS
<1>1. MapStore = [k \in Key |-> None]
  BY DEF StoreInit, MapStore, Pending, HalfSaved, Lookup, Contents, load_connections
<1>2. MapCall = [i \in Instance |-> None] /\ deaths = 0
  BY DEF StoreInit, MapCall
<1>. QED  BY <1>1, <1>2 DEF Map!Init

\* The store is a map: as long as no two instances change it at a time and none
\* dies in the middle, each save and each removal takes effect once, on its own
\* key only, settings and password together.
THEOREM StoreIsAMap == StoreSpec => IsAMap
<1>. DEFINE Inv == StoreInv /\ QuietInv
<1>1. StoreInit => Inv /\ Map!Init
  BY InitEstablishesInv, QuietInit, InitRefines
<1>2. Inv /\ [StoreNext]_storeVars => Inv'
  BY NextKeepsInv, NextKeepsQuiet
<1>3. Inv /\ [StoreNext]_storeVars =>
        [UNCHANGED storeVars \/ disturbed' \/ Map!Next]_<<MapStore, MapCall, deaths>>
  BY StepRefines
<1>. HIDE DEF Inv
<1>. QED  BY <1>1, <1>2, <1>3, PTL DEF StoreSpec, IsAMap
=============================================================================
