--------------------------- MODULE ConnectionsStore ---------------------------
(***************************************************************************)
(* core/connections_store.py: the saved connections in connections.json    *)
(* and their passwords in the system's keyring.  Instances of the          *)
(* application share both and lock neither.  A step is what an instance    *)
(* does to the file or to the keyring; between two of them another one may *)
(* run, and the instance may be killed or fail to write.                   *)
(*                                                                         *)
(* A connection is its key and a version, which stands for everything the  *)
(* user types in, password included, and is new with each save.  The order *)
(* of the list is layout: the file is a set of entries.                    *)
(***************************************************************************)
EXTENDS Naturals, FiniteSets

CONSTANTS
  Instance,  \* the running instances of the application
  Key,       \* (label, host, service)
  None,      \* no password, no call
  CallMax,   \* bound: the calls of save_connection() and remove_connection()
  DeathMax   \* bound: the instances that die in the middle of a call

ASSUME StoreAssumption ==
  /\ CallMax \in Nat
  /\ DeathMax \in Nat
  /\ None \notin 1..CallMax
  /\ None \notin [key : Key, data : 1..CallMax \cup {None},
                  password : 1..CallMax \cup {None}]
  /\ None \notin [key : Key, value : (1..CallMax) \X (1..CallMax) \cup {None},
                  done : BOOLEAN]

VARIABLES
  hasKeyring,  \* _HAS_KEYRING
  file,        \* what load_connections() reads
  form,        \* "whole"; truncated: "empty"; or of two writers: "garbage"
  keyring,     \* keyring[k]: the password under that key
  at,          \* at[i]: the step i has come to
  arg,         \* arg[i]: the connection i saves or removes
  list,        \* list[i]: the connections i is going to write
  calls, deaths,
  disturbed    \* history: two calls overlapped, or one was cut in the middle

storeVars == <<hasKeyring, file, form, keyring, at, arg, list, calls, deaths,
               disturbed>>

\* What a user types in at a save.
Version == 1..CallMax

Entry == [key : Key, data : Version, password : Version \cup {None}]

\* save: called, stored, loaded, opened; remove: removing, loaded, opened,
\* written.
Place == {"idle", "called", "stored", "removing", "loaded", "opened", "written"}

StoreTypeOK ==
  /\ hasKeyring \in BOOLEAN
  /\ file \in SUBSET Entry
  /\ form \in {"whole", "empty", "garbage"}
  /\ keyring \in [Key -> Version \cup {None}]
  /\ at \in [Instance -> Place]
  /\ arg \in [Instance -> [key : Key, data : Version \cup {None},
                           password : Version \cup {None}] \cup {None}]
  /\ list \in [Instance -> SUBSET Entry]
  /\ calls \in 0..CallMax
  /\ deaths \in 0..DeathMax
  /\ disturbed \in BOOLEAN

StoreInit ==
  /\ hasKeyring \in BOOLEAN
  /\ file = {}
  /\ form = "whole"
  /\ keyring = [k \in Key |-> None]
  /\ at = [i \in Instance |-> "idle"]
  /\ arg = [i \in Instance |-> None]
  /\ list = [i \in Instance |-> {}]
  /\ calls = 0
  /\ deaths = 0
  /\ disturbed = FALSE

-----------------------------------------------------------------------------
(* Calls *)

\* A truncated or a garbled file reads as no connections.
load_connections == IF form = "whole" THEN file ELSE {}

Calling(i, step, a) ==
  /\ at[i] = "idle"
  /\ calls < CallMax
  /\ at' = [at EXCEPT ![i] = step]
  /\ arg' = [arg EXCEPT ![i] = a]
  /\ calls' = calls + 1
  /\ disturbed' = (disturbed \/ \E j \in Instance : at[j] # "idle")
  /\ UNCHANGED <<hasKeyring, file, form, keyring, list, deaths>>

\* save_connection(): the dialog asks for a password that is not empty.
CallSave(i, k) ==
  Calling(i, "called", [key |-> k, data |-> calls + 1, password |-> calls + 1])

CallRemove(i, k) ==
  Calling(i, "removing", [key |-> k, data |-> None, password |-> None])

\* _store_password(): the keyring takes the password, and the file will not
\* have it; or there is no keyring, or it fails.
StorePassword(i) ==
  /\ at[i] = "called"
  /\ at' = [at EXCEPT ![i] = "stored"]
  /\ \/ /\ hasKeyring
        /\ keyring' = [keyring EXCEPT ![arg[i].key] = arg[i].password]
        /\ arg' = [arg EXCEPT ![i].password = None]
     \/ UNCHANGED <<keyring, arg>>
  /\ UNCHANGED <<hasKeyring, file, form, list, calls, deaths, disturbed>>

\* Mutant: the entry is added without a look for the one it updates.
SavedNextTo(entries, e) == entries \cup {e}

\* The entry with the same key is updated, or a new one is inserted.
Saved(entries, e) == {o \in entries : o.key # e.key} \cup {e}

Removed(entries, k) == {e \in entries : e.key # k}

LoadToSave(i) ==
  /\ at[i] = "stored"
  /\ at' = [at EXCEPT ![i] = "loaded"]
  /\ list' = [list EXCEPT ![i] = Saved(load_connections, arg[i])]
  /\ UNCHANGED <<hasKeyring, file, form, keyring, arg, calls, deaths, disturbed>>

LoadToRemove(i) ==
  /\ at[i] = "removing"
  /\ at' = [at EXCEPT ![i] = "loaded"]
  /\ list' = [list EXCEPT ![i] = Removed(load_connections, arg[i].key)]
  /\ UNCHANGED <<hasKeyring, file, form, keyring, arg, calls, deaths, disturbed>>

\* _write(): write_text() opens the file, which truncates it, ...
OpenFile(i) ==
  /\ at[i] = "loaded"
  /\ at' = [at EXCEPT ![i] = "opened"]
  /\ file' = {}
  /\ form' = "empty"
  /\ UNCHANGED <<hasKeyring, keyring, arg, list, calls, deaths, disturbed>>

\* ... and writes from its start: over what another instance has written
\* since, of which a tail may be left.  A save returns.
WriteFile(i) ==
  LET saving == arg[i].data # None
  IN  /\ at[i] = "opened"
      /\ \/ file' = list[i] /\ form' = "whole"
         \/ form # "empty" /\ file' = {} /\ form' = "garbage"
      /\ at' = [at EXCEPT ![i] = IF saving THEN "idle" ELSE "written"]
      /\ arg' = [arg EXCEPT ![i] = IF saving THEN None ELSE @]
      /\ list' = [list EXCEPT ![i] = {}]
      /\ UNCHANGED <<hasKeyring, keyring, calls, deaths, disturbed>>

\* The end of remove_connection(): a keyring that fails is ignored.
ForgetPassword(i) ==
  /\ at[i] = "written"
  /\ at' = [at EXCEPT ![i] = "idle"]
  /\ \/ hasKeyring /\ keyring' = [keyring EXCEPT ![arg[i].key] = None]
     \/ UNCHANGED keyring
  /\ arg' = [arg EXCEPT ![i] = None]
  /\ UNCHANGED <<hasKeyring, file, form, list, calls, deaths, disturbed>>

\* i is killed, or its write fails: before it has written anything into the file
\* it opened, which is then as it is, empty or written by another instance; or
\* in the middle.  A password may be new that belongs to settings that are not.
Die(i) ==
  /\ at[i] # "idle"
  /\ deaths < DeathMax
  /\ deaths' = deaths + 1
  /\ at' = [at EXCEPT ![i] = "idle"]
  /\ \/ UNCHANGED <<file, form>>
     \/ at[i] = "opened" /\ file' = {} /\ form' = "garbage"
  /\ disturbed' = ( \/ disturbed
                    \/ at[i] = "opened"
                    \/ at[i] \in {"stored", "loaded"} /\ arg[i].data # None
                                                      /\ arg[i].password = None )
  /\ arg' = [arg EXCEPT ![i] = None]
  /\ list' = [list EXCEPT ![i] = {}]
  /\ UNCHANGED <<hasKeyring, keyring, calls>>

StoreStep(i) ==
  \/ StorePassword(i) \/ LoadToSave(i) \/ LoadToRemove(i)
  \/ OpenFile(i) \/ WriteFile(i) \/ ForgetPassword(i)

CallStep(i) ==
  \E k \in Key : CallRemove(i, k) \/ CallSave(i, k)

StoreNext == \E i \in Instance : CallStep(i) \/ StoreStep(i) \/ Die(i)

StoreSpec == StoreInit /\ [][StoreNext]_storeVars

-----------------------------------------------------------------------------
(* The store as a map *)

\* resolved_password(): the file's, or else the keyring's.
resolved_password(e) ==
  IF e.password # None THEN e.password ELSE keyring[e.key]

\* What is saved under k in the connections es: settings and password.
Lookup(es, k) ==
  IF \E e \in es : e.key = k
    THEN LET e == CHOOSE e \in es : e.key = k
         IN  <<e.data, resolved_password(e)>>
    ELSE None

\* i has put the password of its call into the keyring, but not its entry
\* into the file.
HalfSaved(i) ==
  at[i] \in {"stored", "loaded"} /\ arg[i].data # None /\ arg[i].password = None

Pending(k) == {i \in Instance : HalfSaved(i) /\ arg[i].key = k}

\* The file as it is going to be, when a write is under way.
Contents ==
  IF \E i \in Instance : at[i] = "opened"
    THEN list[CHOOSE i \in Instance : at[i] = "opened"]
    ELSE load_connections

MapStore ==
  [k \in Key |->
     IF Pending(k) # {}
       THEN LET d == arg[CHOOSE i \in Pending(k) : TRUE].data IN <<d, d>>
       ELSE Lookup(Contents, k)]

MapCall ==
  [i \in Instance |->
     IF at[i] = "idle" THEN None
     ELSE [key |-> arg[i].key,
           value |-> IF arg[i].data = None THEN None
                     ELSE <<arg[i].data, arg[i].data>>,
           done |-> HalfSaved(i) \/ at[i] \in {"opened", "written"}]]

Map == INSTANCE ConnectionMap WITH
  Value <- Version \X Version, Absent <- None, store <- MapStore, call <- MapCall

-----------------------------------------------------------------------------
(* Properties *)

\* However instances overlap and die, and whether a write is whole, torn or
\* lost: the file never has two entries for one key, so that an update and a
\* removal mean the same connection.
OneEntryPerKey ==
  \A d, e \in file : d.key = e.key => d = e

\* As long as no two instances change the store at a time and none dies in the
\* middle, the store is a map: each save and each removal takes effect once,
\* on its own key only, with its settings and its password together, through
\* keyrings that fail and passwords that move between keyring and file.
IsAMap ==
  /\ Map!Init
  /\ [][ UNCHANGED storeVars \/ disturbed' \/ Map!Next ]_<<MapStore, MapCall, deaths>>
=============================================================================
