---------------------------- MODULE ConnectionMap ----------------------------
(***************************************************************************)
(* What the store of saved connections promises to the instances of the    *)
(* application that share it: a map from keys to what was saved last, in   *)
(* which a save or a removal takes effect at once, some time between its   *)
(* call and its return, and changes no other key.                          *)
(***************************************************************************)
EXTENDS Naturals

CONSTANTS
  Instance,  \* the running instances of the application
  Key,       \* (label, host, service)
  Value,     \* what can be saved under a key
  Absent     \* nothing is saved

VARIABLES
  store,     \* store[k]: what is saved under k
  call,      \* call[i]: what i asks for, and whether it was done
  deaths     \* the calls that ended with their instance

Call(k, v, done) == [key |-> k, value |-> v, done |-> done]

Init ==
  /\ store \in [Key -> Value \cup {Absent}]
  /\ call = [i \in Instance |-> Absent]
  /\ deaths = 0

\* Save a value under a key, or remove what is there.
Begin(i) ==
  /\ call[i] = Absent
  /\ UNCHANGED <<store, deaths>>
  /\ \E k \in Key, v \in Value \cup {Absent} :
       call' = [call EXCEPT ![i] = Call(k, v, FALSE)]

Apply(i) ==
  /\ call[i] # Absent
  /\ ~call[i].done
  /\ store' = [store EXCEPT ![call[i].key] = call[i].value]
  /\ call' = [call EXCEPT ![i] = Call(@.key, @.value, TRUE)]
  /\ UNCHANGED deaths

Return(i) ==
  /\ call[i] # Absent
  /\ call[i].done
  /\ call' = [call EXCEPT ![i] = Absent]
  /\ UNCHANGED <<store, deaths>>

\* The instance dies: its call has taken effect or it has not.
Die(i) ==
  /\ call[i] # Absent
  /\ call' = [call EXCEPT ![i] = Absent]
  /\ deaths' = deaths + 1
  /\ UNCHANGED store

Next ==
  \E i \in Instance :
    Begin(i) \/ Apply(i) \/ Return(i) \/ Die(i)

Spec == Init /\ [][Next]_<<store, call, deaths>>
=============================================================================
