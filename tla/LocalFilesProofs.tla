--------------------------- MODULE LocalFilesProofs ---------------------------
(***************************************************************************)
(* The theorems of the dialog over the store and of the wallet, for any    *)
(* instances, connections, files and bounds: their types,                  *)
(* DeletesWhatWasSeen and MarkedIsCurrent.  Those of the store itself are  *)
(* in ConnectionsStoreProofs, whose invariant the dialog keeps.            *)
(***************************************************************************)
EXTENDS MCLocalFiles, ConnectionsStoreProofs, FiniteSetTheorems, SequenceTheorems

-----------------------------------------------------------------------------
(* The dialog *)

\* What a key pressed at place j of the queue would act on, if everything before
\* it were handled and nothing done to the list: what the last message about the
\* highlight before it says, or else what the dialog has noted.
Shows(seen, j) ==
  /\ \A h \in 1..(j - 1) :
       /\ inbox[h].kind = "highlight"
       /\ \A g \in (h + 1)..(j - 1) : inbox[g].kind # "highlight"
       => inbox[h].seen = seen
  /\ /\ \A h \in 1..(j - 1) : inbox[h].kind # "highlight"
     /\ _highlighted_idx # 0
     /\ ~late
     => seen = _saved[_highlighted_idx]

\* That is what the user saw; and sees, for the next message.
QueueInv ==
  /\ \A j \in 1..Len(inbox) : inbox[j].kind = "delete" => Shows(inbox[j].seen, j)
  /\ Shows(Seen, Len(inbox) + 1)

\* A closed dialog has nothing left of the last time; there is room for what the
\* list posts when it is cleared.
DialogInv ==
  /\ dialog = "closed" => Blank
  /\ dialog \in {"removing", "clearing"} => Len(inbox) <= InboxMax
  /\ dialog = "down" => late

Finite ==
  /\ IsFiniteSet(file)
  /\ \A i \in Instance : IsFiniteSet(list[i])

\* The types of the dialog's own variables.
ModalTypes ==
  /\ dialog \in {"closed", "filling", "ready", "removing", "clearing", "saving",
                 "down"}
  /\ _saved \in Seq(Entry)
  /\ items \in Seq(Entry)
  /\ cursor \in 0..Len(items)
  /\ dialog # "down" => _highlighted_idx \in 0..Len(_saved)
  /\ filled \in Entry \cup {None}
  /\ inbox \in Seq(Message) /\ Len(inbox) <= InboxMax + 1
  /\ late \in BOOLEAN

LocalInv == StoreInv /\ Finite /\ ModalTypes /\ DialogInv /\ QueueInv

-----------------------------------------------------------------------------
LEMMA SeqOfSet ==
  ASSUME NEW S, NEW T, S \subseteq T, IsFiniteSet(S)
  PROVE  SetToSeq(S) \in Seq(T)
<1>. DEFINE n == Cardinality(S)
<1>1. n \in Nat /\ ExistsBijection(1..n, S)
  BY FS_CardinalityType
<1>2. \E f \in [1..n -> S] : IsInjective(f)
  BY <1>1 DEF ExistsBijection, Bijection, Injection, IsInjective
<1>3. SetToSeq(S) \in [1..n -> S]
  BY <1>2 DEF SetToSeq
<1>. QED  BY <1>1, <1>3

LEMMA Queue ==
  ASSUME NEW S, NEW s \in Seq(S)
  PROVE  /\ Len(s) \in Nat
         /\ \A i \in 1..Len(s) : s[i] \in S
         /\ \A e \in S : /\ Append(s, e) \in Seq(S)
                         /\ Len(Append(s, e)) = Len(s) + 1
                         /\ \A i \in 1..Len(s) : Append(s, e)[i] = s[i]
                         /\ Append(s, e)[Len(s) + 1] = e
         /\ s # <<>> => /\ Tail(s) \in Seq(S)
                        /\ Len(Tail(s)) = Len(s) - 1
                        /\ \A i \in 1..(Len(s) - 1) : Tail(s)[i] = s[i + 1]
                        /\ Len(s) >= 1
                        /\ Head(s) = s[1]
  OBVIOUS

LEMMA EntriesAndMessages ==
  /\ None \notin Entry
  /\ InboxMax \in Nat /\ Me \in Instance
  /\ \A n \in Nat, e \in Entry \cup {None}, b \in {"highlight", "delete", "connect"} :
       [kind |-> b, pos |-> n, seen |-> e] \in Message
<1>1. None \notin Entry
  BY StoreAssumption DEF Entry, Version
<1>. QED  BY <1>1, ModalAssumption DEF Message

LEMMA SeenType == ModalTypes => Seen \in Entry \cup {None}
<1>. SUFFICES ASSUME ModalTypes, cursor # 0
              PROVE  items[cursor] \in Entry
  BY DEF Seen
<1>. QED  BY DEF ModalTypes

LEMMA InitEstablishesLocal == Init => LocalInv
<1>. SUFFICES ASSUME Init
              PROVE  LocalInv
  OBVIOUS
<1>1. StoreInv
  BY InitEstablishesInv DEF Init
<1>2. Finite
  BY FS_EmptySet DEF Init, StoreInit, Finite
<1>3. inbox = <<>> /\ cursor = 0 /\ _highlighted_idx = 0 /\ Len(inbox) = 0
  BY DEF Init, Blank
<1>4. ModalTypes
  <2>1. late \in BOOLEAN
    BY Zenon DEF Init
  <2>. QED  BY <1>3, <2>1, EntriesAndMessages DEF Init, Blank, ModalTypes
<1>5. DialogInv
  BY <1>3 DEF Init, DialogInv
<1>6. QueueInv
  BY <1>3 DEF QueueInv, Shows
<1>. QED  BY <1>1, <1>2, <1>4, <1>5, <1>6 DEF LocalInv

\* What the dialog does to the store is what an instance may do to it.
LEMMA DialogUsesStore == ModalTypes /\ [Next]_vars => [StoreNext]_storeVars
<1>. SUFFICES ASSUME ModalTypes, [Next]_vars
              PROVE  [StoreNext]_storeVars
  OBVIOUS
<1>. USE EntriesAndMessages
<1>1. CASE DeletePressed
  <2>1. \A i \in 1..Len(_saved) : _saved[i] \in Entry
    BY Queue DEF ModalTypes
  <2>2. \A i \in 1..Len(_saved) : _saved[i].key \in Key
    BY <2>1 DEF Entry
  <2>. QED  BY <1>1, <2>2 DEF DeletePressed, StoreNext, CallStep
<1>2. CASE ConnectPressed
  BY <1>2 DEF ConnectPressed, StoreNext, CallStep
<1>3. CASE MeDies \/ OtherInstances
  BY <1>3 DEF MeDies, OtherInstances, StoreNext
<1>4. CASE \/ Highlight \/ Press("delete") \/ Press("connect")
           \/ Open \/ Cleared \/ Appended \/ Highlighted \/ Deleted
           \/ SavedAndClosed \/ Cancel \/ Restart
  BY <1>4 DEF Highlight, Press, Open, Cleared, Appended, Highlighted, Deleted,
              SavedAndClosed, Cancel, Restart
<1>5. CASE UNCHANGED vars
  BY <1>5 DEF vars
<1>. QED  BY <1>1, <1>2, <1>3, <1>4, <1>5 DEF Next, Handler

\* No call makes a list or the file infinite.
LEMMA StoreStaysFinite == StoreInv /\ Finite /\ [StoreNext]_storeVars => Finite'
<1>. SUFFICES ASSUME StoreInv, Finite, [StoreNext]_storeVars
              PROVE  Finite'
  OBVIOUS
<1>. USE DEF Finite
<1>1. IsFiniteSet(load_connections)
  BY FS_EmptySet DEF load_connections
<1>2. \A e, k : /\ IsFiniteSet(Saved(load_connections, e))
                /\ IsFiniteSet(Removed(load_connections, k))
  <2>. SUFFICES ASSUME NEW e, NEW k
                PROVE  /\ IsFiniteSet(Saved(load_connections, e))
                       /\ IsFiniteSet(Removed(load_connections, k))
    OBVIOUS
  <2>1. \A S \in SUBSET load_connections : IsFiniteSet(S)
    BY <1>1, FS_Subset
  <2>2. IsFiniteSet({o \in load_connections : o.key # e.key})
    BY <2>1
  <2>. QED  BY <2>1, <2>2, FS_AddElement DEF Saved, Removed
<1>3. DOMAIN list = Instance
  BY DEF StoreInv, StoreTypeOK
<1>4. ASSUME NEW i \in Instance, CallStep(i)
      PROVE  Finite'
  BY <1>4 DEF CallStep, CallSave, CallRemove, Calling
<1>5. ASSUME NEW i \in Instance, StorePassword(i) \/ ForgetPassword(i)
      PROVE  Finite'
  BY <1>5 DEF StorePassword, ForgetPassword
<1>6. ASSUME NEW i \in Instance, LoadToSave(i) \/ LoadToRemove(i)
      PROVE  Finite'
  BY <1>2, <1>3, <1>6 DEF LoadToSave, LoadToRemove
<1>7. ASSUME NEW i \in Instance, OpenFile(i)
      PROVE  Finite'
  BY <1>7, FS_EmptySet DEF OpenFile
<1>8. ASSUME NEW i \in Instance, WriteFile(i)
      PROVE  Finite'
  BY <1>3, <1>8, FS_EmptySet DEF WriteFile
<1>9. ASSUME NEW i \in Instance, Die(i)
      PROVE  Finite'
  BY <1>3, <1>9, FS_EmptySet DEF Die
<1>10. CASE UNCHANGED storeVars
  BY <1>10 DEF storeVars
<1>. QED  BY <1>4, <1>5, <1>6, <1>7, <1>8, <1>9, <1>10 DEF StoreNext, StoreStep

LEMMA ClosedTypes == Close /\ UNCHANGED late /\ ModalTypes => ModalTypes' /\ DialogInv'
<1>. SUFFICES ASSUME Close, UNCHANGED late, ModalTypes
              PROVE  ModalTypes' /\ DialogInv'
  OBVIOUS
<1>1. /\ _saved' \in Seq(Entry) /\ Len(_saved') = 0
      /\ items' \in Seq(Entry) /\ Len(items') = 0
      /\ inbox' \in Seq(Message) /\ Len(inbox') = 0
  BY DEF Close
<1>2. Blank'
  BY DEF Close, Blank
<1>3. DialogInv'
  BY <1>2 DEF Close, DialogInv
<1>. QED  BY <1>1, <1>3, EntriesAndMessages DEF Close, ModalTypes

LEMMA NextKeepsModal ==
  StoreInv /\ Finite /\ ModalTypes /\ DialogInv /\ [Next]_vars
    => ModalTypes' /\ DialogInv'
<1>. SUFFICES ASSUME StoreInv, Finite, ModalTypes, DialogInv, [Next]_vars
              PROVE  ModalTypes' /\ DialogInv'
  OBVIOUS
<1>. USE DEF ModalTypes, DialogInv
<1>1. SetToSeq(load_connections) \in Seq(Entry)
  <2>1. load_connections \subseteq Entry /\ IsFiniteSet(load_connections)
    BY FS_EmptySet DEF StoreInv, StoreTypeOK, Finite, load_connections
  <2>. QED  BY <2>1, SeqOfSet
<1>2. /\ \A m \in Message : /\ Append(inbox, m) \in Seq(Message)
                            /\ Len(Append(inbox, m)) = Len(inbox) + 1
      /\ inbox # <<>> => /\ Tail(inbox) \in Seq(Message)
                         /\ Len(Tail(inbox)) = Len(inbox) - 1
                         /\ Head(inbox) \in Message
      /\ Len(inbox) \in Nat /\ Len(items) \in Nat /\ Len(_saved) \in Nat
      /\ \A i \in 1..Len(items) : items[i] \in Entry
      /\ \A i \in 1..Len(_saved) : _saved[i] \in Entry
  <2>1. inbox # <<>> => Len(inbox) >= 1 /\ inbox[1] \in Message /\ Head(inbox) = inbox[1]
    BY Queue
  <2>. QED  BY <2>1, Queue
<1>3. Seen \in Entry \cup {None}
  BY SeenType
<1>. USE EntriesAndMessages
<1>4. CASE Highlight
  <2>1. PICK n \in 1..Len(items) :
          /\ cursor' = n
          /\ inbox' = Append(inbox, [kind |-> "highlight", pos |-> n, seen |-> items[n]])
    BY <1>4 DEF Highlight
  <2>2. [kind |-> "highlight", pos |-> n, seen |-> items[n]] \in Message
    <3>1. n \in Nat /\ items[n] \in Entry
      BY <1>2
    <3>. QED  BY <3>1
  <2>. QED  BY <1>2, <1>4, <2>1, <2>2 DEF Highlight, UserMay
<1>5. ASSUME NEW b \in {"delete", "connect"}, Press(b)
      PROVE  ModalTypes' /\ DialogInv'
  <2>1. [kind |-> b, pos |-> 0, seen |-> Seen] \in Message
    BY <1>3
  <2>. QED  BY <1>2, <1>5, <2>1 DEF Press, UserMay
<1>6. CASE Open
  BY <1>1, <1>2, <1>6 DEF Open, Blank
<1>7. CASE Cleared
  <2>1. [kind |-> "highlight", pos |-> 0, seen |-> None] \in Message
    OBVIOUS
  <2>2. items' \in Seq(Entry) /\ Len(items') = 0
    BY <1>7 DEF Cleared
  <2>. QED  BY <1>2, <1>7, <2>1, <2>2 DEF Cleared
<1>8. CASE Appended
  <2>1. CASE Len(items) < Len(_saved)
    <3>1. _saved[Len(items) + 1] \in Entry
      BY <1>2, <2>1
    <3>2. /\ Append(items, _saved[Len(items) + 1]) \in Seq(Entry)
          /\ Len(Append(items, _saved[Len(items) + 1])) = Len(items) + 1
      BY <3>1, Queue
    <3>3. /\ items' = Append(items, _saved[Len(items) + 1])
          /\ dialog = "filling"
          /\ UNCHANGED <<dialog, _saved, cursor, _highlighted_idx, filled, inbox, late>>
      BY <1>8, <2>1 DEF Appended
    <3>4. items' \in Seq(Entry) /\ cursor' \in 0..Len(items')
      BY <1>2, <3>2, <3>3
    <3>. QED  BY <3>3, <3>4
  <2>2. CASE ~(Len(items) < Len(_saved))
    BY <1>2, <1>8, <2>2 DEF Appended
  <2>. QED  BY <2>1, <2>2
<1>9. CASE Highlighted
  <2>. DEFINE n == Head(inbox).pos
  <2>1. /\ inbox # <<>> /\ dialog = "ready" /\ inbox' = Tail(inbox)
        /\ _highlighted_idx' = n
        /\ UNCHANGED <<_saved, items, cursor>>
    BY <1>9 DEF Highlighted
  <2>2. n \in Nat
    BY <1>2, <2>1 DEF Message
  <2>3. late' \in BOOLEAN
    BY Zenon, <1>9 DEF Highlighted
  <2>4. n \in 1..Len(_saved) => filled' = _saved[n] /\ dialog' = dialog
    BY <1>9 DEF Highlighted
  <2>5. n \notin 1..Len(_saved) =>
          filled' = filled /\ dialog' = IF n = 0 THEN dialog ELSE "down"
    BY <1>9 DEF Highlighted
  <2>6. n > Len(_saved) => late'
    BY <1>9 DEF Highlighted
  <2>. HIDE DEF n
  <2>7. dialog' \in {"ready", "down"} /\ (dialog' = "down" => n > Len(_saved))
    BY <1>2, <2>1, <2>2, <2>4, <2>5
  <2>8. dialog' # "down" => n \in 0..Len(_saved)
    BY <1>2, <2>2, <2>5
  <2>9. filled' \in Entry \cup {None}
    BY <1>2, <2>4, <2>5
  <2>10. ModalTypes'
    BY <1>2, <2>1, <2>3, <2>7, <2>8, <2>9
  <2>11. DialogInv'
    BY <2>6, <2>7
  <2>. QED  BY <2>10, <2>11
<1>10. CASE DeletePressed
  <2>1. /\ inbox # <<>> /\ dialog = "ready" /\ inbox' = Tail(inbox)
        /\ dialog' \in {"ready", "removing"}
        /\ UNCHANGED <<_saved, items, cursor, _highlighted_idx, filled, late>>
    BY <1>10 DEF DeletePressed
  <2>. QED  BY <1>2, <2>1
<1>11. CASE Deleted
  BY <1>1, <1>2, <1>11, Queue DEF Deleted, IndexAfterDelete
<1>12. CASE ConnectPressed
  <2>1. CASE Close
    BY <1>12, <2>1, ClosedTypes DEF ConnectPressed
  <2>2. CASE ~Close
    <3>1. /\ inbox # <<>> /\ dialog = "ready" /\ inbox' = Tail(inbox)
          /\ dialog' \in {"ready", "saving"}
          /\ UNCHANGED <<_saved, items, cursor, _highlighted_idx, filled, late>>
      BY <1>12, <2>2 DEF ConnectPressed
    <3>. QED  BY <1>2, <3>1
  <2>. QED  BY <2>1, <2>2
<1>13. CASE SavedAndClosed \/ Cancel \/ MeDies \/ Restart
  BY <1>13, ClosedTypes DEF SavedAndClosed, Cancel, MeDies, Restart
<1>14. CASE OtherInstances \/ UNCHANGED vars
  BY <1>14 DEF OtherInstances, vars, modalVars, Blank
<1>. QED
  BY <1>4, <1>5, <1>6, <1>7, <1>8, <1>9, <1>10, <1>11, <1>12, <1>13, <1>14
  DEF Next, Handler

-----------------------------------------------------------------------------
(* The queue *)

\* A message is handled: the others move up.
LEMMA ShowsTail ==
  ASSUME inbox \in Seq(Message), inbox # <<>>, inbox' = Tail(inbox),
         \/ /\ inbox[1].kind # "highlight"
            /\ UNCHANGED <<_highlighted_idx, late, _saved>>
         \/ /\ inbox[1].kind = "highlight"
            /\ _highlighted_idx' # 0 /\ ~late' =>
                 inbox[1].seen = _saved'[_highlighted_idx'],
         NEW s, NEW j \in 1..Len(inbox), Shows(s, j + 1)
  PROVE  Shows(s, j)'
<1>1. /\ Len(inbox) \in Nat /\ Len(inbox) >= 1
      /\ \A i \in 1..(Len(inbox) - 1) : inbox'[i] = inbox[i + 1]
  BY Queue
<1>2. ASSUME NEW h \in 1..(j - 1), inbox'[h].kind = "highlight",
             \A g \in (h + 1)..(j - 1) : inbox'[g].kind # "highlight"
      PROVE  inbox'[h].seen = s
  <2>1. inbox'[h] = inbox[h + 1] /\ h + 1 \in 1..((j + 1) - 1)
    BY <1>1
  <2>2. \A g \in (h + 2)..j : inbox[g].kind # "highlight"
    <3>. TAKE g \in (h + 2)..j
    <3>1. g - 1 \in (h + 1)..(j - 1) /\ g - 1 \in 1..(Len(inbox) - 1) /\ (g - 1) + 1 = g
      BY <1>1
    <3>. QED  BY <1>1, <1>2, <3>1
  <2>3. \A g \in ((h + 1) + 1)..((j + 1) - 1) : inbox[g].kind # "highlight"
    BY <2>2
  <2>. QED  BY <1>2, <2>1, <2>3 DEF Shows
<1>3. ASSUME \A h \in 1..(j - 1) : inbox'[h].kind # "highlight",
             _highlighted_idx' # 0, ~late'
      PROVE  s = _saved'[_highlighted_idx']
  <2>1. \A h \in 2..j : inbox[h].kind # "highlight"
    <3>. TAKE h \in 2..j
    <3>1. h - 1 \in 1..(j - 1) /\ h - 1 \in 1..(Len(inbox) - 1) /\ (h - 1) + 1 = h
      BY <1>1
    <3>. QED  BY <1>1, <1>3, <3>1
  <2>2. 1 \in 1..((j + 1) - 1)
    OBVIOUS
  <2>3. CASE inbox[1].kind = "highlight"
    <3>1. \A g \in (1 + 1)..((j + 1) - 1) : inbox[g].kind # "highlight"
      BY <2>1
    <3>2. inbox[1].seen = s
      BY <2>2, <2>3, <3>1 DEF Shows
    <3>. QED  BY <1>3, <2>3, <3>2
  <2>4. CASE inbox[1].kind # "highlight"
    <3>1. \A h \in 1..((j + 1) - 1) : inbox[h].kind # "highlight"
      BY <2>1, <2>4
    <3>. QED  BY <1>3, <2>4, <3>1 DEF Shows
  <2>. QED  BY <2>3, <2>4
<1>. QED  BY <1>2, <1>3 DEF Shows

LEMMA TailKeepsQueue ==
  ASSUME ModalTypes, QueueInv, inbox # <<>>, inbox' = Tail(inbox),
         \/ /\ inbox[1].kind # "highlight"
            /\ UNCHANGED <<_highlighted_idx, late, _saved>>
         \/ /\ inbox[1].kind = "highlight"
            /\ _highlighted_idx' # 0 /\ ~late' =>
                 inbox[1].seen = _saved'[_highlighted_idx'],
         UNCHANGED <<items, cursor>>
  PROVE  QueueInv'
<1>1. /\ inbox \in Seq(Message)
      /\ Len(inbox) \in Nat /\ Len(inbox) >= 1
      /\ Len(inbox') = Len(inbox) - 1
      /\ \A i \in 1..(Len(inbox) - 1) : inbox'[i] = inbox[i + 1]
  BY Queue DEF ModalTypes
<1>2. Seen' = Seen
  BY DEF Seen
<1>3. \A s : \A j \in 1..Len(inbox) : Shows(s, j + 1) => Shows(s, j)'
  BY <1>1, ShowsTail
<1>4. ASSUME NEW j \in 1..Len(inbox'), inbox'[j].kind = "delete"
      PROVE  Shows(inbox[j].seen, j)'
  <2>1. inbox'[j] = inbox[j + 1] /\ j + 1 \in 1..Len(inbox) /\ j \in 1..Len(inbox)
    BY <1>1
  <2>2. Shows(inbox[j + 1].seen, j + 1)
    BY <1>4, <2>1 DEF QueueInv
  <2>3. PICK s : s = inbox[j + 1].seen
    OBVIOUS
  <2>4. Shows(s, j)'
    BY <1>3, <2>1, <2>2, <2>3
  <2>5. s = inbox'[j].seen
    BY <2>1, <2>3
  <2>. QED  BY <2>4, <2>5 DEF Shows
<1>5. Shows(Seen, Len(inbox) + 1)'
  <2>1. Shows(Seen, Len(inbox) + 1) /\ Len(inbox) \in 1..Len(inbox)
    BY <1>1 DEF QueueInv
  <2>2. PICK s, n : s = Seen /\ n = Len(inbox)
    OBVIOUS
  <2>3. Shows(s, n)'
    BY <1>3, <2>1, <2>2
  <2>4. n = Len(inbox') + 1 /\ s = Seen'
    BY <1>1, <1>2, <2>2
  <2>. QED  BY <2>3, <2>4 DEF Shows
<1>6. \A j \in 1..Len(inbox') : inbox'[j].kind = "delete" => Shows(inbox[j].seen, j)'
  BY <1>4
<1>. QED  BY <1>5, <1>6 DEF QueueInv

\* A message is posted, which says what the user saw: of a highlight, what is
\* highlighted from now on.
LEMMA AppendKeepsQueue ==
  ASSUME ModalTypes, QueueInv, NEW m \in Message, inbox' = Append(inbox, m),
         IF m.kind = "highlight" THEN m.seen = Seen'
         ELSE m.seen = Seen /\ Seen' = Seen,
         UNCHANGED <<_highlighted_idx, late, _saved>>
  PROVE  QueueInv'
<1>1. /\ inbox \in Seq(Message)
      /\ Len(inbox) \in Nat
      /\ Len(inbox') = Len(inbox) + 1
      /\ \A i \in 1..Len(inbox) : inbox'[i] = inbox[i]
      /\ inbox'[Len(inbox) + 1] = m
  BY Queue DEF ModalTypes
<1>2. ASSUME NEW s, NEW j \in 1..(Len(inbox) + 1), Shows(s, j)
      PROVE  Shows(s, j)'
  <2>1. \A h \in 1..(j - 1) : /\ inbox'[h] = inbox[h]
                              /\ \A g \in (h + 1)..(j - 1) : inbox'[g] = inbox[g]
    BY <1>1
  <2>. QED  BY <1>2, <2>1 DEF Shows
<1>3. ASSUME NEW j \in 1..Len(inbox'), inbox'[j].kind = "delete"
      PROVE  Shows(inbox[j].seen, j)'
  <2>1. PICK s : s = inbox'[j].seen
    OBVIOUS
  <2>2. CASE j = Len(inbox) + 1
    <3>1. s = Seen
      BY <1>1, <1>3, <2>1, <2>2
    <3>2. Shows(s, j)
      BY <2>2, <3>1 DEF QueueInv
    <3>3. Shows(s, j)'
      BY <1>1, <1>2, <2>2, <3>2
    <3>. QED  BY <2>1, <3>3 DEF Shows
  <2>3. CASE j # Len(inbox) + 1
    <3>1. j \in 1..Len(inbox) /\ inbox'[j] = inbox[j]
      BY <1>1, <2>3
    <3>2. Shows(s, j)
      BY <1>3, <2>1, <3>1 DEF QueueInv
    <3>3. Shows(s, j)'
      BY <1>1, <1>2, <3>1, <3>2
    <3>. QED  BY <2>1, <3>3 DEF Shows
  <2>. QED  BY <2>2, <2>3
<1>4. Shows(Seen, Len(inbox) + 1)'
  <2>1. PICK s, n : s = Seen' /\ n = Len(inbox) + 1
    OBVIOUS
  <2>2. Len(inbox') + 1 = n + 1 /\ n \in Nat /\ n >= 1
    BY <1>1, <2>1
  <2>3. inbox'[n] = m
    BY <1>1, <2>1
  <2>4. CASE m.kind = "highlight"
    <3>1. \A h \in 1..n : h # n => n \in (h + 1)..n
      BY <2>2
    <3>2. Shows(s, n + 1)'
      BY <2>1, <2>2, <2>3, <2>4, <3>1 DEF Shows
    <3>. QED  BY <2>1, <2>2, <3>2 DEF Shows
  <2>5. CASE m.kind # "highlight"
    <3>1. Shows(s, n)
      BY <2>1, <2>5 DEF QueueInv
    <3>2. Shows(s, n)'
      BY <1>1, <1>2, <2>1, <3>1
    <3>3. Shows(s, n + 1)'
      BY <2>2, <2>3, <2>5, <3>2 DEF Shows
    <3>. QED  BY <2>1, <2>2, <3>3 DEF Shows
  <2>. QED  BY <2>4, <2>5
<1>5. \A j \in 1..Len(inbox') : inbox'[j].kind = "delete" => Shows(inbox[j].seen, j)'
  BY <1>3
<1>. QED  BY <1>4, <1>5 DEF QueueInv

\* Nothing is posted or handled, what is highlighted is still there, and the
\* dialog has noted the same of the same list, or nothing.
LEMMA SameQueue ==
  ASSUME QueueInv, UNCHANGED inbox, Seen' = Seen, late' = late,
         _highlighted_idx' = 0 \/ UNCHANGED <<_highlighted_idx, _saved>>
  PROVE  QueueInv'
<1>1. ASSUME NEW s, NEW j, Shows(s, j)
      PROVE  Shows(s, j)'
  BY <1>1 DEF Shows
<1>2. ASSUME NEW j \in 1..Len(inbox), inbox[j].kind = "delete"
      PROVE  Shows(inbox[j].seen, j)'
  <2>1. PICK s : s = inbox[j].seen
    OBVIOUS
  <2>2. Shows(s, j)'
    BY <1>1, <1>2, <2>1 DEF QueueInv
  <2>. QED  BY <2>1, <2>2 DEF Shows
<1>3. Shows(Seen, Len(inbox) + 1)'
  <2>1. PICK s, n : s = Seen /\ n = Len(inbox) + 1
    OBVIOUS
  <2>2. Shows(s, n)'
    BY <1>1, <2>1 DEF QueueInv
  <2>. QED  BY <2>1, <2>2 DEF Shows
<1>. QED  BY <1>2, <1>3 DEF QueueInv

LEMMA NewQueue == Close => QueueInv'
<1>. SUFFICES ASSUME Close
              PROVE  QueueInv'
  OBVIOUS
<1>1. Len(inbox') = 0 /\ _highlighted_idx' = 0
  BY DEF Close
<1>. QED  BY <1>1 DEF QueueInv, Shows

LEMMA NextKeepsQueue == ModalTypes /\ DialogInv /\ QueueInv /\ [Next]_vars => QueueInv'
<1>. SUFFICES ASSUME ModalTypes, DialogInv, QueueInv, [Next]_vars
              PROVE  QueueInv'
  OBVIOUS
<1>. USE EntriesAndMessages
<1>1. Seen \in Entry \cup {None} /\ Len(items) \in Nat
  BY SeenType, Queue DEF ModalTypes
<1>2. UNCHANGED <<items, cursor>> => Seen' = Seen
  BY DEF Seen
<1>3. inbox # <<>> => Head(inbox) = inbox[1]
  BY Queue DEF ModalTypes
<1>4. CASE Highlight
  <2>1. PICK n \in 1..Len(items) :
          /\ cursor' = n
          /\ inbox' = Append(inbox, [kind |-> "highlight", pos |-> n, seen |-> items[n]])
          /\ UNCHANGED <<items, _highlighted_idx, late, _saved>>
    BY <1>4 DEF Highlight
  <2>. DEFINE m == [kind |-> "highlight", pos |-> n, seen |-> items[n]]
  <2>2. n \in Nat /\ n # 0 /\ items[n] \in Entry
    BY Queue DEF ModalTypes
  <2>3. m \in Message
    BY <2>2
  <2>4. Seen' = items[n]
    BY <2>1, <2>2 DEF Seen
  <2>. QED  BY <2>1, <2>3, <2>4, AppendKeepsQueue
<1>5. ASSUME NEW b \in {"delete", "connect"}, Press(b)
      PROVE  QueueInv'
  <2>. DEFINE m == [kind |-> b, pos |-> 0, seen |-> Seen]
  <2>1. m \in Message
    BY <1>1
  <2>2. /\ inbox' = Append(inbox, m)
        /\ UNCHANGED <<items, cursor, _highlighted_idx, late, _saved>>
    BY <1>5 DEF Press
  <2>. QED  BY <1>2, <2>1, <2>2, AppendKeepsQueue
<1>6. CASE Open
  BY <1>2, <1>6, SameQueue DEF Open, DialogInv, Blank
<1>7. CASE Cleared
  <2>1. Seen' = None /\ UNCHANGED <<_highlighted_idx, late, _saved>>
    BY <1>7 DEF Cleared, Seen
  <2>2. CASE cursor = 0
    BY <1>7, <2>1, <2>2, SameQueue DEF Cleared, Seen
  <2>3. CASE cursor # 0
    <3>. DEFINE m == [kind |-> "highlight", pos |-> 0, seen |-> None]
    <3>1. m \in Message /\ inbox' = Append(inbox, m)
      BY <1>7, <2>3 DEF Cleared
    <3>. QED  BY <2>1, <3>1, AppendKeepsQueue
  <2>. QED  BY <2>2, <2>3
<1>8. CASE Appended
  <2>1. Seen' = Seen
    <3>1. UNCHANGED cursor /\ (UNCHANGED items \/ items' = Append(items, _saved[Len(items) + 1]))
      BY <1>8 DEF Appended
    <3>2. cursor # 0 => cursor \in 1..Len(items)
      BY <1>1 DEF ModalTypes
    <3>3. cursor # 0 /\ items' = Append(items, _saved[Len(items) + 1]) =>
            items'[cursor] = items[cursor]
      BY <3>2 DEF ModalTypes
    <3>. QED  BY <3>1, <3>3 DEF Seen
  <2>. QED  BY <1>8, <2>1, SameQueue DEF Appended
<1>9. CASE Highlighted
  <2>1. /\ inbox # <<>> /\ inbox' = Tail(inbox)
        /\ inbox[1].kind = "highlight"
        /\ _highlighted_idx' = inbox[1].pos
        /\ UNCHANGED <<_saved, items, cursor>>
    BY <1>3, <1>9 DEF Highlighted
  <2>2. inbox[1].pos \in Nat
    <3>1. inbox[1] \in Message
      BY <2>1, Queue DEF ModalTypes
    <3>. QED  BY <3>1 DEF Message
  <2>3. ~late' => /\ ~(inbox[1].pos > Len(_saved))
                  /\ inbox[1].pos \in 1..Len(_saved) => inbox[1].seen = _saved[inbox[1].pos]
    BY <1>3, <1>9 DEF Highlighted
  <2>4. Len(_saved) \in Nat
    BY Queue DEF ModalTypes
  <2>5. _highlighted_idx' # 0 /\ ~late' => inbox[1].seen = _saved'[_highlighted_idx']
    BY <2>1, <2>2, <2>3, <2>4
  <2>. QED  BY <2>1, <2>5, TailKeepsQueue
<1>10. CASE DeletePressed
  <2>1. /\ inbox # <<>> /\ inbox' = Tail(inbox) /\ inbox[1].kind = "delete"
        /\ UNCHANGED <<_saved, items, cursor, _highlighted_idx, late>>
    BY <1>3, <1>10 DEF DeletePressed
  <2>. QED  BY <2>1, TailKeepsQueue
<1>11. CASE Deleted
  BY <1>2, <1>11, SameQueue DEF Deleted, IndexAfterDelete
<1>12. CASE ConnectPressed
  <2>1. CASE Close
    BY <2>1, NewQueue
  <2>2. CASE ~Close
    <3>1. /\ inbox # <<>> /\ inbox' = Tail(inbox) /\ inbox[1].kind = "connect"
          /\ UNCHANGED <<_saved, items, cursor, _highlighted_idx, late>>
      BY <1>3, <1>12, <2>2 DEF ConnectPressed
    <3>. QED  BY <3>1, TailKeepsQueue
  <2>. QED  BY <2>1, <2>2
<1>13. CASE SavedAndClosed \/ Cancel \/ MeDies \/ Restart
  BY <1>13, NewQueue DEF SavedAndClosed, Cancel, MeDies, Restart
<1>14. CASE OtherInstances \/ UNCHANGED vars
  BY <1>2, <1>14, SameQueue DEF OtherInstances, vars, modalVars
<1>. QED
  BY <1>4, <1>5, <1>6, <1>7, <1>8, <1>9, <1>10, <1>11, <1>12, <1>13, <1>14
  DEF Next, Handler

-----------------------------------------------------------------------------
LEMMA NextKeepsLocal == LocalInv /\ [Next]_vars => LocalInv'
  BY DialogUsesStore, NextKeepsInv, StoreStaysFinite, NextKeepsModal, NextKeepsQueue
  DEF LocalInv

LEMMA LocalIsInvariant == Spec => []LocalInv
  BY InitEstablishesLocal, NextKeepsLocal, PTL DEF Spec

LEMMA LocalTypes == LocalInv => TypeOK
  BY DEF LocalInv, StoreInv, ModalTypes, TypeOK

\* Delete removes the connection that the user saw highlighted when it was
\* pressed, for any number of messages that wait and of reloads in between:
\* DeletesWhatWasSeen.
THEOREM DeleteMeansTheSeen == Spec => DeletesWhatWasSeen
<1>1. ASSUME LocalInv, [Next]_vars
      PROVE  [~late /\ dialog' = "removing" /\ dialog = "ready" =>
                /\ Head(inbox).seen # None
                /\ arg'[Me].key = Head(inbox).seen.key]_vars
  <2>. SUFFICES ASSUME Next, ~late, dialog' = "removing", dialog = "ready"
                PROVE  /\ Head(inbox).seen # None
                       /\ arg'[Me].key = Head(inbox).seen.key
    BY <1>1
  <2>1. DeletePressed
    BY DEF Next, Highlight, Press, Handler, Open, Cleared, Appended, Highlighted,
           Deleted, ConnectPressed, SavedAndClosed, Cancel, MeDies, Restart, Close,
           OtherInstances, modalVars
  <2>. DEFINE e == _saved[_highlighted_idx]
  <2>2. /\ _highlighted_idx \in 1..Len(_saved)
        /\ inbox # <<>> /\ Head(inbox).kind = "delete"
        /\ CallRemove(Me, e.key)
    BY <2>1 DEF DeletePressed
  <2>3. Head(inbox) = inbox[1] /\ 1 \in 1..Len(inbox) /\ e \in Entry /\ Len(_saved) \in Nat
    BY <1>1, <2>2, Queue DEF LocalInv, ModalTypes
  <2>4. Shows(inbox[1].seen, 1)
    BY <1>1, <2>2, <2>3 DEF LocalInv, QueueInv
  <2>5. inbox[1].seen = e
    BY <2>2, <2>3, <2>4 DEF Shows
  <2>6. arg'[Me].key = e.key
    BY <1>1, <2>2, EntriesAndMessages
    DEF CallRemove, Calling, LocalInv, StoreInv, StoreTypeOK
  <2>. QED  BY <2>3, <2>5, <2>6, EntriesAndMessages
<1>. QED  BY <1>1, LocalIsInvariant, PTL DEF Spec, DeletesWhatWasSeen

-----------------------------------------------------------------------------
(* The wallet *)

\* A directory that is missing has no marker, and none is missing to which files
\* are extracted.
HasDirectory ==
  /\ ~dir => marker = Nothing
  /\ \A p \in Process : stage[p] = "extract" => dir

\* Without a race one process extracts, the zip as it is; until it touches the
\* marker the directory counts as not extracted, and what it has no longer to
\* write is there.
OneExtracts ==
  ~raced => \A p \in Process : stage[p] = "extract" =>
    /\ \A q \in Process : stage[q] = "extract" => q = p
    /\ MustExtract
    /\ source[p] = version
    /\ \A m \in Member \ todo[p] : content[m] = version

WalletInv == WalletTypeOK /\ HasDirectory /\ OneExtracts /\ MarkedIsCurrent

LEMMA InitEstablishesWallet == WalletInit => WalletInv
<1>. SUFFICES ASSUME WalletInit PROVE WalletInv
  OBVIOUS
<1>. USE WalletAssumption DEF WalletInit
<1>1. /\ content \in [Member -> ZipVersion \cup {Nothing, Torn}]
      /\ stage \in [Process -> {"idle", "check", "extract", "returned"}]
  OBVIOUS
<1>2. source \in [Process -> ZipVersion] /\ todo \in [Process -> SUBSET Member]
  BY DEF ZipVersion
<1>3. /\ version \in ZipVersion /\ zip \in Date /\ marker \in Date \cup {Nothing}
      /\ extractions \in 0..ExtractMax /\ cuts \in 0..CutMax
  BY DEF ZipVersion
<1>4. dir \in BOOLEAN /\ overlooked \in BOOLEAN /\ raced \in BOOLEAN
  OBVIOUS
<1>5. WalletTypeOK
  BY <1>1, <1>2, <1>3, <1>4 DEF WalletTypeOK
<1>6. HasDirectory /\ OneExtracts /\ MarkedIsCurrent
  BY DEF HasDirectory, OneExtracts, MarkedIsCurrent, MustExtract
<1>. QED  BY <1>5, <1>6 DEF WalletInv

LEMMA NextKeepsWallet == WalletInv /\ [WalletNext]_walletVars => WalletInv'
<1>. SUFFICES ASSUME WalletInv, [WalletNext]_walletVars PROVE WalletInv'
  OBVIOUS
<1>. USE WalletAssumption DEF WalletInv, HasDirectory
<1>1. CASE Replace
  <2>1. version' = version + 1 /\ version \in ZipVersion /\ version < ReplaceMax
    BY <1>1 DEF Replace, WalletTypeOK
  <2>2. version' \in ZipVersion
    BY <2>1 DEF ZipVersion
  <2>3. WalletTypeOK'
    BY <1>1, <2>2 DEF Replace, WalletTypeOK
  <2>4. ~overlooked' => MustExtract'
    BY <1>1, <2>3 DEF Replace, MustExtract, WalletTypeOK, Date
  <2>5. OneExtracts'
    BY <1>1 DEF Replace, Extracting, OneExtracts
  <2>6. HasDirectory' /\ MarkedIsCurrent'
    BY <1>1, <2>4 DEF Replace, MarkedIsCurrent
  <2>. QED  BY <2>3, <2>5, <2>6
<1>2. ASSUME NEW p \in Process, ComesToExtract(p)
      PROVE  WalletInv'
  <2>1. WalletTypeOK' /\ HasDirectory'
    BY <1>2 DEF ComesToExtract, WalletTypeOK
  <2>2. OneExtracts' /\ MarkedIsCurrent'
    BY <1>2 DEF ComesToExtract, OneExtracts, MarkedIsCurrent, MustExtract, WalletTypeOK
  <2>. QED  BY <2>1, <2>2
<1>3. ASSUME NEW p \in Process, Check(p), MustExtract
      PROVE  WalletInv'
  <2>1. /\ stage' = [stage EXCEPT ![p] = "extract"] /\ dir' = TRUE
        /\ source' = [source EXCEPT ![p] = version]
        /\ todo' = [todo EXCEPT ![p] = Member]
        /\ raced' = (raced \/ Extracting)
        /\ UNCHANGED <<version, zip, content, marker, extractions, cuts, overlooked>>
    BY <1>3 DEF Check
  <2>2. WalletTypeOK' /\ HasDirectory'
    BY <2>1 DEF WalletTypeOK
  <2>3. MustExtract'
    BY <1>3, <2>1 DEF MustExtract
  <2>4. OneExtracts' /\ MarkedIsCurrent'
    BY <2>1, <2>3 DEF OneExtracts, MarkedIsCurrent, Extracting, WalletTypeOK
  <2>. QED  BY <2>2, <2>4
<1>4. ASSUME NEW p \in Process, Check(p), ~MustExtract
      PROVE  WalletInv'
  <2>1. /\ stage' = [stage EXCEPT ![p] = "returned"]
        /\ raced' = raced
        /\ UNCHANGED <<version, zip, dir, content, marker, source, todo, extractions,
                       cuts, overlooked>>
    BY <1>4 DEF Check, WalletTypeOK
  <2>2. WalletTypeOK' /\ HasDirectory'
    BY <2>1 DEF WalletTypeOK
  <2>3. OneExtracts' /\ MarkedIsCurrent'
    BY <2>1 DEF OneExtracts, MarkedIsCurrent, MustExtract, WalletTypeOK
  <2>. QED  BY <2>2, <2>3
<1>5. ASSUME NEW p \in Process, Extract(p)
      PROVE  WalletInv'
  <2>1. PICK m \in todo[p] : /\ content' = [content EXCEPT ![m] = source[p]]
                             /\ todo' = [todo EXCEPT ![p] = @ \ {m}]
    BY <1>5 DEF Extract
  <2>2. /\ stage[p] = "extract" /\ m \in Member
        /\ UNCHANGED <<version, zip, dir, marker, stage, source, extractions, cuts,
                       overlooked, raced>>
    BY <1>5, <2>1 DEF Extract, WalletTypeOK
  <2>3. WalletTypeOK' /\ HasDirectory'
    BY <2>1, <2>2 DEF WalletTypeOK
  <2>4. MustExtract' = MustExtract
    BY <2>2 DEF MustExtract
  <2>5. OneExtracts' /\ MarkedIsCurrent'
    BY <2>1, <2>2, <2>4 DEF OneExtracts, MarkedIsCurrent, WalletTypeOK
  <2>. QED  BY <2>3, <2>5
<1>6. ASSUME NEW p \in Process, Touch(p)
      PROVE  WalletInv'
  <2>1. /\ stage[p] = "extract" /\ todo[p] = {}
        /\ marker' \in Date /\ overlooked' = FALSE
        /\ stage' = [stage EXCEPT ![p] = "returned"]
        /\ UNCHANGED <<version, zip, dir, content, source, todo, extractions, cuts,
                       raced>>
    BY <1>6 DEF Touch, AllExtracted
  <2>2. WalletTypeOK' /\ HasDirectory'
    BY <2>1 DEF WalletTypeOK
  <2>3. OneExtracts' /\ MarkedIsCurrent'
    BY <2>1 DEF OneExtracts, MarkedIsCurrent, WalletTypeOK
  <2>. QED  BY <2>2, <2>3
<1>7. ASSUME NEW p \in Process, Cut(p)
      PROVE  WalletInv'
  <2>1. /\ stage[p] = "extract" /\ stage' = [stage EXCEPT ![p] = "idle"]
        /\ todo' = [todo EXCEPT ![p] = {}]
        /\ cuts' \in 0..CutMax
        /\ UNCHANGED <<version, zip, dir, marker, source, extractions, overlooked, raced>>
    BY <1>7 DEF Cut, WalletTypeOK
  <2>2. content' \in [Member -> ZipVersion \cup {Nothing, Torn}]
    BY <1>7 DEF Cut, WalletTypeOK
  <2>3. WalletTypeOK' /\ HasDirectory'
    BY <2>1, <2>2 DEF WalletTypeOK
  <2>4. MustExtract' = MustExtract
    BY <2>1 DEF MustExtract
  <2>5. OneExtracts' /\ MarkedIsCurrent'
    BY <2>1, <2>4 DEF OneExtracts, MarkedIsCurrent, WalletTypeOK
  <2>. QED  BY <2>3, <2>5
<1>8. CASE UNCHANGED walletVars
  BY <1>8 DEF walletVars, OneExtracts, MarkedIsCurrent, MustExtract, WalletTypeOK
<1>. QED  BY <1>1, <1>2, <1>3, <1>4, <1>5, <1>6, <1>7, <1>8 DEF WalletNext

\* A wallet that counts as extracted is whole and current, through any cuts, and
\* whatever the dates of zips and markers, as long as the zip was not last
\* replaced by one that is not dated after the marker, nor under an extraction,
\* and no two extractions overlapped: the marker is the last thing an extraction
\* leaves.
THEOREM MarkedWalletIsCurrent == WalletSpec => []MarkedIsCurrent
<1>1. WalletInv => MarkedIsCurrent
  BY DEF WalletInv
<1>. QED  BY <1>1, InitEstablishesWallet, NextKeepsWallet, PTL DEF WalletSpec

-----------------------------------------------------------------------------
(* The two of them *)

\* Types of the store with the dialog, and of the wallet, FilesTypesOK, whatever
\* the instances, connections, files and bounds.
THEOREM LocalTypesCorrect == FilesSpec => []FilesTypesOK
<1>1. FilesInit => LocalInv /\ WalletInv
  BY InitEstablishesLocal, InitEstablishesWallet DEF FilesInit
<1>2. LocalInv /\ WalletInv /\ [FilesNext]_<<vars, walletVars, side>>
        => (LocalInv /\ WalletInv)'
  <2>1. [FilesNext]_<<vars, walletVars, side>> => [Next]_vars /\ [WalletNext]_walletVars
    BY DEF FilesNext
  <2>. QED  BY <2>1, NextKeepsLocal, NextKeepsWallet
<1>3. LocalInv /\ WalletInv => FilesTypesOK
  BY LocalTypes DEF FilesTypesOK, WalletInv
<1>. QED  BY <1>1, <1>2, <1>3, PTL DEF FilesSpec
=============================================================================
