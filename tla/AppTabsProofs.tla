------------------------------ MODULE AppTabsProofs -----------------------------
(***************************************************************************)
(* The theorems of AppTabs, for any number of connections of any kinds,    *)
(* stacked dialogs and waiting messages: its types, TabsAreSessions,       *)
(* ActiveIsSelected, ClearOnceUp and KeepsContracts.                       *)
(***************************************************************************)
EXTENDS AppTabs, TLAPS

\* How far _add_connection_tab() of each connection is, and what has become of
\* its session: a connection has a pane, a tab and an entry in _sessions, and
\* may be the active one, only after its session was up.
AddInv ==
  \A c \in Conn :
    /\ add[c] \in {"none", "check", "refused"} => state[c] = "new"
    /\ add[c] = "connect" => state[c] = "connecting"
    /\ add[c] \in {"failed", "cryptic"} => state[c] = "failed"
    /\ add[c] \in {"mount", "done"} =>
         state[c] \in {"up", "closing", "closed", "raised"}
    /\ add[c] = "mount" => c \in panes \cap sessions
    /\ c \in panes \cup sessions => add[c] \in {"mount", "done"}
    /\ c \in tabs => add[c] = "done"

ActiveInv ==
  /\ active_id # None => add[active_id] = "done"
  /\ \A i \in DOMAIN activations : add[activations[i]] = "done"

\* A session that is up is in _sessions, with a pane and soon a tab.
UpInv ==
  /\ \A c \in Conn : state[c] = "up" => /\ c \in sessions \cap panes
                                        /\ add[c] = "done" => c \in tabs
  /\ tabs \subseteq panes
  /\ pump \notin {"unmount", "down"} => \A c \in sessions : state[c] = "up"

\* One session at a time is being closed, and a tab that is left behind by a
\* session that is closed is the next to go.
PumpInv ==
  /\ pump = "startup" => \A c \in todo : add[c] = "none"
  /\ pump \in {"free", "closing", "removing"} => todo = {}
  /\ pump = "unmount" => \A c \in todo : state[c] = "up"
  /\ pump = "closing" =>
       /\ target \in Conn /\ target = active_id
       /\ state[target] \in {"closing", "closed", "raised"}
  /\ pump = "removing" =>
       /\ target \in Conn \ tabs
       /\ add[target] = "done" /\ state[target] # "up"
  /\ \A c \in Conn : state[c] = "closing" =>
       c = target /\ pump \in {"closing", "unmount", "down"}
  /\ \A c \in tabs : state[c] = "closed" =>
       \/ pump = "closing" /\ c = target
       \/ pump \in {"unmount", "down"}

\* The last message on its way is about the tab that is selected; when none is
\* on its way, the application has followed.
SelectInv ==
  /\ selected = None <=> tabs = {}
  /\ selected # None =>
       /\ activations # <<>> => activations[Len(activations)] = selected
       /\ activations = <<>> => active_id = selected
       /\ pump = "removing" => activations # <<>>

\* The driver is in the mode of whoever waits for a pool.
ModeInv ==
  /\ active_mode # None => driver = active_mode
  /\ \A c \in Conn : add[c] = "connect" => kind[c] # "demo" /\ driver = kind[c]
  /\ \A c \in sessions : kind[c] # "demo" => kind[c] = active_mode

\* A session that is not up yet has the sign off, and no pool to lose.
FreshInv ==
  \A c \in Conn : state[c] \in {"new", "connecting"} =>
    healthy[c] /\ (usable[c] => kind[c] = "demo")

\* The inductive invariant, of which TypeOK is a part.
AppInv ==
  /\ TypeOK
  /\ AddInv /\ ActiveInv /\ UpInv /\ PumpInv /\ SelectInv /\ ModeInv /\ FreshInv

USE AppAssumption
USE DEF Running, modeVars, sessionVars, tabVars, labelVars, pumpVars, dialogVars

-----------------------------------------------------------------------------
(* The operators of the model *)

\* What is left of the messages ends with the same message.
LEMMA TailKeepsLast ==
  ASSUME NEW S, NEW s \in Seq(S), s # <<>>
  PROVE  /\ Head(s) \in S /\ Tail(s) \in Seq(S)
         /\ Head(s) = s[1] /\ \A i \in DOMAIN Tail(s) : Tail(s)[i] = s[i + 1]
         /\ Tail(s) = <<>> => Head(s) = s[Len(s)]
         /\ Tail(s) # <<>> => Tail(s)[Len(Tail(s))] = s[Len(s)]
<1>1. Len(s) \in Nat \ {0} /\ Head(s) = s[1] /\ Head(s) \in S
  OBVIOUS
<1>2. /\ Tail(s) \in Seq(S) /\ Len(Tail(s)) = Len(s) - 1
      /\ \A i \in 1..(Len(s) - 1) : Tail(s)[i] = s[i + 1]
  OBVIOUS
<1>3. DOMAIN Tail(s) = 1..(Len(s) - 1)
  BY <1>2
<1>4. Tail(s) = <<>> => Len(s) = 1
  <2>1. Len(<<>>) = 0
    OBVIOUS
  <2>2. Tail(s) = <<>> => Len(Tail(s)) = 0
    BY <2>1, Zenon
  <2>. QED  BY <1>1, <1>2, <2>2
<1>5. Tail(s) # <<>> => Len(s) - 1 \in 1..(Len(s) - 1)
  BY <1>1, <1>2
<1>. QED  BY <1>1, <1>2, <1>3, <1>4, <1>5

LEMMA KindIs ==
  ASSUME TypeOK, NEW c \in Conn
  PROVE  kind[c] \in {"Thin", "Thick", "demo"}
  BY DEF TypeOK

-----------------------------------------------------------------------------
(* The initial states, and one lemma for each group of actions *)

LEMMA InitEstablishesInv == Init => AppInv
<1>. SUFFICES ASSUME Init
              PROVE  AppInv
  OBVIOUS
<1>1. TypeOK
  <2>1. /\ usable \in [Conn -> BOOLEAN] /\ healthy \in [Conn -> BOOLEAN]
        /\ prompt \in BOOLEAN
    BY Zenon DEF Init
  <2>2. modals \in 0..ModalMax /\ pump \in {"startup", "free"} /\ todo \subseteq Conn
    BY DEF Init
  <2>. QED  BY <2>1, <2>2 DEF Init, TypeOK
<1>2. AddInv /\ ActiveInv /\ UpInv /\ SelectInv /\ ModeInv
  BY DEF Init, AddInv, ActiveInv, UpInv, SelectInv, ModeInv
<1>3. PumpInv
  BY DEF Init, PumpInv
<1>4. FreshInv
  BY DEF Init, FreshInv
<1>. QED  BY <1>1, <1>2, <1>3, <1>4 DEF AppInv

\* _add_connection_tab().
LEMMA AddStepKeepsInv ==
  ASSUME AppInv, NEW c \in Conn, AddStep(c)
  PROVE  AppInv'
<1>. USE DEF AppInv, TypeOK, AddInv, ActiveInv, UpInv, PumpInv, SelectInv, ModeInv,
           FreshInv
<1>1. CASE AddRefused(c)
  <2>1. TypeOK'
    BY <1>1 DEF AddRefused, ModeConflict
  <2>2. (AddInv /\ ActiveInv /\ UpInv /\ PumpInv)'
    BY <1>1 DEF AddRefused, ModeConflict
  <2>3. (SelectInv /\ ModeInv /\ FreshInv)'
    BY <1>1, KindIs DEF AddRefused, ModeConflict
  <2>. QED  BY <2>1, <2>2, <2>3
<1>2. CASE AddDemo(c)
  <2>1. TypeOK'
    BY <1>2 DEF AddDemo, Register
  <2>2. (AddInv /\ ActiveInv /\ UpInv /\ PumpInv)'
    BY <1>2 DEF AddDemo, Register
  <2>3. (SelectInv /\ ModeInv /\ FreshInv)'
    BY <1>2, KindIs DEF AddDemo, Register
  <2>. QED  BY <2>1, <2>2, <2>3
<1>3. CASE AddConnects(c)
  <2>1. TypeOK'
    <3>1. kind[c] \in {"Thin", "Thick"}
      BY <1>3, KindIs DEF AddConnects
    <3>2. driver' \in {None, "Thin", "Thick"} /\ UNCHANGED <<active_mode, kind>>
      BY <1>3, <3>1 DEF AddConnects
    <3>. QED  BY <1>3, <3>2 DEF AddConnects
  <2>2. (AddInv /\ ActiveInv /\ UpInv /\ PumpInv)'
    BY <1>3 DEF AddConnects
  <2>3. (SelectInv /\ FreshInv)'
    BY <1>3 DEF AddConnects
  <2>4. ModeInv'
    BY <1>3, KindIs DEF AddConnects, ModeConflict, DriverConflict
  <2>. QED  BY <2>1, <2>2, <2>3, <2>4
<1>4. CASE AddRaises(c)
  <2>1. TypeOK'
    BY <1>4 DEF AddRaises, ModeConflict, DriverConflict
  <2>2. (AddInv /\ ActiveInv /\ UpInv /\ PumpInv)'
    BY <1>4 DEF AddRaises, ModeConflict, DriverConflict
  <2>3. (SelectInv /\ ModeInv /\ FreshInv)'
    BY <1>4, KindIs DEF AddRaises, ModeConflict, DriverConflict
  <2>. QED  BY <2>1, <2>2, <2>3
<1>5. CASE AddConnected(c)
  <2>1. TypeOK'
    BY <1>5 DEF AddConnected, Register
  <2>2. (AddInv /\ ActiveInv /\ UpInv /\ PumpInv)'
    BY <1>5 DEF AddConnected, Register
  <2>3. (SelectInv /\ ModeInv /\ FreshInv)'
    BY <1>5, KindIs DEF AddConnected, Register
  <2>. QED  BY <2>1, <2>2, <2>3
<1>6. CASE AddFails(c)
  <2>1. TypeOK'
    BY <1>6 DEF AddFails
  <2>2. (AddInv /\ ActiveInv /\ UpInv /\ PumpInv)'
    BY <1>6 DEF AddFails
  <2>3. (SelectInv /\ ModeInv /\ FreshInv)'
    BY <1>6, KindIs DEF AddFails
  <2>. QED  BY <2>1, <2>2, <2>3
<1>7. CASE AddTab(c)
  <2>1. TypeOK'
    <3>1. tabs' \subseteq Conn /\ selected' \in tabs' \cup {None} /\ signs' \subseteq tabs'
      BY <1>7 DEF AddTab, Selects
    <3>2. activations' \in Seq(Conn)
      BY <1>7 DEF AddTab, Selects
    <3>3. add' \in [Conn -> {"none", "check", "connect", "mount", "done", "refused",
                             "failed", "cryptic"}]
      BY <1>7 DEF AddTab
    <3>. QED  BY <1>7, <3>1, <3>2, <3>3 DEF AddTab
  <2>2. AddInv'
    BY <1>7 DEF AddTab
  <2>3. ActiveInv'
    <3>1. \/ activations' = activations
          \/ activations' = Append(activations, c)
      BY <1>7 DEF AddTab, Selects
    <3>2. add' = [add EXCEPT ![c] = "done"] /\ active_id' = active_id
      BY <1>7 DEF AddTab
    <3>. QED  BY <3>1, <3>2
  <2>4. (UpInv /\ PumpInv)'
    BY <1>7 DEF AddTab
  <2>5. (SelectInv /\ ModeInv /\ FreshInv)'
    BY <1>7 DEF AddTab, Selects
  <2>. QED  BY <2>1, <2>2, <2>3, <2>4, <2>5
<1>. QED
  BY <1>1, <1>2, <1>3, <1>4, <1>5, <1>6, <1>7 DEF AddStep

\* The handlers of the application.
LEMMA PumpStepKeepsInv ==
  ASSUME AppInv, PumpStep
  PROVE  AppInv'
<1>. USE DEF AppInv, TypeOK, AddInv, ActiveInv, UpInv, PumpInv, SelectInv, ModeInv,
           FreshInv
<1>1. CASE StartupNext
  <2>1. TypeOK'
    BY <1>1 DEF StartupNext
  <2>2. (AddInv /\ ActiveInv /\ UpInv /\ PumpInv)'
    BY <1>1 DEF StartupNext
  <2>3. (SelectInv /\ ModeInv /\ FreshInv)'
    BY <1>1, KindIs DEF StartupNext
  <2>. QED  BY <2>1, <2>2, <2>3
<1>2. CASE TabActivated
  <2>1. /\ Head(activations) \in Conn /\ Tail(activations) \in Seq(Conn)
        /\ Head(activations) = activations[1]
        /\ \A i \in DOMAIN Tail(activations) : Tail(activations)[i] = activations[i + 1]
        /\ Tail(activations) = <<>> => Head(activations) = activations[Len(activations)]
        /\ Tail(activations) # <<>> =>
             Tail(activations)[Len(Tail(activations))] = activations[Len(activations)]
    BY <1>2, TailKeepsLast DEF TabActivated
  <2>2. TypeOK'
    BY <1>2, <2>1 DEF TabActivated
  <2>3. (AddInv /\ ActiveInv /\ UpInv /\ PumpInv)'
    BY <1>2, <2>1 DEF TabActivated
  <2>4. SelectInv'
    <3>1. UNCHANGED <<selected, tabs, pump>> /\ pump = "free"
      BY <1>2 DEF TabActivated
    <3>2. activations' = Tail(activations) /\ active_id' = Head(activations)
      BY <1>2 DEF TabActivated
    <3>3. activations # <<>>
      BY <1>2 DEF TabActivated
    <3>. QED  BY <2>1, <3>1, <3>2, <3>3
  <2>5. (ModeInv /\ FreshInv)'
    BY <1>2 DEF TabActivated
  <2>. QED  BY <2>2, <2>3, <2>4, <2>5
<1>3. CASE TabClosed
  <2>1. TypeOK'
    <3>1. /\ tabs' \subseteq Conn /\ signs' \subseteq tabs'
          /\ selected' \in tabs' \cup {None}
      BY <1>3 DEF TabClosed, RemoveTab
    <3>2. activations' \in Seq(Conn)
      BY <1>3 DEF TabClosed, RemoveTab
    <3>. QED  BY <1>3, <3>1, <3>2 DEF TabClosed, RemoveTab
  <2>2. (AddInv /\ UpInv /\ PumpInv)'
    BY <1>3 DEF TabClosed, RemoveTab
  <2>3. ActiveInv'
    <3>1. \/ activations' = activations
          \/ \E d \in tabs : activations' = Append(activations, d)
      BY <1>3 DEF TabClosed, RemoveTab
    <3>2. UNCHANGED <<add, active_id>>
      BY <1>3 DEF TabClosed
    <3>. QED  BY <3>1, <3>2
  <2>4. (SelectInv /\ ModeInv /\ FreshInv)'
    BY <1>3 DEF TabClosed, RemoveTab
  <2>. QED  BY <2>1, <2>2, <2>3, <2>4
<1>4. CASE TabCloseRaised
  <2>1. TypeOK'
    BY <1>4 DEF TabCloseRaised
  <2>2. (AddInv /\ ActiveInv /\ UpInv /\ PumpInv)'
    BY <1>4 DEF TabCloseRaised
  <2>3. (SelectInv /\ ModeInv /\ FreshInv)'
    BY <1>4, KindIs DEF TabCloseRaised
  <2>. QED  BY <2>1, <2>2, <2>3
<1>5. CASE PaneRemoved
  <2>1. TypeOK'
    <3>1. active_id' \in Conn \cup {None}
      BY <1>5 DEF PaneRemoved
    <3>2. prompt' \in BOOLEAN
      BY <1>5, Zenon DEF PaneRemoved
    <3>3. panes' \subseteq Conn
      BY <1>5 DEF PaneRemoved
    <3>. QED  BY <1>5, <3>1, <3>2, <3>3 DEF PaneRemoved
  <2>2. (AddInv /\ ActiveInv /\ UpInv /\ PumpInv)'
    BY <1>5 DEF PaneRemoved
  <2>3. (SelectInv /\ ModeInv /\ FreshInv)'
    BY <1>5 DEF PaneRemoved
  <2>. QED  BY <2>1, <2>2, <2>3
<1>6. CASE UnmountNext
  <2>1. TypeOK'
    BY <1>6 DEF UnmountNext
  <2>2. (AddInv /\ ActiveInv /\ UpInv /\ PumpInv)'
    BY <1>6 DEF UnmountNext
  <2>3. (SelectInv /\ ModeInv /\ FreshInv)'
    BY <1>6, KindIs DEF UnmountNext
  <2>. QED  BY <2>1, <2>2, <2>3
<1>7. CASE Unmounted
  <2>1. TypeOK'
    BY <1>7 DEF Unmounted
  <2>2. (AddInv /\ ActiveInv /\ UpInv /\ PumpInv)'
    BY <1>7 DEF Unmounted
  <2>3. (SelectInv /\ ModeInv /\ FreshInv)'
    BY <1>7, KindIs DEF Unmounted
  <2>. QED  BY <2>1, <2>2, <2>3
<1>. QED
  BY <1>1, <1>2, <1>3, <1>4, <1>5, <1>6, <1>7 DEF PumpStep

\* The timers.
LEMMA TimersKeepInv ==
  ASSUME AppInv, Timers
  PROVE  AppInv'
<1>. USE DEF AppInv, TypeOK, AddInv, ActiveInv, UpInv, PumpInv, SelectInv, ModeInv,
           FreshInv
<1>1. CASE PromptFires
  <2>1. TypeOK'
    <3>1. modals' \in 0..ModalMax
      BY <1>1 DEF PromptFires
    <3>2. prompt' \in BOOLEAN
      BY <1>1, Zenon DEF PromptFires
    <3>. QED  BY <1>1, <3>1, <3>2 DEF PromptFires
  <2>2. (AddInv /\ ActiveInv /\ UpInv /\ PumpInv)'
    BY <1>1 DEF PromptFires
  <2>3. (SelectInv /\ ModeInv /\ FreshInv)'
    BY <1>1 DEF PromptFires
  <2>. QED  BY <2>1, <2>2, <2>3
<1>2. CASE Tick
  BY <1>2 DEF Tick
<1>3. ASSUME NEW c \in Conn, RefreshLabel(c)
      PROVE  AppInv'
  BY <1>3 DEF RefreshLabel
<1>. QED
  BY <1>1, <1>2, <1>3 DEF Timers

\* The user.
LEMMA UserKeepsInv ==
  ASSUME AppInv, User
  PROVE  AppInv'
<1>. USE DEF AppInv, TypeOK, AddInv, ActiveInv, UpInv, PumpInv, SelectInv, ModeInv,
           FreshInv
<1>1. CASE CloseTab
  <2>1. TypeOK'
    BY <1>1 DEF CloseTab, RemoveTab
  <2>2. (AddInv /\ ActiveInv /\ UpInv /\ PumpInv)'
    BY <1>1 DEF CloseTab, RemoveTab
  <2>3. (SelectInv /\ ModeInv /\ FreshInv)'
    BY <1>1 DEF CloseTab, RemoveTab
  <2>. QED  BY <2>1, <2>2, <2>3
<1>2. CASE NewConnection
  BY <1>2 DEF NewConnection
<1>3. CASE ModalCancelled
  BY <1>3 DEF ModalCancelled
<1>4. CASE Quit
  BY <1>4 DEF Quit
<1>5. ASSUME NEW c \in Conn, SelectTab(c)
      PROVE  AppInv'
  <2>1. TypeOK'
    BY <1>5 DEF SelectTab
  <2>2. (AddInv /\ ActiveInv /\ UpInv /\ PumpInv)'
    BY <1>5 DEF SelectTab
  <2>3. (SelectInv /\ ModeInv /\ FreshInv)'
    BY <1>5 DEF SelectTab
  <2>. QED  BY <2>1, <2>2, <2>3
<1>6. ASSUME NEW c \in Conn, ModalConfirmed(c)
      PROVE  AppInv'
  BY <1>6 DEF ModalConfirmed
<1>. QED
  BY <1>1, <1>2, <1>3, <1>4, <1>5, <1>6 DEF User

\* The sessions.
LEMMA SessionsKeepInv ==
  ASSUME AppInv, NEW c \in Conn, SessionCloses(c) \/ SessionHealth(c)
  PROVE  AppInv'
<1>. USE DEF AppInv, TypeOK, AddInv, ActiveInv, UpInv, PumpInv, SelectInv, ModeInv,
           FreshInv
<1>1. CASE SessionCloses(c)
  <2>1. TypeOK'
    <3>1. state' \in [Conn -> {"new", "connecting", "failed", "up", "closing",
                               "closed", "raised"}]
      BY <1>1 DEF SessionCloses
    <3>2. usable' = usable \/ usable' = [usable EXCEPT ![c] = FALSE]
      BY <1>1, Zenon DEF SessionCloses
    <3>3. usable \in [Conn -> BOOLEAN] /\ [usable EXCEPT ![c] = FALSE] \in [Conn -> BOOLEAN]
      OBVIOUS
    <3>4. usable' \in [Conn -> BOOLEAN]
      <4>. HIDE DEF AppInv
      <4>. QED  BY <3>2, <3>3, Zenon
    <3>. QED  BY <1>1, <3>1, <3>4 DEF SessionCloses
  <2>2. (AddInv /\ ActiveInv /\ UpInv /\ PumpInv)'
    BY <1>1 DEF SessionCloses
  <2>3. (SelectInv /\ ModeInv /\ FreshInv)'
    BY <1>1 DEF SessionCloses
  <2>. QED  BY <2>1, <2>2, <2>3
<1>2. CASE SessionHealth(c)
  <2>1. TypeOK'
    BY <1>2 DEF SessionHealth
  <2>2. (AddInv /\ ActiveInv /\ UpInv /\ PumpInv)'
    BY <1>2 DEF SessionHealth
  <2>3. (SelectInv /\ ModeInv /\ FreshInv)'
    BY <1>2 DEF SessionHealth
  <2>. QED  BY <2>1, <2>2, <2>3
<1>. QED  BY <1>1, <1>2

LEMMA NextKeepsInv == AppInv /\ [Next]_vars => AppInv'
<1>. SUFFICES ASSUME AppInv, [Next]_vars
              PROVE  AppInv'
  OBVIOUS
<1>1. CASE UNCHANGED vars
  <2>1. TypeOK'
    BY <1>1 DEF AppInv, TypeOK, vars
  <2>2. (AddInv /\ ActiveInv /\ UpInv /\ PumpInv /\ SelectInv /\ ModeInv /\ FreshInv)'
    BY <1>1 DEF AppInv, AddInv, ActiveInv, UpInv, PumpInv, SelectInv, ModeInv,
                FreshInv, vars
  <2>. QED  BY <2>1, <2>2 DEF AppInv
<1>2. ASSUME NEW c \in Conn, AddStep(c) \/ SessionCloses(c) \/ SessionHealth(c)
      PROVE  AppInv'
  BY <1>2, AddStepKeepsInv, SessionsKeepInv
<1>. QED
  BY <1>1, <1>2, PumpStepKeepsInv, TimersKeepInv, UserKeepsInv DEF Next

LEMMA Invariance == Spec => []AppInv
  BY InitEstablishesInv, NextKeepsInv, PTL DEF Spec

-----------------------------------------------------------------------------
\* Every variable has its type: what is selected is a tab, only tabs carry a sign,
\* and no more dialogs are stacked than the bound lets.
THEOREM TypeCorrect == Spec => []TypeOK
<1>1. AppInv => TypeOK
  BY DEF AppInv
<1>. QED  BY <1>1, Invariance, PTL

\* A session that is up can be reached by its tab, and a tab shows a session,
\* however opening, closing and quitting interleave.
THEOREM SessionsHaveTabs == Spec => []TabsAreSessions
<1>1. AppInv => TabsAreSessions
  BY DEF AppInv, AddInv, UpInv, PumpInv, TypeOK, TabsAreSessions
<1>. QED  BY <1>1, Invariance, PTL

\* Once no message of Tabs is on its way and no handler runs, the keys act on the
\* tab that the user sees selected.
THEOREM KeysActOnSelected == Spec => []ActiveIsSelected
<1>1. AppInv => ActiveIsSelected
  BY DEF AppInv, SelectInv, ActiveIsSelected
<1>. QED  BY <1>1, Invariance, PTL

\* With a session up, _active_mode tells the mode that the driver is locked in: a
\* connection gets the clear message just when the driver would refuse it.
THEOREM ModeCheckIsExact == Spec => ClearOnceUp
<1>1. ASSUME AppInv, [Next]_vars, NEW c \in Conn, active_mode # None,
             add[c] = "check", add'[c] # "check"
      PROVE  add'[c] = "refused" <=> DriverConflict(c)
  <2>1. ModeConflict(c) <=> DriverConflict(c)
    BY <1>1 DEF AppInv, ModeInv, ModeConflict, DriverConflict
  <2>. DOMAIN add = Conn
    BY <1>1 DEF AppInv, TypeOK
  <2>2. CASE AddStep(c)
    <3>1. CASE AddRefused(c)
      <4>1. DriverConflict(c)
        BY <2>1, <3>1 DEF AddRefused
      <4>2. add'[c] = "refused"
        BY <3>1 DEF AddRefused
      <4>. QED  BY <4>1, <4>2
    <3>2. CASE AddDemo(c)
      <4>1. ~DriverConflict(c)
        BY <3>2 DEF AddDemo, DriverConflict
      <4>2. add'[c] = "mount"
        BY <3>2 DEF AddDemo, Register
      <4>. QED  BY <4>1, <4>2
    <3>3. CASE AddConnects(c) \/ AddRaises(c)
      <4>1. ~DriverConflict(c)
        BY <2>1, <3>3 DEF AddConnects, AddRaises
      <4>2. add'[c] # "refused"
        BY <3>3 DEF AddConnects, AddRaises
      <4>. QED  BY <4>1, <4>2
    <3>4. ~(AddConnected(c) \/ AddFails(c) \/ AddTab(c))
      BY <1>1 DEF AddConnected, AddFails, AddTab
    <3>. QED  BY <2>2, <3>1, <3>2, <3>3, <3>4 DEF AddStep
  <2>3. CASE \E d \in Conn \ {c} : AddStep(d)
    BY <1>1, <2>3 DEF AppInv, TypeOK, AddStep, AddRefused, AddDemo, AddConnects,
       AddRaises, AddConnected, AddFails, AddTab, Register
  <2>4. CASE UNCHANGED add
    BY <1>1, <2>4
  <2>5. CASE StartupNext
    BY <1>1, <2>5 DEF AppInv, TypeOK, StartupNext
  <2>6. CASE \E d \in Conn : ModalConfirmed(d)
    BY <1>1, <2>6 DEF AppInv, TypeOK, ModalConfirmed
  <2>7. \/ \E d \in Conn : AddStep(d) \/ ModalConfirmed(d)
        \/ StartupNext \/ UNCHANGED add
    BY <1>1 DEF Next, vars, PumpStep, Timers, User, TabActivated, TabClosed,
       TabCloseRaised, PaneRemoved, UnmountNext, Unmounted, PromptFires, Tick,
       RefreshLabel, CloseTab, NewConnection, ModalCancelled, Quit, SelectTab,
       SessionCloses, SessionHealth
  <2>. QED  BY <2>2, <2>3, <2>4, <2>5, <2>6, <2>7
<1>2. AppInv /\ [Next]_vars =>
        [ \A c \in Conn :
            active_mode # None /\ add[c] = "check" /\ add'[c] # "check"
              => (add'[c] = "refused" <=> DriverConflict(c)) ]_vars
  BY <1>1
<1>. QED  BY <1>2, Invariance, PTL DEF Spec, ClearOnceUp

-----------------------------------------------------------------------------
(* KeepsContracts *)

\* A step that leaves the session of c alone.
LEMMA UntouchedKeepsContract ==
  ASSUME NEW c \in Conn,
         state'[c] = state[c], usable'[c] = usable[c], healthy'[c] = healthy[c]
  PROVE  [Session(c)!Next]_(Session(c)!vars)
  BY DEF Session!vars

LEMMA ContractsBegin == Init => \A c \in Conn : Session(c)!Init
<1>. SUFFICES ASSUME Init, NEW c \in Conn
              PROVE  Session(c)!Init
  OBVIOUS
<1>1. state[c] = "new" /\ healthy[c] = TRUE
  BY DEF Init
<1>2. usable[c] \in BOOLEAN
  <2>1. usable[c] = (kind[c] = "demo")
    BY DEF Init
  <2>. QED  BY <2>1, Zenon
<1>. QED  BY <1>1, <1>2 DEF Session!Init

\* connect() ends in one way or the other, once, with the pool it has made.
LEMMA AddStepKeepsContract ==
  ASSUME AppInv, NEW c \in Conn, NEW d \in Conn, AddStep(d)
  PROVE  [Session(c)!Next]_(Session(c)!vars)
<1>1. CASE d # c
  <2>1. /\ state'[c] = state[c] /\ usable'[c] = usable[c] /\ healthy'[c] = healthy[c]
    BY <1>1 DEF AppInv, TypeOK, AddStep, AddRefused, AddDemo, AddConnects, AddRaises,
         AddConnected, AddFails, AddTab, Register
  <2>. QED  BY <2>1, UntouchedKeepsContract
<1>2. CASE d = c
  <2>1. CASE AddRefused(c) \/ AddTab(c)
    <3>1. state'[c] = state[c] /\ usable'[c] = usable[c] /\ healthy'[c] = healthy[c]
      BY <2>1 DEF AddRefused, AddTab
    <3>. QED  BY <3>1, UntouchedKeepsContract
  <2>2. CASE AddDemo(c) \/ AddConnected(c)
    <3>1. state[c] \in {"new", "connecting"}
      BY <2>2 DEF AppInv, AddInv, AddDemo, AddConnected
    <3>2. state'[c] = "up" /\ usable'[c] = TRUE /\ healthy'[c] = healthy[c]
      BY <2>2 DEF AppInv, TypeOK, AddDemo, AddConnected, Register
    <3>. QED  BY <3>1, <3>2 DEF Session!Next, Session!Connect
  <2>3. CASE AddConnects(c) \/ AddRaises(c)
    <3>1. state[c] = "new"
      BY <2>3 DEF AppInv, AddInv, AddConnects, AddRaises
    <3>2. /\ state'[c] \in {"connecting", "failed"}
          /\ usable'[c] = usable[c] /\ healthy'[c] = healthy[c]
      BY <2>3 DEF AppInv, TypeOK, AddConnects, AddRaises
    <3>. QED  BY <3>1, <3>2 DEF Session!Next, Session!Connect
  <2>4. CASE AddFails(c)
    <3>1. state[c] = "connecting" /\ ~usable[c]
      BY <2>4, KindIs DEF AppInv, AddInv, ModeInv, FreshInv, AddFails
    <3>2. state'[c] = "failed" /\ healthy'[c] = healthy[c]
      BY <2>4 DEF AppInv, TypeOK, AddFails
    <3>. QED  BY <3>1, <3>2 DEF Session!Next, Session!Connect
  <2>. QED  BY <1>2, <2>1, <2>2, <2>3, <2>4 DEF AddStep
<1>. QED  BY <1>1, <1>2

\* close() is called once, of a session that is up, and ends.
LEMMA ClosingKeepsContract ==
  ASSUME AppInv, NEW c \in Conn, CloseTab \/ UnmountNext
  PROVE  [Session(c)!Next]_(Session(c)!vars)
<1>1. usable'[c] = usable[c] /\ healthy'[c] = healthy[c]
  BY DEF CloseTab, UnmountNext, sessionVars
<1>2. \/ state'[c] = state[c]
      \/ state[c] = "up" /\ state'[c] = "closing"
  BY DEF AppInv, TypeOK, UpInv, PumpInv, CloseTab, UnmountNext
<1>3. CASE state'[c] = state[c]
  BY <1>1, <1>3, UntouchedKeepsContract
<1>4. CASE state[c] = "up" /\ state'[c] = "closing"
  BY <1>1, <1>4 DEF Session!Next, Session!Close
<1>. QED  BY <1>2, <1>3, <1>4

LEMMA SessionsKeepContract ==
  ASSUME AppInv, NEW c \in Conn, NEW d \in Conn, SessionCloses(d) \/ SessionHealth(d)
  PROVE  [Session(c)!Next]_(Session(c)!vars)
<1>1. CASE d # c
  <2>1. /\ state'[c] = state[c] /\ usable'[c] = usable[c] /\ healthy'[c] = healthy[c]
    BY <1>1 DEF AppInv, TypeOK, SessionCloses, SessionHealth
  <2>. QED  BY <2>1, UntouchedKeepsContract
<1>2. CASE SessionCloses(c)
  <2>1. /\ state[c] = "closing" /\ healthy'[c] = healthy[c]
        /\ \/ state'[c] = "closed" /\ ~usable'[c]
           \/ state'[c] = "raised" /\ usable[c] /\ usable'[c] = usable[c]
    BY <1>2 DEF AppInv, TypeOK, SessionCloses
  <2>. QED  BY <2>1 DEF Session!Next, Session!Close
<1>3. CASE SessionHealth(c)
  <2>1. /\ state[c] \in {"up", "closing"} /\ state'[c] = state[c]
        /\ healthy'[c] => usable'[c]
    BY <1>3 DEF AppInv, TypeOK, SessionHealth
  <2>. QED  BY <2>1 DEF Session!Next, Session!Health
<1>. QED  BY <1>1, <1>2, <1>3

LEMMA NextKeepsContracts ==
  ASSUME AppInv, [Next]_vars, NEW c \in Conn
  PROVE  [Session(c)!Next]_(Session(c)!vars)
<1>1. CASE UNCHANGED sessionVars
  <2>1. state'[c] = state[c] /\ usable'[c] = usable[c] /\ healthy'[c] = healthy[c]
    BY <1>1 DEF sessionVars
  <2>. QED  BY <2>1, UntouchedKeepsContract
<1>2. \/ UNCHANGED sessionVars
      \/ CloseTab \/ UnmountNext
      \/ \E d \in Conn : AddStep(d) \/ SessionCloses(d) \/ SessionHealth(d)
  <2>1. PumpStep => UnmountNext \/ UNCHANGED sessionVars
    BY DEF PumpStep, StartupNext, TabActivated, TabClosed, TabCloseRaised, PaneRemoved,
           Unmounted
  <2>2. Timers => UNCHANGED sessionVars
    BY DEF Timers, PromptFires, Tick, RefreshLabel
  <2>3. User => CloseTab \/ UNCHANGED sessionVars
    BY DEF User, NewConnection, ModalCancelled, Quit, SelectTab, ModalConfirmed
  <2>. QED  BY <2>1, <2>2, <2>3 DEF Next, vars
<1>. QED
  BY <1>1, <1>2, AddStepKeepsContract, ClosingKeepsContract, SessionsKeepContract

\* The application keeps to the contract of TabSession with every session:
\* connect() once, close() at most once and of a session that is up, though two
\* handlers call it and a close() that raised leaves its tab to be closed again.
THEOREM ContractsAreKept == Spec => KeepsContracts
<1>1. AppInv /\ [Next]_vars => \A c \in Conn : [Session(c)!Next]_(Session(c)!vars)
  BY NextKeepsContracts
<1>. QED  BY <1>1, ContractsBegin, Invariance, PTL DEF Spec, KeepsContracts
=============================================================================
