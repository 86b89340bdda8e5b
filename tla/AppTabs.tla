-------------------------------- MODULE AppTabs --------------------------------
(***************************************************************************)
(* The application of app.py around its connection tabs: _sessions,        *)
(* _active_id and the process-wide _active_mode; the Tabs and              *)
(* ContentSwitcher widgets; on_mount(), _add_connection_tab(),             *)
(* on_tabs_tab_activated(), action_close_tab(), on_unmount() and the       *)
(* timers.                                                                 *)
(*                                                                         *)
(* Textual runs the handlers of the application one at a time; pump says   *)
(* which one is at an await.  A confirmed dialog starts its                *)
(* _add_connection_tab() as a task of its own, and timers run in their own *)
(* tasks, so both interleave with the handler.                             *)
(*                                                                         *)
(* A session is known only by what TabSession promises.                    *)
(***************************************************************************)
EXTENDS Naturals, Sequences, FiniteSets, SequencesExt

CONSTANTS
  Conn,      \* the connections that may be opened, each with its session's id
  Startup,   \* those that may be given on the command line
  Kinds,     \* what a connection may be: "Thin", "Thick", "demo"
  None,      \* the value None of _active_id and _active_mode
  ModalMax,  \* bound: dialogs stacked on each other
  ClickMax   \* bound: unprocessed TabActivated messages the user may add to

ASSUME AppAssumption ==
  /\ Startup \subseteq Conn
  /\ Kinds \subseteq {"Thin", "Thick", "demo"}
  /\ None \notin Conn \cup {"Thin", "Thick"}
  /\ ModalMax \in Nat \ {0}
  /\ ClickMax \in Nat \ {0}

VARIABLES
  kind,         \* what each connection is
  driver,       \* the mode the driver is locked in, for the whole process
  add,          \* add[c]: where _add_connection_tab() of c is
  state,        \* state[c], usable[c], healthy[c]: the session, see TabSession
  usable,
  healthy,
  sessions,     \* the keys of _sessions
  active_id,    \* _active_id
  active_mode,  \* _active_mode
  tabs,         \* the tabs of the Tabs widget
  selected,     \* the tab Tabs shows as selected, or None
  activations,  \* the TabActivated messages on their way to the application
  panes,        \* the mounted panes
  signs,        \* the tabs whose label carries the warning sign
  relabel,      \* the sessions whose _refresh_tab_label() timer is set
  pump,         \* the handler that is at an await
  target,       \* session_id of action_close_tab(), or what on_unmount() closes
  todo,         \* what on_mount() still opens, or on_unmount() still closes
  prompt,       \* the _prompt_if_empty() timer is set
  modals        \* the AddConnectionModal dialogs that are open

sessionVars == <<state, usable, healthy>>
tabVars == <<tabs, selected, activations, panes>>
labelVars == <<signs, relabel>>
dialogVars == <<prompt, modals>>
pumpVars == <<pump, target, todo>>
modeVars == <<kind, driver, active_mode>>

vars == <<modeVars, add, sessionVars, sessions, active_id, tabVars, labelVars,
          pumpVars, dialogVars>>

TypeOK ==
  /\ kind \in [Conn -> Kinds]
  /\ driver \in {None, "Thin", "Thick"}
  /\ active_mode \in {None, "Thin", "Thick"}
  /\ add \in [Conn -> {"none", "check", "connect", "mount", "done", "refused",
                       "failed", "cryptic"}]
  /\ state \in [Conn -> {"new", "connecting", "failed", "up", "closing",
                         "closed", "raised"}]
  /\ usable \in [Conn -> BOOLEAN]
  /\ healthy \in [Conn -> BOOLEAN]
  /\ sessions \subseteq Conn
  /\ active_id \in Conn \cup {None}
  /\ tabs \subseteq Conn
  /\ selected \in tabs \cup {None}
  /\ activations \in Seq(Conn)
  /\ panes \subseteq Conn
  /\ signs \subseteq tabs
  /\ relabel \subseteq Conn
  /\ pump \in {"startup", "free", "closing", "removing", "unmount", "down"}
  /\ target \in Conn \cup {None}
  /\ todo \subseteq Conn
  /\ prompt \in BOOLEAN
  /\ modals \in 0..ModalMax

\* Without connections on the command line on_mount() opens the dialog.
Init ==
  /\ kind \in [Conn -> Kinds]
  /\ driver = None
  /\ add = [c \in Conn |-> "none"]
  /\ state = [c \in Conn |-> "new"]
  /\ usable = [c \in Conn |-> kind[c] = "demo"]
  /\ healthy = [c \in Conn |-> TRUE]
  /\ sessions = {}
  /\ active_id = None
  /\ active_mode = None
  /\ tabs = {}
  /\ selected = None
  /\ activations = <<>>
  /\ panes = {}
  /\ signs = {}
  /\ relabel = {}
  /\ todo \in SUBSET Startup
  /\ pump = IF todo = {} THEN "free" ELSE "startup"
  /\ target = None
  /\ prompt = FALSE
  /\ modals = IF todo = {} THEN 1 ELSE 0

Running == pump # "down"

-----------------------------------------------------------------------------
(* _add_connection_tab() *)

\* on_mount() opens the connections of the command line one after the other.
StartupNext ==
  /\ pump = "startup"
  /\ \A c \in Conn : add[c] \notin {"check", "connect", "mount"}
  /\ IF todo = {}
       THEN pump' = "free" /\ UNCHANGED <<add, todo>>
       ELSE \E c \in todo :
              /\ todo' = todo \ {c}
              /\ add' = [add EXCEPT ![c] = "check"]
              /\ UNCHANGED pump
  /\ UNCHANGED <<modeVars, sessionVars, sessions, active_id, tabVars, labelVars,
                 target, dialogVars>>

\* Mutant: the mode is not checked.
Unchecked(c) == c \notin Conn

\* The process-wide mode is locked in another mode than c asks for.
ModeConflict(c) ==
  kind[c] # "demo" /\ active_mode # None /\ active_mode # kind[c]

\* oracledb itself is in another mode than c asks for, whatever _active_mode
\* says: connect() raises the driver's own error.
DriverConflict(c) ==
  kind[c] # "demo" /\ driver # None /\ driver # kind[c]

\* Mutant: the session is registered only after its pane is mounted.
RegisterLater(c) ==
  /\ state' = [state EXCEPT ![c] = "up"]
  /\ usable' = [usable EXCEPT ![c] = TRUE]
  /\ active_mode' = IF kind[c] = "demo" THEN active_mode ELSE kind[c]
  /\ panes' = panes \cup {c}
  /\ add' = [add EXCEPT ![c] = "mount"]
  /\ UNCHANGED sessions

\* The session is up: lock the mode, register the session, start mounting its
\* pane, all before the next await.
Register(c) ==
  /\ state' = [state EXCEPT ![c] = "up"]
  /\ usable' = [usable EXCEPT ![c] = TRUE]
  /\ active_mode' = IF kind[c] = "demo" THEN active_mode ELSE kind[c]
  /\ sessions' = sessions \cup {c}
  /\ panes' = panes \cup {c}
  /\ add' = [add EXCEPT ![c] = "mount"]

\* The check of the mode, and connect() up to its first await.  Creating a
\* thin pool, or initialising the thick client, locks the driver at once.
AddRefused(c) ==
  /\ Running
  /\ add[c] = "check"
  /\ ModeConflict(c)
  /\ add' = [add EXCEPT ![c] = "refused"]
  /\ UNCHANGED <<modeVars, sessionVars, sessions, active_id, tabVars, labelVars,
                 pumpVars, dialogVars>>

AddDemo(c) ==
  /\ Running
  /\ add[c] = "check"
  /\ kind[c] = "demo"
  /\ Register(c)
  /\ UNCHANGED <<kind, driver, healthy, active_id, tabs, selected, activations,
                 labelVars, pumpVars, dialogVars>>

AddConnects(c) ==
  /\ Running
  /\ add[c] = "check"
  /\ kind[c] # "demo"
  /\ ~ModeConflict(c)
  /\ ~DriverConflict(c)
  /\ driver' = kind[c]
  /\ state' = [state EXCEPT ![c] = "connecting"]
  /\ add' = [add EXCEPT ![c] = "connect"]
  /\ UNCHANGED <<kind, active_mode, usable, healthy, sessions, active_id, tabVars,
                 labelVars, pumpVars, dialogVars>>

\* connect() raises before its first await: the driver refuses the mode, or
\* the client library, the wallet or the parameters are no good.
AddRaises(c) ==
  /\ Running
  /\ add[c] = "check"
  /\ kind[c] # "demo"
  /\ ~ModeConflict(c)
  /\ add' = [add EXCEPT ![c] = IF DriverConflict(c) THEN "cryptic" ELSE "failed"]
  /\ state' = [state EXCEPT ![c] = "failed"]
  /\ UNCHANGED <<modeVars, usable, healthy, sessions, active_id, tabVars,
                 labelVars, pumpVars, dialogVars>>

AddConnected(c) ==
  /\ Running
  /\ add[c] = "connect"
  /\ Register(c)
  /\ UNCHANGED <<kind, driver, healthy, active_id, tabs, selected, activations,
                 labelVars, pumpVars, dialogVars>>

\* connect() raises later, with or without a pool left open.
AddFails(c) ==
  /\ Running
  /\ add[c] = "connect"
  /\ add' = [add EXCEPT ![c] = "failed"]
  /\ state' = [state EXCEPT ![c] = "failed"]
  /\ \E b \in BOOLEAN : usable' = [usable EXCEPT ![c] = b]
  /\ UNCHANGED <<modeVars, healthy, sessions, active_id, tabVars, labelVars,
                 pumpVars, dialogVars>>

\* Tabs selects its first tab, and may or may not select a later one, and
\* tells the application.
Selects(c) ==
  \/ selected' = c /\ activations' = Append(activations, c)
  \/ selected # None /\ UNCHANGED <<selected, activations>>

\* The pane is mounted: add the tab and set the timer that renames it.
AddTab(c) ==
  /\ Running
  /\ add[c] = "mount"
  /\ tabs' = tabs \cup {c}
  /\ Selects(c)
  /\ relabel' = relabel \cup {c}
  /\ add' = [add EXCEPT ![c] = "done"]
  /\ UNCHANGED <<modeVars, sessionVars, sessions, active_id, panes, signs,
                 pumpVars, dialogVars>>

-----------------------------------------------------------------------------
(* Selecting and closing tabs *)

\* The user selects another tab.
SelectTab(c) ==
  /\ Running
  /\ c \in tabs \ {selected}
  /\ Len(activations) < ClickMax
  /\ selected' = c
  /\ activations' = Append(activations, c)
  /\ UNCHANGED <<modeVars, add, sessionVars, sessions, active_id, tabs, panes,
                 labelVars, pumpVars, dialogVars>>

\* Mutant: a tab whose session is not in _sessions is not followed.
TabActivatedKnown ==
  /\ pump = "free"
  /\ activations # <<>>
  /\ active_id' = IF Head(activations) \in sessions THEN Head(activations) ELSE active_id
  /\ activations' = Tail(activations)
  /\ UNCHANGED <<modeVars, add, sessionVars, sessions, tabs, selected, panes,
                 labelVars, pumpVars, dialogVars>>

\* on_tabs_tab_activated(): the application follows.
TabActivated ==
  /\ pump = "free"
  /\ activations # <<>>
  /\ active_id' = Head(activations)
  /\ activations' = Tail(activations)
  /\ UNCHANGED <<modeVars, add, sessionVars, sessions, tabs, selected, panes,
                 labelVars, pumpVars, dialogVars>>

\* action_close_tab() after session.close(), or at once when the session is
\* not in _sessions any more: remove the tab, and start removing the pane.
\* Tabs selects a neighbour of a selected tab that goes.
RemoveTab(c) ==
  /\ pump' = "removing"
  /\ tabs' = tabs \ {c}
  /\ signs' = signs \ {c}
  /\ IF selected # c
       THEN UNCHANGED <<selected, activations>>
       ELSE IF tabs' = {}
         THEN selected' = None /\ UNCHANGED activations
         ELSE \E d \in tabs' :
                selected' = d /\ activations' = Append(activations, d)

\* Mutant: the session stays in _sessions until it is closed.
CloseTabKeepsSession ==
  /\ pump = "free"
  /\ active_id # None
  /\ target' = active_id
  /\ IF active_id \in sessions
       THEN /\ state' = [state EXCEPT ![active_id] = "closing"]
            /\ pump' = "closing"
            /\ UNCHANGED <<sessions, tabs, selected, activations, signs>>
       ELSE RemoveTab(active_id) /\ UNCHANGED <<sessions, state>>
  /\ UNCHANGED <<modeVars, add, usable, healthy, active_id, panes, relabel, todo,
                 dialogVars>>

\* action_close_tab(): take the active session out of _sessions and await its
\* close().
CloseTab ==
  /\ pump = "free"
  /\ active_id # None
  /\ target' = active_id
  /\ IF active_id \in sessions
       THEN /\ sessions' = sessions \ {active_id}
            /\ state' = [state EXCEPT ![active_id] = "closing"]
            /\ pump' = "closing"
            /\ UNCHANGED <<tabs, selected, activations, signs>>
       ELSE RemoveTab(active_id) /\ UNCHANGED <<sessions, state>>
  /\ UNCHANGED <<modeVars, add, usable, healthy, active_id, panes, relabel, todo,
                 dialogVars>>

\* session.close() returned: remove the tab.
TabClosed ==
  /\ pump = "closing"
  /\ state[target] = "closed"
  /\ RemoveTab(target)
  /\ UNCHANGED <<modeVars, add, sessionVars, sessions, active_id, panes, relabel,
                 target, todo, dialogVars>>

\* session.close() raised: the exception ends action_close_tab().  Whether the
\* application goes on after it is up to Textual; if not, it unmounts.
TabCloseRaised ==
  /\ pump = "closing"
  /\ state[target] = "raised"
  /\ \/ pump' = "free" /\ UNCHANGED todo
     \/ pump' = "unmount" /\ todo' = sessions
  /\ target' = None
  /\ UNCHANGED <<modeVars, add, sessionVars, sessions, active_id, tabVars,
                 labelVars, dialogVars>>

\* Mutant: closing the last tab sets no timer.
PaneRemovedUnprompted ==
  /\ pump = "removing"
  /\ panes' = panes \ {target}
  /\ pump' = "free"
  /\ target' = None
  /\ active_id' = IF sessions = {} THEN None ELSE active_id
  /\ UNCHANGED <<modeVars, add, sessionVars, sessions, tabs, selected, activations,
                 labelVars, todo, dialogVars>>

\* The pane is gone: when no session is left, forget the active tab and set
\* the timer that offers a new connection.
PaneRemoved ==
  /\ pump = "removing"
  /\ panes' = panes \ {target}
  /\ pump' = "free"
  /\ target' = None
  /\ IF sessions = {}
       THEN active_id' = None /\ prompt' = TRUE
       ELSE UNCHANGED <<active_id, prompt>>
  /\ UNCHANGED <<modeVars, add, sessionVars, sessions, tabs, selected, activations,
                 labelVars, todo, modals>>

-----------------------------------------------------------------------------
(* Dialogs *)

\* action_new_connection() from the key binding, which a dialog on top hides.
NewConnection ==
  /\ pump = "free"
  /\ modals = 0
  /\ modals' = 1
  /\ UNCHANGED <<modeVars, add, sessionVars, sessions, active_id, tabVars,
                 labelVars, pumpVars, prompt>>

\* The dialog is confirmed: a task opens the connection.
ModalConfirmed(c) ==
  /\ Running
  /\ modals > 0
  /\ add[c] = "none"
  /\ c \notin todo
  /\ modals' = modals - 1
  /\ add' = [add EXCEPT ![c] = "check"]
  /\ UNCHANGED <<modeVars, sessionVars, sessions, active_id, tabVars, labelVars,
                 pumpVars, prompt>>

ModalCancelled ==
  /\ Running
  /\ modals > 0
  /\ modals' = modals - 1
  /\ UNCHANGED <<modeVars, add, sessionVars, sessions, active_id, tabVars,
                 labelVars, pumpVars, prompt>>

\* _prompt_if_empty(), in the timer's own task: nobody looks whether a dialog
\* is open already.
PromptFires ==
  /\ Running
  /\ prompt
  /\ prompt' = FALSE
  /\ IF sessions = {} /\ modals < ModalMax
       THEN modals' = modals + 1
       ELSE UNCHANGED modals
  /\ UNCHANGED <<modeVars, add, sessionVars, sessions, active_id, tabVars,
                 labelVars, pumpVars>>

-----------------------------------------------------------------------------
(* Labels *)

\* Mutant: only the active tab's sign is kept.
TickActive ==
  /\ Running
  /\ signs' = {c \in signs : c # active_id}
                \cup {c \in tabs \cap sessions : c = active_id /\ ~healthy[c]}
  /\ UNCHANGED <<modeVars, add, sessionVars, sessions, active_id, tabVars, relabel,
                 pumpVars, dialogVars>>

\* Mutant: the sign is put on before the tab exists.
TickUntabbed ==
  /\ Running
  /\ signs' = (signs \ sessions) \cup {c \in sessions : ~healthy[c]}
  /\ UNCHANGED <<modeVars, add, sessionVars, sessions, active_id, tabVars, relabel,
                 pumpVars, dialogVars>>

\* _tick_refresh(), in the timer's own task: the label of every tab whose
\* session is in _sessions.
Tick ==
  /\ Running
  /\ signs' = (signs \ sessions) \cup {c \in tabs \cap sessions : ~healthy[c]}
  /\ UNCHANGED <<modeVars, add, sessionVars, sessions, active_id, tabVars, relabel,
                 pumpVars, dialogVars>>

\* _refresh_tab_label(), six seconds after the tab was added: the new label
\* has no sign.
RefreshLabel(c) ==
  /\ Running
  /\ c \in relabel
  /\ relabel' = relabel \ {c}
  /\ signs' = signs \ {c}
  /\ UNCHANGED <<modeVars, add, sessionVars, sessions, active_id, tabVars, pumpVars,
                 dialogVars>>

-----------------------------------------------------------------------------
(* on_unmount() *)

Quit ==
  /\ pump = "free"
  /\ pump' = "unmount"
  /\ todo' = sessions
  /\ target' = None
  /\ UNCHANGED <<modeVars, add, sessionVars, sessions, active_id, tabVars,
                 labelVars, dialogVars>>

\* Mutant: whoever is in _sessions is closed, again and again.
UnmountNextAgain ==
  /\ pump = "unmount"
  /\ target = None
  /\ IF todo = {}
       THEN pump' = "down" /\ UNCHANGED <<target, state>>
       ELSE \E c \in todo :
              /\ target' = c
              /\ state' = [state EXCEPT ![c] = "closing"]
              /\ UNCHANGED pump
  /\ UNCHANGED <<modeVars, add, usable, healthy, sessions, active_id, tabVars,
                 labelVars, todo, dialogVars>>

\* The next session to close, or the end of the application.
UnmountNext ==
  /\ pump = "unmount"
  /\ target = None
  /\ IF todo = {}
       THEN pump' = "down" /\ UNCHANGED <<target, todo, state>>
       ELSE \E c \in todo :
              /\ todo' = todo \ {c}
              /\ target' = c
              /\ state' = [state EXCEPT ![c] = "closing"]
              /\ UNCHANGED pump
  /\ UNCHANGED <<modeVars, add, usable, healthy, sessions, active_id, tabVars,
                 labelVars, dialogVars>>

\* session.close() returned, or raised: then nothing closes the others.
Unmounted ==
  /\ pump = "unmount"
  /\ target # None
  /\ \/ state[target] = "closed" /\ target' = None /\ UNCHANGED <<pump, todo>>
     \/ state[target] = "raised" /\ pump' = "down" /\ UNCHANGED <<target, todo>>
  /\ UNCHANGED <<modeVars, add, sessionVars, sessions, active_id, tabVars,
                 labelVars, dialogVars>>

-----------------------------------------------------------------------------
(* The sessions, by their promise *)

\* session.close() ends.  A demo session has no pool the driver could refuse
\* to close.
SessionCloses(c) ==
  /\ Running
  /\ state[c] = "closing"
  /\ \/ /\ state' = [state EXCEPT ![c] = "closed"]
        /\ usable' = [usable EXCEPT ![c] = FALSE]
     \/ /\ usable[c]
        /\ kind[c] # "demo"
        /\ state' = [state EXCEPT ![c] = "raised"]
        /\ UNCHANGED usable
  /\ UNCHANGED <<modeVars, add, healthy, sessions, active_id, tabVars, labelVars,
                 pumpVars, dialogVars>>

\* The health check of a session puts its sign on, loses and regains the pool,
\* and takes the sign off, also while close() stops the scheduler.
SessionHealth(c) ==
  /\ Running
  /\ state[c] \in {"up", "closing"}
  /\ kind[c] # "demo"
  /\ \E h, u \in BOOLEAN :
       /\ h => u
       /\ healthy' = [healthy EXCEPT ![c] = h]
       /\ usable' = [usable EXCEPT ![c] = u]
  /\ UNCHANGED <<modeVars, add, state, sessions, active_id, tabVars, labelVars,
                 pumpVars, dialogVars>>

-----------------------------------------------------------------------------
AddStep(c) ==
  AddRefused(c) \/ AddDemo(c) \/ AddConnects(c) \/ AddRaises(c)
  \/ AddConnected(c) \/ AddFails(c) \/ AddTab(c)

PumpStep ==
  StartupNext \/ TabActivated \/ TabClosed \/ TabCloseRaised \/ PaneRemoved
  \/ UnmountNext \/ Unmounted

Timers == PromptFires \/ Tick \/ \E c \in Conn : RefreshLabel(c)

User ==
  \/ CloseTab \/ NewConnection \/ ModalCancelled \/ Quit
  \/ \E c \in Conn : SelectTab(c) \/ ModalConfirmed(c)

Next ==
  \/ PumpStep \/ Timers \/ User
  \/ \E c \in Conn : AddStep(c) \/ SessionCloses(c) \/ SessionHealth(c)

Spec == Init /\ [][Next]_vars

\* The event loop runs what is ready, timers fire, connect() and close()
\* return.  The user and the health checks owe nothing.
Fairness ==
  /\ WF_vars(PumpStep)
  /\ WF_vars(PromptFires)
  /\ WF_vars(Tick)
  /\ \A c \in Conn : /\ WF_vars(AddStep(c))
                     /\ WF_vars(RefreshLabel(c))
                     /\ WF_vars(SessionCloses(c))

FairSpec == Spec /\ Fairness

-----------------------------------------------------------------------------
(* Properties *)

\* The application calls connect() once and close() at most once, on a session
\* that is up: the promise of TabSession is about nothing else.  It holds
\* although two handlers call close(), and a close() that raised leaves its
\* tab to be closed again.
Session(c) == INSTANCE TabSession WITH
                state <- state[c], usable <- usable[c], healthy <- healthy[c]

KeepsContracts ==
  /\ \A c \in Conn : Session(c)!Init
  /\ [][\A c \in Conn : [Session(c)!Next]_(Session(c)!vars)]_vars

\* A session that is up can be seen, selected and closed: it is in _sessions,
\* with a pane, and with a tab once its pane is mounted.  And what can be seen is
\* there: a tab shows a session that is up or being closed, or one whose close()
\* raised, and every session of _sessions is up, unless the application is going
\* down.
TabsAreSessions ==
  /\ \A c \in Conn : state[c] = "up" =>
       /\ c \in sessions \cap panes
       /\ c \in tabs \/ add[c] = "mount"
  /\ tabs \subseteq panes
  /\ \A c \in tabs : \/ state[c] \in {"up", "closing", "raised"}
                     \/ pump \in {"closing", "unmount", "down"}
  /\ pump \notin {"unmount", "down"} => \A c \in sessions : state[c] = "up"

\* Once the application has caught up with Tabs, the keys act on the tab the
\* user sees selected, however messages, closing and new tabs interleave.
\* (With no session left only close_tab remains, for a tab left behind.)
ActiveIsSelected ==
  pump = "free" /\ activations = <<>> /\ tabs # {} => active_id = selected

\* Once a database session has come up, the check of the mode is exact: of the
\* connections added from then on, those the driver would refuse get the clear
\* message, and nobody else does, although other connections of either mode may
\* have been at their await, or have failed, when it came up.
ClearOnceUp ==
  [][ \A c \in Conn :
        active_mode # None /\ add[c] = "check" /\ add'[c] # "check"
          => (add'[c] = "refused" <=> DriverConflict(c)) ]_vars

\* Closing the last tab offers a new connection, unless one has been opened
\* or the application is going down.
LastTabPrompts ==
  pump = "removing" /\ sessions = {}
    ~> modals > 0 \/ sessions # {} \/ pump \in {"unmount", "down"}

\* A session that stays unhealthy shows its sign, whatever tab is active.
SignAppears ==
  \A c \in Conn :
    <>[](Running /\ c \in sessions \cap tabs /\ ~healthy[c]) => <>[](c \in signs)

\* Quitting ends, whatever close() does.
QuitEnds == pump = "unmount" ~> pump = "down"

-----------------------------------------------------------------------------
(* What a comment says, and a violation run refutes. *)

\* "Block a conflicting mode with a clear message instead of a cryptic driver
\* error": nobody meets the driver's error.
ClearModeMessage == \A c \in Conn : add[c] # "cryptic"
=============================================================================
