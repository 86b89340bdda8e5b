-------------------------- MODULE AddConnectionModal --------------------------
(***************************************************************************)
(* widgets/add_connection_modal.py: the dialog of one instance, Me, over   *)
(* the store that it shares with the others.  Its handlers run one at a    *)
(* time, from a queue into which the list of saved connections and the     *)
(* buttons post.  The list is a widget with a queue of its own: the user   *)
(* may move its highlight while a handler of the dialog awaits clear() or  *)
(* append(), so a message may speak of a list that is gone.                *)
(*                                                                         *)
(* A highlight is a position in the list, 0 for none.                      *)
(***************************************************************************)
EXTENDS ConnectionsStore, SequencesExt

CONSTANTS
  Me,        \* the instance whose dialog is followed
  InboxMax   \* bound: the messages that wait for the dialog

ASSUME ModalAssumption == Me \in Instance /\ InboxMax \in Nat

VARIABLES
  dialog,    \* "closed", "filling", "ready", "removing", "clearing",
             \* "saving"; "down": a handler raised
  _saved,    \* the connections of the list
  items,     \* what the list shows
  cursor,    \* the highlight of the list
  _highlighted_idx,
  filled,    \* the saved connection the form was filled from
  inbox,     \* messages: positions highlighted, buttons pressed
  late       \* history: a highlight was handled after its list was gone

modalVars == <<dialog, _saved, items, cursor, _highlighted_idx, filled, inbox,
               late>>
vars == <<storeVars, modalVars>>

\* A message: which button or highlight, the position, and what the user saw
\* highlighted when it was posted.
Message == [kind : {"highlight", "delete", "connect"}, pos : Nat,
            seen : Entry \cup {None}]

Seen == IF cursor = 0 THEN None ELSE items[cursor]

TypeOK ==
  /\ StoreTypeOK
  /\ dialog \in {"closed", "filling", "ready", "removing", "clearing", "saving",
                 "down"}
  /\ _saved \in Seq(Entry)
  /\ items \in Seq(Entry)
  /\ cursor \in 0..Len(items)
  /\ dialog # "down" => _highlighted_idx \in 0..Len(_saved)
  /\ filled \in Entry \cup {None}
  /\ inbox \in Seq(Message) /\ Len(inbox) <= InboxMax + 1
  /\ late \in BOOLEAN

Blank ==
  /\ _saved = <<>>
  /\ items = <<>>
  /\ cursor = 0
  /\ _highlighted_idx = 0
  /\ filled = None
  /\ inbox = <<>>

Init == StoreInit /\ dialog = "closed" /\ Blank /\ late = FALSE

-----------------------------------------------------------------------------
(* The list *)

\* The user highlights a line, with a key or a click; or presses a button.
\* Meanwhile the dialog may await; but not while it saves or removes, which
\* it does without an await.
UserMay ==
  /\ dialog \in {"filling", "ready", "clearing"}
  /\ Len(inbox) < InboxMax

Highlight ==
  /\ UserMay
  /\ \E n \in 1..Len(items) :
       /\ n # cursor
       /\ cursor' = n
       /\ inbox' = Append(inbox, [kind |-> "highlight", pos |-> n,
                                  seen |-> items[n]])
  /\ UNCHANGED <<storeVars, dialog, _saved, items, _highlighted_idx, filled, late>>

Press(button) ==
  /\ UserMay
  /\ inbox' = Append(inbox, [kind |-> button, pos |-> 0, seen |-> Seen])
  /\ UNCHANGED <<storeVars, dialog, _saved, items, cursor, _highlighted_idx,
                 filled, late>>

-----------------------------------------------------------------------------
(* Handlers *)

\* on_mount(): the dialog opens and loads the list.
Open ==
  /\ dialog = "closed"
  /\ at[Me] = "idle"
  /\ dialog' = "clearing"
  /\ _saved' = SetToSeq(load_connections)
  /\ UNCHANGED <<storeVars, items, cursor, _highlighted_idx, filled, inbox, late>>

\* Mutant: the highlight is kept for the lines that come next.
ClearedKeepsHighlight ==
  /\ dialog = "clearing"
  /\ dialog' = "filling"
  /\ items' = <<>>
  /\ UNCHANGED <<storeVars, _saved, cursor, _highlighted_idx, filled, inbox, late>>

\* The await of clear() is over: the lines are gone, and with them the
\* highlight, about which the list posts a message.
Cleared ==
  /\ dialog = "clearing"
  /\ dialog' = "filling"
  /\ items' = <<>>
  /\ cursor' = 0
  /\ inbox' = IF cursor = 0 THEN inbox
              ELSE Append(inbox, [kind |-> "highlight", pos |-> 0, seen |-> None])
  /\ UNCHANGED <<storeVars, _saved, _highlighted_idx, filled, late>>

\* The await of an append() is over, or that of the last.
Appended ==
  /\ dialog = "filling"
  /\ IF Len(items) < Len(_saved)
       THEN items' = Append(items, _saved[Len(items) + 1]) /\ UNCHANGED dialog
       ELSE dialog' = "ready" /\ UNCHANGED items
  /\ UNCHANGED <<storeVars, _saved, cursor, _highlighted_idx, filled, inbox, late>>

\* on_list_view_highlighted(), on_list_view_selected(): an index that is
\* beyond the list raises, and the application ends.
Highlighted ==
  LET n == Head(inbox).pos
  IN  /\ dialog = "ready"
      /\ inbox # <<>> /\ Head(inbox).kind = "highlight"
      /\ inbox' = Tail(inbox)
      /\ _highlighted_idx' = n
      /\ IF n \in 1..Len(_saved)
           THEN filled' = _saved[n] /\ UNCHANGED dialog
           ELSE /\ dialog' = IF n = 0 THEN dialog ELSE "down"
                /\ UNCHANGED filled
      /\ late' = ( \/ late
                   \/ n > Len(_saved)
                   \/ n \in 1..Len(_saved) /\ Head(inbox).seen # _saved[n] )
      /\ UNCHANGED <<storeVars, _saved, items, cursor>>

\* _delete_highlighted() without a highlight notifies, and otherwise removes
\* the connection at that position.
DeletePressed ==
  /\ dialog = "ready"
  /\ inbox # <<>> /\ Head(inbox).kind = "delete"
  /\ inbox' = Tail(inbox)
  /\ IF _highlighted_idx \in 1..Len(_saved)
       THEN CallRemove(Me, _saved[_highlighted_idx].key) /\ dialog' = "removing"
       ELSE UNCHANGED <<storeVars, dialog>>
  /\ UNCHANGED <<_saved, items, cursor, _highlighted_idx, filled, late>>

\* Mutant: the index is kept over the reload.
IndexKept == _highlighted_idx

\* What a delete leaves highlighted, for the dialog.
IndexAfterDelete == 0

\* remove_connection() has returned: the index is reset, the list reloaded.
Deleted ==
  /\ dialog = "removing"
  /\ at[Me] = "idle"
  /\ dialog' = "clearing"
  /\ _highlighted_idx' = IndexAfterDelete
  /\ _saved' = SetToSeq(load_connections)
  /\ UNCHANGED <<storeVars, items, cursor, filled, inbox, late>>

\* dismiss(): the dialog is gone.
Close ==
  /\ dialog' = "closed"
  /\ _saved' = <<>> /\ items' = <<>> /\ cursor' = 0 /\ _highlighted_idx' = 0
  /\ filled' = None /\ inbox' = <<>>

\* _submit(): the form holds whatever the user typed over what it was filled
\* with.  It is saved by _persist(), or not saved, or refused.
ConnectPressed ==
  /\ dialog = "ready"
  /\ inbox # <<>> /\ Head(inbox).kind = "connect"
  /\ \/ \E k \in Key : CallSave(Me, k)
        /\ dialog' = "saving"
        /\ inbox' = Tail(inbox)
        /\ UNCHANGED <<_saved, items, cursor, _highlighted_idx, filled>>
     \/ Close /\ UNCHANGED storeVars
     \/ /\ inbox' = Tail(inbox)
        /\ UNCHANGED <<storeVars, dialog, _saved, items, cursor,
                       _highlighted_idx, filled>>
  /\ UNCHANGED late

SavedAndClosed ==
  /\ dialog = "saving"
  /\ at[Me] = "idle"
  /\ Close
  /\ UNCHANGED <<storeVars, late>>

\* Cancel, escape, and "Live Demo".
Cancel ==
  /\ dialog = "ready"
  /\ Close
  /\ UNCHANGED <<storeVars, late>>

\* The instance dies, or is started again after that.
MeDies == Die(Me) /\ Close /\ UNCHANGED late

Restart ==
  /\ dialog = "down"
  /\ Close
  /\ UNCHANGED <<storeVars, late>>

Handler ==
  \/ Open \/ Cleared \/ Appended \/ Highlighted \/ DeletePressed \/ Deleted
  \/ ConnectPressed \/ SavedAndClosed \/ Cancel

OtherInstances ==
  \E i \in Instance :
    /\ \/ i # Me /\ (CallStep(i) \/ Die(i))
       \/ StoreStep(i)
    /\ UNCHANGED modalVars

Next ==
  \/ Highlight \/ Press("delete") \/ Press("connect")
  \/ Handler \/ MeDies \/ Restart \/ OtherInstances

Spec == Init /\ [][Next]_vars

-----------------------------------------------------------------------------
(* Properties *)

\* Delete removes the connection that was highlighted when it was pressed, or
\* none, though messages queue up and the list is reloaded in between: unless
\* the highlight was moved on a list that was being reloaded.
DeletesWhatWasSeen ==
  [][~late /\ dialog' = "removing" /\ dialog = "ready" =>
       /\ Head(inbox).seen # None
       /\ arg'[Me].key = Head(inbox).seen.key]_vars
=============================================================================
