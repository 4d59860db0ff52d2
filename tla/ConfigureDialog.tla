----------------------------- MODULE ConfigureDialog -----------------------------
(***************************************************************************)
(* The window in which the graphical client shows the variables of the     *)
(* program and lets the user change them (configure_dialog). It reads them *)
(* when it is opened, shows most of them twice (in a panel of their own    *)
(* and, as text, in the advanced panel), and writes back what differs from *)
(* what it read, while other clients set variables as well.                *)
(*                                                                         *)
(* Each call of the client library is a step; modules Client and Settings  *)
(* have what happens within one.                                           *)
(***************************************************************************)
EXTENDS Integers, FiniteSets, Sequences, SequencesExt, SubSequences

CONSTANTS
  Vars,            \* the variables of the program
  ListOrder,       \* Vars in the order of VAR LIST
  PanelOrder,      \* those that have a panel of their own, in the order of ok
  EnableReconnect, \* one of them
  RouterShown,     \* variables of the router that are shown
  RouterPassword,  \* the one that is not
  Boxes, RetryBox, \* the panels are boxes, one of them the other way round,
  Selections,         \* lists with one line selected,
  Fields,          \* and texts, of one line or several
  Texts,           \* what a variable may be set to
  On, Off, NoText,
  Lines,           \* the texts of Selections
  FirstLine,
  Refusals,        \* what the program refuses to set
  InitialConfigs,  \* what the program is set to when the client connects
  NotListed,       \* in the place of a variable that was not read
  MaxEdits,        \* bound: changes the user makes in the window
  MaxOthers        \* bound: variables set by other clients meanwhile

RouterVars == RouterShown \cup {RouterPassword}
Panels == ToSet(PanelOrder)

ASSUME DialogAssumption ==
  /\ ListOrder \in Seq(Vars) /\ ToSet(ListOrder) = Vars
  /\ IsInjective(ListOrder) /\ PanelOrder \in Seq(Vars)
  /\ EnableReconnect \in Vars \ Panels
  /\ Panels = Boxes \cup Selections \cup Fields
  /\ \A A, B \in {Boxes, Selections, Fields} : A = B \/ A \cap B = {}
  /\ RetryBox \in Boxes
  /\ {On, Off, NoText} \cup Lines \subseteq Texts /\ NotListed \notin Texts
  /\ FirstLine \in Lines
  /\ InitialConfigs \subseteq [Vars \cup RouterVars -> Texts]
  /\ Refusals \subseteq Vars \X Texts
  /\ RouterPassword \notin RouterShown /\ RouterVars \cap Vars = {}
  /\ IsFiniteSet(RouterVars)

VARIABLES
  config,        \* the variables of the program, those of the router among them
  standing,      \* does the connection stand?
  stage,         \* closed, listing, filling, open, saving, saved, dropped
  unread,        \* what is still to be read
  all_variables, \* what VAR LIST said
  panel,         \* what the panels show, as the text that ok makes of it
  advanced,      \* what the advanced panel shows
  left,          \* what ok has still to write
  edits, others, \* counters of the bounds
  touched,       \* auxiliary: the fields the user has changed
  theirs,        \* auxiliary: what config would be without this client
  disturbed      \* auxiliary: what others have set

dialogVars == <<config, standing, stage, unread, all_variables, panel, advanced,
                left, edits, others, touched, theirs, disturbed>>
serverVars == <<config, theirs, disturbed, others>>
fieldVars == <<panel, advanced, touched, edits>>

--------------------------------------------------------------------------------
(* Reading.                                                                 *)

NothingListed == [v \in Vars |-> NotListed]
Blank == [v \in Panels \cup {EnableReconnect} \cup RouterVars |-> NoText]
Closed == stage \in {"closed", "saved", "dropped"}

\* The constructor: get_all_vars asks for the list, as there is a connection
\* (on_configure). No field has been changed. Bound: it is opened once.
OpenDialog ==
  /\ stage = "closed" /\ standing
  /\ stage' = "listing"
  /\ unread' = ListOrder
  /\ all_variables' = NothingListed /\ panel' = Blank /\ advanced' = NothingListed
  /\ touched' = {} /\ disturbed' = {} /\ theirs' = config
  /\ UNCHANGED <<config, others, standing, edits, left>>

\* target_var_list reads one variable after the other. If the connection is lost
\* before the answer is there, there is no list.
ListVariable ==
  /\ stage = "listing" /\ unread # <<>>
  /\ unread' = IF standing THEN Tail(unread) ELSE <<>>
  /\ all_variables' = IF standing
       THEN [all_variables EXCEPT ![Head(unread)] = config[Head(unread)]]
       ELSE NothingListed
  /\ UNCHANGED <<serverVars, standing, stage, fieldVars, left>>

\* get_var for a variable of the list, and what the panels show of it: a box is
\* checked or not, and one line of a list is selected, whatever the text. A field
\* with a line for each part becomes the same text again in ok.
Known(v) == IF all_variables[v] = NotListed THEN NoText ELSE all_variables[v]
BoxText(x) == IF x = On THEN On ELSE Off
RetryText(x) == IF x = Off THEN Off ELSE On
ChoiceText(x) == IF x \in Lines THEN x ELSE FirstLine
FieldText(x) == x
Shown(v) ==
  CASE v = RetryBox -> RetryText(Known(v))
    [] v \in (Boxes \ {RetryBox}) \cup {EnableReconnect} -> BoxText(Known(v))
    [] v \in Selections -> ChoiceText(Known(v))
    [] v \in Fields -> FieldText(Known(v))
\* What the user may make of it.
Enterable(v) == CASE v \in Boxes \cup {EnableReconnect} -> {On, Off}
                  [] v \in Selections -> Lines
                  [] OTHER -> Texts

\* The panels with what all_variables says. Those of the router come next.
FillPanels ==
  /\ stage = "listing" /\ unread = <<>>
  /\ stage' = "filling"
  /\ unread' = SetToSeq(RouterShown)
  /\ panel' = [v \in DOMAIN panel |->
                 IF v \in RouterVars THEN NoText ELSE Shown(v)]
  /\ advanced' = all_variables
  /\ UNCHANGED <<serverVars, standing, all_variables, touched, edits, left>>

\* create_reconnect_panel asks for each variable of the router on its own; the
\* password is not asked for, and its field is empty.
ReadRouter ==
  /\ stage = "filling" /\ unread # <<>>
  /\ unread' = Tail(unread)
  /\ panel' = [panel EXCEPT ![Head(unread)] =
                 IF standing THEN config[Head(unread)] ELSE NoText]
  /\ UNCHANGED <<serverVars, standing, stage, all_variables, advanced, touched,
                 edits, left>>

DialogShown ==
  /\ stage = "filling" /\ unread = <<>>
  /\ stage' = "open"
  /\ UNCHANGED <<serverVars, standing, unread, all_variables, fieldVars, left>>

--------------------------------------------------------------------------------
(* The user.                                                                *)

Edit == /\ stage = "open" /\ edits < MaxEdits
        /\ edits' = edits + 1
        /\ UNCHANGED <<serverVars, standing, stage, unread, all_variables, left>>
EditPanel == /\ Edit
             /\ \E v \in DOMAIN panel : \E x \in Enterable(v) :
                  /\ panel' = [panel EXCEPT ![v] = x]
                  /\ touched' = touched \cup {<<"panel", v>>}
             /\ UNCHANGED advanced
EditAdvanced == /\ Edit
                /\ \E v \in Vars : \E x \in Texts :
                     /\ all_variables[v] # NotListed
                     /\ advanced' = [advanced EXCEPT ![v] = x]
                     /\ touched' = touched \cup {<<"advanced", v>>}
                /\ UNCHANGED panel

CloseWindow == /\ stage = "open"
               /\ stage' = "dropped"
               /\ UNCHANGED <<serverVars, standing, unread, all_variables,
                              fieldVars, left>>
\* Once it has sent the password, which is not one of Vars, save_password closes
\* the window, whether or not the password could be set.
SavePassword == standing /\ CloseWindow

--------------------------------------------------------------------------------
(* ok. What is written depends on what was read, not on what is set now.    *)

Setting(v, x) == [id |-> v, value |-> x]

\* Fault: the panels are written back as they are.
PanelWritesAll == [i \in DOMAIN PanelOrder |-> Setting(PanelOrder[i], panel[PanelOrder[i]])]

\* What differs from the list, with "" for what is not in the list.
PanelWrites ==
  LET differing == Kept(PanelOrder, {v \in Panels : panel[v] # Known(v)})
  IN  [i \in DOMAIN differing |-> Setting(differing[i], panel[differing[i]])]

\* Whether reconnecting is enabled is written always, the router with it if so.
ReconnectWrites ==
  LET router == SetToSeq(RouterVars)
  IN  <<Setting(EnableReconnect, panel[EnableReconnect])>>
        \o IF panel[EnableReconnect] = On
           THEN [i \in DOMAIN router |-> Setting(router[i], panel[router[i]])]
           ELSE <<>>

\* The advanced panel comes last.
AdvancedWrites ==
  LET differing == Kept(ListOrder, {v \in Vars : advanced[v] # all_variables[v]})
  IN  [i \in DOMAIN differing |-> Setting(differing[i], advanced[differing[i]])]

\* Without a connection the window stays open.
PressOk ==
  /\ stage = "open" /\ standing
  /\ stage' = "saving"
  /\ left' = PanelWrites \o ReconnectWrites \o AdvancedWrites
  /\ UNCHANGED <<serverVars, standing, unread, all_variables, fieldVars>>

\* set_var: what cannot be set is passed over.
SetVar ==
  /\ stage = "saving" /\ left # <<>>
  /\ left' = Tail(left)
  /\ LET w == Head(left)
     IN  config' = IF standing /\ <<w.id, w.value>> \notin Refusals
                   THEN [config EXCEPT ![w.id] = w.value] ELSE config
  /\ UNCHANGED <<theirs, disturbed, others, standing, stage, unread, all_variables,
                 fieldVars>>
DialogDone ==
  /\ stage = "saving" /\ left = <<>>
  /\ stage' = "saved"
  /\ UNCHANGED <<serverVars, standing, unread, all_variables, fieldVars, left>>

--------------------------------------------------------------------------------
\* Another client sets a variable. The connection of this one is lost, and there
\* is another one.
SetByOthers ==
  /\ others < MaxOthers
  /\ others' = others + 1
  /\ \E v \in DOMAIN config, x \in Texts :
       /\ <<v, x>> \notin Refusals
       /\ config' = [config EXCEPT ![v] = x]
       /\ theirs' = [theirs EXCEPT ![v] = x]
       /\ disturbed' = disturbed \cup {v}
  /\ UNCHANGED <<standing, stage, unread, all_variables, fieldVars, left>>
ConnectionLost ==
  /\ standing
  /\ standing' = FALSE
  /\ UNCHANGED <<serverVars, stage, unread, all_variables, fieldVars, left>>
Reconnected ==
  /\ Closed /\ ~standing
  /\ standing' = TRUE
  /\ stage' = IF stage = "closed" THEN "closed" ELSE "dropped"
  /\ UNCHANGED <<serverVars, unread, all_variables, fieldVars, left>>

DialogInit ==
  /\ config \in InitialConfigs
  /\ theirs = config
  /\ standing = TRUE
  /\ stage = "closed"
  /\ unread = <<>> /\ left = <<>>
  /\ all_variables = NothingListed /\ panel = Blank /\ advanced = NothingListed
  /\ touched = {} /\ disturbed = {}
  /\ edits = 0 /\ others = 0

DialogNext ==
  \/ OpenDialog \/ ListVariable \/ FillPanels \/ ReadRouter \/ DialogShown
  \/ EditPanel \/ EditAdvanced \/ CloseWindow \/ SavePassword
  \/ PressOk \/ SetVar \/ DialogDone
  \/ SetByOthers \/ ConnectionLost \/ Reconnected

DialogSpec == DialogInit /\ [][DialogNext]_dialogVars

--------------------------------------------------------------------------------
(* What should hold.                                                        *)

\* What the user has entered for v, in one place or in both.
Entered(v) == {panel[v] : f \in touched \cap {<<"panel", v>>}}
                \cup {advanced[v] : f \in touched \cap {<<"advanced", v>>}}
Expressible(v) == v \in DOMAIN panel => Shown(v) = all_variables[v]

\* ok sets what the user has entered, if the program takes it and the connection
\* stands; and it does not undo what other clients have set while the window was
\* open, of whatever the user has left as it was. Not promised is either of what
\* a panel cannot show, of entering two different texts for one variable, and of
\* the variables of ReconnectWrites.
OnlyEditsAreSaved ==
  stage = "saved" =>
    \A v \in {v \in Vars \ {EnableReconnect} : Expressible(v)} :
      /\ Entered(v) = {} => config[v] = theirs[v]
      /\ \A x \in Entered(v) :
           standing /\ v \notin disturbed /\ Entered(v) = {x}
           /\ <<v, x>> \notin Refusals => config[v] = x
================================================================================
