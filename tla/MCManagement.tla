----------------------------- MODULE MCManagement -----------------------------
(* Small instances of Management, Settings and ConfigureDialog for TLC. They *)
(* have no variable in common, so that a behaviour is one of one of them: its *)
(* side says which.                                                          *)
EXTENDS Management, Settings, ConfigureDialog

CONSTANTS c1, c2,
          user, password, limit, folder, \* identifiers
          a, aa                          \* a value, and the same with a blank

VARIABLE side   \* "list", "settings" or "dialog"

WithoutBlanks == [v \in Values |-> IF v = aa THEN a ELSE v]
LimitHasDefault == [i \in Ids |-> IF i = limit THEN a ELSE Empty]
UserIsSet == [i \in Ids |-> IF i = user THEN a ELSE NoLine]
NoAccountIsSet == [i \in Ids |-> IF i \in {limit, folder} THEN a ELSE NoLine]
AnAccount == {<<aa, aa>>}

--------------------------------------------------------------------------------
(* ConfigureDialog: a box, a list of lines and whether to reconnect. The    *)
(* list is set to a text that it does not have.                             *)

CONSTANTS enable, box, level, ip, pw, on, off

MCListOrder == <<box, enable, level>>
MCPanelOrder == <<box, level>>
MCRefusals == {<<level, off>>}
MCConfigs == {[v \in Vars \cup RouterVars |->
                 IF v = level THEN NoText ELSE on]}

--------------------------------------------------------------------------------
EitherInit == Init /\ SettingsInit /\ DialogInit
              /\ side \in {"list", "settings", "dialog"}
EitherNext == \/ side = "list" /\ Next /\ UNCHANGED <<settingsVars, dialogVars, side>>
              \/ side = "settings" /\ SettingsNext /\ UNCHANGED <<vars, dialogVars, side>>
              \/ side = "dialog" /\ DialogNext /\ UNCHANGED <<vars, settingsVars, side>>
EitherSpec == EitherInit /\ [][EitherNext]_<<vars, settingsVars, dialogVars, side>>
              /\ HandlersGoOn

SettingsOnly == SettingsInit /\ Init /\ DialogInit /\ side = "settings"
                /\ [][EitherNext]_<<vars, settingsVars, dialogVars, side>>
================================================================================
