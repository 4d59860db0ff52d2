------------------------------- MODULE ListView -------------------------------
(* The window's tree of packages and downloads (list_handling of the        *)
(* graphical client). Its rows are never rebuilt: each update writes only   *)
(* the cells it thinks have changed, beside the copy of the list it keeps.  *)
EXTENDS Naturals, Sequences, SequencesExt

CONSTANTS PackageIds, PackageNames,
          Items,      \* downloads, as they are listed
          Contents,   \* the lists that get_list may return
          Updates     \* the batches of messages that get_updates may return

\* A password is given or not: the tree shows a key for it.
Packages == [id : PackageIds, name : PackageNames, password : BOOLEAN,
             dls : Seq(Items)]
UpdateMessages ==
  [about : {"package"}, reason : STRING, id : PackageIds, name : PackageNames,
   password : BOOLEAN]
  \cup [about : {"download"}, reason : STRING, parent : PackageIds, dl : Items]

ASSUME RowsAssumption ==
  /\ Contents \subseteq Seq(Packages)
  /\ Updates \subseteq Seq(UpdateMessages)

VARIABLES content,    \* list_handling::content
          rows        \* list_model with the view's selection and expansion

rowVars == <<content, rows>>

-----------------------------------------------------------------------------
(* Cells.                                                                   *)

\* What a download's cells 3 and 4 depend on. Its amount stands for size,
\* bytes downloaded and speed: "unknown" size, "none", "part" or "all" of it.
Facts(d) == <<d.status, d.error, d.wait, d.amount>>

\* build_status: colour, text and time left.
CellOf(status, error, wait, amount) ==
  LET ok == error = "PLUGIN_SUCCESS"
      cell(color, text, time) == [color |-> color, text |-> text, time |-> time]
  IN CASE status = "RUNNING" /\ error = "Captcha" ->
            cell("captcha", <<"enter captcha">>, 0)
       [] status = "RUNNING" /\ ok /\ wait > 0 ->
            cell("green", <<"waiting">>, wait)
       [] status = "RUNNING" /\ error # "Captcha" /\ ~ok /\ wait > 0 ->
            cell("red", <<"retrying", error>>, wait)
       [] status = "RUNNING" /\ error # "Captcha" /\ wait = 0 ->
            cell("green", <<"running", amount>>, 0)
       [] status = "INACTIVE" /\ ok ->
            cell("yellow", <<"inactive", amount = "all">>, 0)
       [] status \in {"INACTIVE", "PENDING"} /\ ~ok ->
            cell("red", <<status, error>>, 0)
       [] status = "PENDING" /\ ok ->
            cell("white", <<"pending", amount # "unknown">>, 0)
       [] status = "WAITING" -> cell("yellow", <<"have to wait">>, wait)
       [] status = "FINISHED" -> cell("star", <<"finished">>, 0)
       [] status = "RECONNECTING" -> cell("yellow", <<"reconnecting">>, 0)
       [] OTHER -> cell("white", <<"not detected">>, 0)
Cell(d) == CellOf(d.status, d.error, d.wait, d.amount)

\* create_new_download, create_new_package: fresh items are not selected, and
\* the view shows them collapsed.
NewKid(d) == [id |-> d.id, title |-> d.title, cell |-> Cell(d), sel |-> FALSE]
RowOf(p, open, kids) == [id |-> p.id, name |-> p.name, key |-> p.password,
                         open |-> open, sel |-> FALSE, kids |-> kids]
NewRow(p) == RowOf(p, FALSE, <<>>)
WithKids(p) == RowOf(p, TRUE, [j \in DOMAIN p.dls |-> NewKid(p.dls[j])])

-----------------------------------------------------------------------------
(* The whole list.                                                          *)

\* get_current_view: rows are told apart by the ids at their places.
SelectedPackages == {content[i].id : i \in {k \in DOMAIN content : rows[k].sel}}
OpenPackages == {content[i].id : i \in {k \in DOMAIN content : rows[k].open}}
SelectedDownloads ==
  UNION {{content[i].dls[j].id : j \in {k \in DOMAIN content[i].dls :
                                          rows[i].kids[k].sel}}
         : i \in DOMAIN content}

Changed(old, new, cell) == IF old # new THEN new ELSE cell

\* Fault: the selection of before is not taken back.
ComparedKidSelected(kid, old, new) ==
  [id |-> Changed(old.id, new.id, kid.id),
   title |-> Changed(old.title, new.title, kid.title),
   cell |-> IF Facts(old) # Facts(new) THEN Cell(new) ELSE kid.cell,
   sel |-> kid.sel]

\* compare_one_download, and the selection that compare_downloads gives back.
ComparedKid(kid, old, new) ==
  [id |-> Changed(old.id, new.id, kid.id),
   title |-> Changed(old.title, new.title, kid.title),
   cell |-> IF Facts(old) # Facts(new) THEN Cell(new) ELSE kid.cell,
   sel |-> new.id \in SelectedDownloads]

\* compare_downloads: surplus rows go, missing ones are created.
ComparedKids(kids, old, new) ==
  [j \in DOMAIN new |-> IF j \in DOMAIN old
                        THEN ComparedKid(kids[j], old[j], new[j])
                        ELSE NewKid(new[j])]

\* compare_one_package, and the name and icon in update_full_list_packages.
ComparedRow(row, old, new) ==
  LET renamed == old.name # new.name \/ old.password # new.password
  IN  [id |-> Changed(old.id, new.id, row.id),
       name |-> IF renamed THEN new.name ELSE row.name,
       key |-> IF renamed /\ (new.password \/ old.password) THEN new.password
               ELSE row.key,
       open |-> \/ row.open
                \/ new.id \in OpenPackages
                \/ Len(new.dls) > Len(old.dls),
       sel |-> new.id \in SelectedPackages,
       kids |-> ComparedKids(row.kids, old.dls, new.dls)]

\* update_full_list_packages.
FullUpdate(new) ==
  /\ rows' = [i \in DOMAIN new |-> IF i \in DOMAIN content
                                   THEN ComparedRow(rows[i], content[i], new[i])
                                   ELSE WithKids(new[i])]
  /\ content' = new

-----------------------------------------------------------------------------
(* Subscribed messages.                                                     *)

\* The first element with that id, or 0.
Place(s, id) == LET places == {i \in DOMAIN s : s[i].id = id}
                IN  IF places = {} THEN 0 ELSE Min(places)

\* What the loops do to the list and to the rows at once.
RowAdded(shown, p, row) == [content |-> Append(shown.content, p),
                            rows |-> Append(shown.rows, row)]
RowReplaced(shown, i, p, row) == [content |-> [shown.content EXCEPT ![i] = p],
                                  rows |-> [shown.rows EXCEPT ![i] = row]]
RowRemoved(shown, i) == [content |-> RemoveAt(shown.content, i),
                         rows |-> RemoveAt(shown.rows, i)]

\* A message about a package.
PackageMessage(shown, m) ==
  LET i == Place(shown.content, m.id)
      p == shown.content[i]
      row == shown.rows[i]
      new == [id |-> m.id, name |-> m.name, password |-> m.password,
              dls |-> <<>>]
  IN CASE m.reason = "NEW" /\ i = 0 -> RowAdded(shown, new, NewRow(new))
       [] m.reason = "UPDATE" /\ i # 0 ->
            RowReplaced(shown, i,
                        [p EXCEPT !.name = m.name, !.password = m.password],
                        [row EXCEPT !.name = m.name, !.key = m.password])
       [] m.reason = "DELETE" /\ i # 0 -> RowRemoved(shown, i)
       [] OTHER -> shown

\* Fault: only the status is compared.
UpdatedKidStale(kid, old, new) ==
  [kid EXCEPT !.title = Changed(old.title, new.title, @),
              !.cell = IF old.status # new.status THEN Cell(new) ELSE @]

\* compare_and_update_one_download.
UpdatedKid(kid, old, new) ==
  [kid EXCEPT !.title = Changed(old.title, new.title, @),
              !.cell = IF Facts(old) # Facts(new) THEN Cell(new) ELSE @]

\* A message about a download of package m.parent.
DownloadMessage(shown, m) ==
  LET i == Place(shown.content, m.parent)
      p == shown.content[i]
      row == shown.rows[i]
      j == IF i = 0 THEN 0 ELSE Place(p.dls, m.dl.id)
      kid == UpdatedKid(row.kids[j], p.dls[j], m.dl)
  IN CASE m.reason = "NEW" /\ i # 0 /\ j = 0 ->
            RowReplaced(shown, i, [p EXCEPT !.dls = Append(@, m.dl)],
                        [row EXCEPT !.kids = Append(@, NewKid(m.dl)), !.open = TRUE])
       [] m.reason = "UPDATE" /\ j # 0 ->
            RowReplaced(shown, i, [p EXCEPT !.dls = [@ EXCEPT ![j] = m.dl]],
                        [row EXCEPT !.kids = [@ EXCEPT ![j] = kid]])
       [] m.reason = "DELETE" /\ j # 0 ->
            RowReplaced(shown, i, [p EXCEPT !.dls = RemoveAt(@, j)],
                        [row EXCEPT !.kids = RemoveAt(@, j)])
       [] OTHER -> shown

\* update_packages: message after message, shown[k] after the first k.
Apply(shown, m) == IF m.about = "package" THEN PackageMessage(shown, m)
                   ELSE DownloadMessage(shown, m)
ApplyAll(batch) ==
  LET shown[k \in 0 .. Len(batch)] ==
        IF k = 0 THEN [content |-> content, rows |-> rows]
        ELSE Apply(shown[k - 1], batch[k])
  IN  /\ content' = shown[Len(batch)].content
      /\ rows' = shown[Len(batch)].rows

\* check_full_list_update_required.
Moves == {"UP", "DOWN", "TOP", "BOTTOM"}
FullListRequired(batch) == \E i \in DOMAIN batch : batch[i].reason \in Moves

-----------------------------------------------------------------------------
(* Steps of the window's thread. Each holds the mutex of list_handling.     *)

ClearList == content' = <<>> /\ rows' = <<>>
UpdateFullList == \E new \in Contents : FullUpdate(new)
UpdateWithSubscriptions ==
  \E batch \in Updates :
    \/ FullListRequired(batch) /\ UpdateFullList
    \/ ~FullListRequired(batch) /\ ApplyAll(batch)

\* The user clicks on a row, or on the sign beside a package.
ToggleRow == \E i \in DOMAIN rows :
               /\ \/ rows' = [rows EXCEPT ![i].sel = ~@]
                  \/ \E j \in DOMAIN rows[i].kids :
                       rows' = [rows EXCEPT ![i].kids[j].sel = ~@]
               /\ UNCHANGED content
ToggleOpen == \E i \in DOMAIN rows : /\ rows' = [rows EXCEPT ![i].open = ~@]
                                     /\ UNCHANGED content

\* select_list and deselect_list.
Mark(selected, open) ==
  rows' = [i \in DOMAIN rows |->
             [rows[i] EXCEPT !.sel = selected,
                             !.open = @ \/ open,
                             !.kids = [j \in DOMAIN @ |->
                                         [@[j] EXCEPT !.sel = selected]]]]
SelectList == Mark(TRUE, TRUE) /\ UNCHANGED content
DeselectList == Mark(FALSE, FALSE) /\ UNCHANGED content

RowsInit == content = <<>> /\ rows = <<>>
RowsNext == \/ ClearList \/ UpdateFullList \/ UpdateWithSubscriptions
            \/ ToggleRow \/ ToggleOpen \/ SelectList \/ DeselectList
RowsSpec == RowsInit /\ [][RowsNext]_rowVars

-----------------------------------------------------------------------------
(* Properties.                                                              *)

\* What is to be read in the tree is what a tree built anew from the list
\* would show, although every update writes single cells only.
Text(row) == [id |-> row.id, name |-> row.name, key |-> row.key,
              kids |-> [j \in DOMAIN row.kids |->
                          [id |-> row.kids[j].id, title |-> row.kids[j].title,
                           cell |-> row.kids[j].cell]]]
RowsShowContent ==
  /\ DOMAIN rows = DOMAIN content
  /\ \A i \in DOMAIN rows : Text(rows[i]) = Text(WithKids(content[i]))

\* An update may take the selection from a row, but it selects nothing that
\* the user has not selected: the next command is for no other download.
SelectionIsTheUsers ==
  [][content' # content => /\ SelectedPackages' \subseteq SelectedPackages
                           /\ SelectedDownloads' \subseteq SelectedDownloads
    ]_rowVars
=============================================================================
