----------------------------- MODULE MCClient -----------------------------
(* Instances of Client, ListView and Socket. They have no variable in       *)
(* common, so that a behaviour is one of one of them: its side says which.  *)
EXTENDS Client, ListView, Socket

VARIABLE side   \* "calls", "rows" or "socket"

partVars == <<vars, rowVars, tkSockVars, side>>

-----------------------------------------------------------------------------
(* Client: a list of one download.                                          *)

MCOne == <<Entry(0, TRUE)>>

-----------------------------------------------------------------------------
(* ListView: two packages and two downloads, of which the one with id 0     *)
(* changes its title or its state.                                          *)

Dl(id, title, status, error, wait, amount) ==
  [id |-> id, title |-> title, status |-> status, error |-> error,
   wait |-> wait, amount |-> amount]
Zeros == {Dl(0, "a", "RUNNING", "PLUGIN_SUCCESS", 0, "part"),
          Dl(0, "b", "RUNNING", "PLUGIN_SUCCESS", 0, "part"),
          Dl(0, "a", "RUNNING", "Captcha", 0, "part")}
Zero == CHOOSE z \in Zeros : z.error = "Captcha"
One == Dl(1, "a", "PENDING", "PLUGIN_SUCCESS", 0, "unknown")
Package(id, password, dls) ==
  [id |-> id, name |-> "x", password |-> password, dls |-> dls]
MCItems == Zeros \cup {One}
Kids == {<<>>, <<One>>} \cup {<<z>> : z \in Zeros}
                        \cup {<<z, One>> : z \in Zeros} \cup {<<One, Zero>>}
Single == {Package(0, k, s) : k \in BOOLEAN, s \in Kids}
Pairs == {<<Package(0, FALSE, <<z>>), Package(1, FALSE, <<One>>)>> : z \in Zeros}
MCContents == {<<>>} \cup {<<p>> : p \in Single}
              \cup Pairs \cup {Reverse(c) : c \in Pairs}

About(package, reason, key) ==
  [about |-> "package", reason |-> reason, id |-> package, name |-> "x",
   password |-> key]
AboutDl(reason, package, dl) ==
  [about |-> "download", reason |-> reason, parent |-> package, dl |-> dl]
Reasons == {"NEW", "UPDATE", "DELETE"}
MCUpdates == {<<About(0, reason, k)>> : reason \in Reasons, k \in BOOLEAN}
             \cup {<<AboutDl(reason, 0, z)>> : reason \in Reasons, z \in Zeros}
             \cup {<<About(0, "NEW", FALSE), AboutDl("NEW", 0, z)>> : z \in Zeros}
             \cup {<<AboutDl("UP", 0, One)>>}

-----------------------------------------------------------------------------
(* Socket: bodies that are empty, that look like headers, and longer ones.  *)

MCBodies == {<<>>, <<ColonByte>>, <<DigitZero + 1, ColonByte>>}

-----------------------------------------------------------------------------
(* One of the three.                                                        *)

MCInit == /\ Init /\ RowsInit /\ TkSockInit
          /\ side \in {"calls", "rows", "socket"}
MCNext ==
  \/ side = "calls" /\ Next /\ UNCHANGED <<rowVars, tkSockVars, side>>
  \/ side = "rows" /\ RowsNext /\ UNCHANGED <<vars, tkSockVars, side>>
  \/ side = "socket" /\ TkSockNext /\ UNCHANGED <<vars, rowVars, side>>

\* The fairness of FairSpec and of TkSockSpec. A thread of Client has steps to
\* take from its start on, which is nothing to a behaviour of another side.
Goes(Step) == side = "calls" /\ Step
MCSpec == /\ MCInit /\ [][MCNext]_partVars
          /\ WF_vars(Goes(HandlerStep))
          /\ SF_vars(Goes(UpdaterStep))
          /\ SF_vars(Goes(GuiStep))
          /\ TkSockFairness
=============================================================================
