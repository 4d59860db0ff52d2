------------------------------ MODULE WindowProofs ------------------------------
(***************************************************************************)
(* That the window of the graphical client shows the list of the program   *)
(* once all messages have come, for any number of downloads, commands,     *)
(* clients and reloads; and that the client's state has its types.         *)
(*                                                                         *)
(* What is under way between the program and the window is one stream of   *)
(* messages: those in newUpdates, in the batch that was fetched, in        *)
(* old_updates, on the connection and in the queue of the handler follow   *)
(* each other.  A list and a stream lead to the program's list when, for   *)
(* each download, the last that the stream tells of it is so in the        *)
(* program's list, and where it tells nothing both lists agree.  That is   *)
(* stated of each download alone (LeadsOf), so that a list which is newer  *)
(* than messages that are still to come leads there as well: applying what *)
(* the list has already does no harm.  The order of the list is the order  *)
(* in which the downloads are new in it and the stream (Ordered), unless   *)
(* the stream has a move in it, which asks for a new list.                 *)
(*                                                                         *)
(* The invariant ViewInv says this of what the reloads that wait will      *)
(* show, of the list that is being fetched, and of its answer.             *)
(***************************************************************************)
EXTENDS ClientProofs

--------------------------------------------------------------------------------
(* The messages that have not come to the window yet, in the order they were *)
(* posted in, and what they say of one download.                            *)

\* The i-th message tells of the download x what is not its place.
Tells(p, i, x) == /\ i \in DOMAIN p /\ p[i].id = x
                  /\ p[i].kind \in {"NEW", "UPDATE", "DELETE"}
About(m, x) == m.id = x /\ m.kind \in {"NEW", "UPDATE", "DELETE"}
TellsOf(kind, p, i, x) == i \in DOMAIN p /\ p[i].id = x /\ p[i].kind = kind
Has(kind, p, x) == \E i \in DOMAIN p : TellsOf(kind, p, i, x)
Untold(p, x) == \A i \in DOMAIN p : ~Tells(p, i, x)
LastOf(p, i, x) == Tells(p, i, x) /\ \A j \in DOMAIN p : Tells(p, j, x) => j <= i

\* A download that is new after something else was told of it was deleted in
\* between, and one that changes after it was deleted is new in between.
Renewed(p, i, j, x) == TellsOf("NEW", p, j, x) /\ Tells(p, i, x) =>
                         \E d \in i .. j - 1 : TellsOf("DELETE", p, d, x)
Revived(p, i, j, x) == TellsOf("UPDATE", p, j, x) /\ TellsOf("DELETE", p, i, x) =>
                         \E n \in i .. j - 1 : TellsOf("NEW", p, n, x)
InTurn(p) == \A x \in 0 .. MaxId : \A i, j \in DOMAIN p :
               i < j => Renewed(p, i, j, x) /\ Revived(p, i, j, x)

\* The last that is told of a download is so in the list, the set of its entries
\* being f, unless it is deleted and not yet destroyed.
Knows(f, x) == \E on \in BOOLEAN : Entry(x, on) \in f
ToldLast(p, f, d) ==
  \A x \in (0 .. MaxId) \ d : \A i \in DOMAIN p : LastOf(p, i, x) =>
    /\ p[i].kind = "DELETE" => ~Knows(f, x)
    /\ p[i].kind # "DELETE" => Entry(x, p[i].on) \in f
Streamed(p, f, d) == InTurn(p) /\ ToldLast(p, f, d)

\* The messages p, applied to a list of the entries e, make those of f of it.
Entries == [id : 0 .. MaxId, on : BOOLEAN]
Single(e) == \A x \in 0 .. MaxId : ~ (Entry(x, TRUE) \in e /\ Entry(x, FALSE) \in e)
SameOf(e, f, x) == \A on \in BOOLEAN : Entry(x, on) \in e <=> Entry(x, on) \in f
LeadsOf(e, p, f, x) ==
  /\ Untold(p, x) => SameOf(e, f, x)
  /\ \A i \in DOMAIN p : LastOf(p, i, x) =>
       /\ p[i].kind = "UPDATE" => Knows(e, x) \/ Has("NEW", p, x)
       /\ p[i].kind = "NEW" =>
            ~Knows(e, x) \/ Entry(x, p[i].on) \in e \/ Has("DELETE", p, x)
Leads(e, p, f, d) == \A x \in (0 .. MaxId) \ d : LeadsOf(e, p, f, x)

\* Where the messages of two streams are when one follows the other.
LEMMA StreamPlaces ==
  ASSUME NEW a \in Seq(Messages), NEW b \in Seq(Messages)
  PROVE  LET p == a \o b
             n == Len(a)
             m == Len(b)
         IN  /\ p \in Seq(Messages) /\ n \in Nat /\ m \in Nat
             /\ DOMAIN a = 1 .. n /\ DOMAIN b = 1 .. m /\ DOMAIN p = 1 .. n + m
             /\ \A i \in 1 .. n : p[i] = a[i] /\ a[i] \in Messages
             /\ \A j \in 1 .. m : n + j \in DOMAIN p /\ p[n + j] = b[j] /\ b[j] \in Messages
             /\ \A i \in DOMAIN p : i \notin 1 .. n => i - n \in 1 .. m
<1>1. /\ a \o b \in Seq(Messages) /\ Len(a) \in Nat /\ Len(b) \in Nat
      /\ Len(a \o b) = Len(a) + Len(b)
      /\ DOMAIN a = 1 .. Len(a) /\ DOMAIN b = 1 .. Len(b)
      /\ DOMAIN (a \o b) = 1 .. Len(a \o b)
      /\ \A i \in 1 .. Len(a) : a[i] \in Messages
      /\ \A i \in 1 .. Len(b) : b[i] \in Messages
  BY ConcatProperties, LenProperties
<1>2. \A i \in 1 .. Len(a) + Len(b) : (a \o b)[i] = IF i <= Len(a) THEN a[i] ELSE b[i - Len(a)]
  BY ConcatProperties
<1>3. \A i \in 1 .. Len(a) : (a \o b)[i] = a[i]
  BY <1>1, <1>2
<1>4. \A j \in 1 .. Len(b) : Len(a) + j \in 1 .. Len(a) + Len(b) /\ (a \o b)[Len(a) + j] = b[j]
  <2> TAKE j \in 1 .. Len(b)
  <2>1. Len(a) + j \in 1 .. Len(a) + Len(b) /\ ~ (Len(a) + j <= Len(a)) /\ Len(a) + j - Len(a) = j
    BY <1>1
  <2> QED BY <1>2, <2>1
<1>5. \A i \in 1 .. Len(a) + Len(b) : i \notin 1 .. Len(a) => i - Len(a) \in 1 .. Len(b)
  BY <1>1
<1> QED BY <1>1, <1>3, <1>4, <1>5

\* What they tell is the same there.
LEMMA StreamsTell ==
  ASSUME NEW a \in Seq(Messages), NEW b \in Seq(Messages)
  PROVE  LET p == a \o b
             n == Len(a)
         IN  \A x :
               /\ \A i \in DOMAIN a :
                    /\ Tells(p, i, x) <=> Tells(a, i, x)
                    /\ \A kind : TellsOf(kind, p, i, x) <=> TellsOf(kind, a, i, x)
               /\ \A j \in DOMAIN b :
                    /\ Tells(p, n + j, x) <=> Tells(b, j, x)
                    /\ \A kind : TellsOf(kind, p, n + j, x) <=> TellsOf(kind, b, j, x)
<1> DEFINE p == a \o b
           n == Len(a)
           m == Len(b)
<1>1. /\ n \in Nat /\ m \in Nat
      /\ DOMAIN a = 1 .. n /\ DOMAIN b = 1 .. m /\ DOMAIN p = 1 .. n + m
      /\ \A i \in 1 .. n : p[i] = a[i] /\ i \in DOMAIN p
      /\ \A j \in 1 .. m : n + j \in DOMAIN p /\ p[n + j] = b[j]
  BY StreamPlaces
<1> HIDE DEF p, n, m
<1> QED BY <1>1 DEF Tells, TellsOf, p, n

\* What is told of at all is told of at last.
LEMMA LastIsThere ==
  ASSUME NEW p \in Seq(Messages), NEW x, ~Untold(p, x)
  PROVE  \E i \in DOMAIN p : LastOf(p, i, x)
<1>1. Len(p) \in Nat /\ DOMAIN p = 1 .. Len(p)
  BY LenProperties
<1> DEFINE back == {Len(p) - i : i \in {j \in DOMAIN p : Tells(p, j, x)}}
<1>2. back \subseteq Nat /\ back # {}
  BY <1>1 DEF Untold
<1>3. PICK k \in back : \A l \in back : k <= l
  <2> HIDE DEF back
  <2> QED BY <1>2, LeastNatural
<1>4. PICK i \in DOMAIN p : Tells(p, i, x) /\ k = Len(p) - i
  BY <1>3
<1>5. ASSUME NEW j \in DOMAIN p, Tells(p, j, x) PROVE j <= i
  <2>1. Len(p) - i <= Len(p) - j
    BY <1>3, <1>4, <1>5
  <2> QED BY <1>1, <1>4, <2>1
<1> QED BY <1>4, <1>5 DEF LastOf

\* The last of two streams is the last of the second, unless that has nothing.
LEMMA LastOfTwo ==
  ASSUME NEW a \in Seq(Messages), NEW b \in Seq(Messages), NEW x
  PROVE  /\ \A j \in DOMAIN b : LastOf(b, j, x) <=> LastOf(a \o b, Len(a) + j, x)
         /\ ~Untold(b, x) => \A i \in DOMAIN (a \o b) : LastOf(a \o b, i, x) =>
              i - Len(a) \in DOMAIN b /\ LastOf(b, i - Len(a), x)
         /\ Untold(b, x) => \A i \in DOMAIN (a \o b) : LastOf(a \o b, i, x) <=>
              i \in DOMAIN a /\ LastOf(a, i, x)
         /\ Untold(a \o b, x) <=> Untold(a, x) /\ Untold(b, x)
<1> DEFINE p == a \o b
           n == Len(a)
           m == Len(b)
<1>1. /\ n \in Nat /\ m \in Nat
      /\ DOMAIN a = 1 .. n /\ DOMAIN b = 1 .. m /\ DOMAIN p = 1 .. n + m
      /\ \A j \in 1 .. m : n + j \in DOMAIN p
      /\ \A i \in 1 .. n + m : i \notin 1 .. n => i - n \in 1 .. m
      /\ b \in Seq(Messages)
  BY StreamPlaces
<1>2. /\ \A i \in 1 .. n : Tells(p, i, x) <=> Tells(a, i, x)
      /\ \A j \in 1 .. m : Tells(p, n + j, x) <=> Tells(b, j, x)
  BY <1>1, StreamsTell
<1> HIDE DEF p, n, m
<1>3. \A i \in 1 .. n + m : i \in 1 .. n \/ \E j \in 1 .. m : i = n + j
  <2> TAKE i \in 1 .. n + m
  <2>1. CASE i \notin 1 .. n
    <3>1. i - n \in 1 .. m /\ i = n + (i - n)
      BY <1>1, <2>1
    <3> QED BY <3>1
  <2> QED BY <2>1
<1>4. Untold(p, x) <=> Untold(a, x) /\ Untold(b, x)
  <2>1. Untold(p, x) => Untold(a, x) /\ Untold(b, x)
    <3>1. \A i \in 1 .. n : i \in 1 .. n + m
      BY <1>1
    <3> QED BY <1>1, <1>2, <3>1 DEF Untold
  <2>2. Untold(a, x) /\ Untold(b, x) => Untold(p, x)
    BY <1>1, <1>2, <1>3 DEF Untold
  <2> QED BY <2>1, <2>2
<1>5. ASSUME NEW j \in 1 .. m PROVE LastOf(b, j, x) <=> LastOf(p, n + j, x)
  <2>1. ASSUME LastOf(b, j, x), NEW i \in 1 .. n + m, Tells(p, i, x) PROVE i <= n + j
    <3>1. CASE i \in 1 .. n
      BY <1>1, <3>1
    <3>2. CASE \E k \in 1 .. m : i = n + k
      <4>1. PICK k \in 1 .. m : i = n + k
        BY <3>2
      <4>2. k <= j
        BY <1>1, <1>2, <2>1, <4>1 DEF LastOf
      <4> QED BY <1>1, <4>1, <4>2
    <3> QED BY <1>3, <3>1, <3>2
  <2>2. ASSUME LastOf(p, n + j, x), NEW k \in 1 .. m, Tells(b, k, x) PROVE k <= j
    <3>1. n + k <= n + j
      BY <1>1, <1>2, <2>2 DEF LastOf
    <3> QED BY <1>1, <3>1
  <2> QED BY <1>1, <1>2, <2>1, <2>2 DEF LastOf
<1>6. ASSUME ~Untold(b, x), NEW i \in 1 .. n + m, LastOf(p, i, x)
      PROVE  i - n \in 1 .. m /\ LastOf(b, i - n, x)
  <2>1. PICK k \in 1 .. m : Tells(b, k, x)
    BY <1>1, <1>6 DEF Untold
  <2>2. n + k <= i
    BY <1>1, <1>2, <1>6, <2>1 DEF LastOf
  <2>3. PICK j \in 1 .. m : i = n + j
    BY <1>1, <1>3, <2>2
  <2>4. i - n = j
    BY <1>1, <2>3
  <2> QED BY <1>5, <1>6, <2>3, <2>4
<1>7. ASSUME Untold(b, x), NEW i \in 1 .. n + m
      PROVE  LastOf(p, i, x) <=> i \in 1 .. n /\ LastOf(a, i, x)
  <2>1. \A j \in 1 .. n + m : Tells(p, j, x) <=> j \in 1 .. n /\ Tells(a, j, x)
    <3> TAKE j \in 1 .. n + m
    <3>1. CASE j \in 1 .. n
      BY <1>2, <3>1
    <3>2. CASE j \notin 1 .. n
      BY <1>1, <1>2, <1>3, <1>7, <3>2 DEF Untold
    <3> QED BY <3>1, <3>2
  <2> QED BY <1>1, <2>1 DEF LastOf
<1> QED BY <1>1, <1>4, <1>5, <1>6, <1>7 DEF p, n

\* A stream is in turn and right at its end when a part before it is done with.
LEMMA SuffixStreamed ==
  ASSUME NEW a \in Seq(Messages), NEW b \in Seq(Messages), NEW f, NEW d,
         Streamed(a \o b, f, d)
  PROVE  Streamed(b, f, d)
<1> DEFINE p == a \o b
           n == Len(a)
           m == Len(b)
<1>1. /\ n \in Nat /\ m \in Nat /\ DOMAIN b = 1 .. m /\ DOMAIN p = 1 .. n + m
      /\ \A j \in 1 .. m : n + j \in DOMAIN p /\ p[n + j] = b[j]
  BY StreamPlaces
<1>2. \A x : \A j \in 1 .. m :
        /\ Tells(p, n + j, x) <=> Tells(b, j, x)
        /\ \A kind : TellsOf(kind, p, n + j, x) <=> TellsOf(kind, b, j, x)
        /\ LastOf(b, j, x) <=> LastOf(p, n + j, x)
  BY <1>1, StreamsTell, LastOfTwo
<1> HIDE DEF p, n, m
<1>3. ToldLast(b, f, d)
  BY <1>1, <1>2 DEF Streamed, ToldLast, p
<1>4. ASSUME NEW x \in 0 .. MaxId, NEW i \in 1 .. m, NEW j \in 1 .. m, i < j
      PROVE  Renewed(b, i, j, x) /\ Revived(b, i, j, x)
  <2>1. n + i < n + j /\ Renewed(p, n + i, n + j, x) /\ Revived(p, n + i, n + j, x)
    <3>1. n + i < n + j
      BY <1>1, <1>4
    <3> QED BY <1>1, <1>4, <3>1 DEF Streamed, InTurn, p
  <2>2. ASSUME NEW e \in (n + i) .. ((n + j) - 1)
        PROVE  \E k \in i .. j - 1 : e = n + k /\ k \in 1 .. m
    <3>1. e - n \in i .. j - 1 /\ e = n + (e - n) /\ e - n \in 1 .. m
      BY <1>1, <2>2
    <3> QED BY <3>1
  <2>3. Renewed(b, i, j, x)
    <3> SUFFICES ASSUME TellsOf("NEW", b, j, x), Tells(b, i, x)
                 PROVE  \E k \in i .. j - 1 : TellsOf("DELETE", b, k, x)
      BY DEF Renewed
    <3>1. TellsOf("NEW", p, n + j, x) /\ Tells(p, n + i, x)
      BY <1>2
    <3>2. PICK e \in (n + i) .. ((n + j) - 1) : TellsOf("DELETE", p, e, x)
      BY <2>1, <3>1 DEF Renewed
    <3> QED BY <1>2, <2>2, <3>2
  <2>4. Revived(b, i, j, x)
    <3> SUFFICES ASSUME TellsOf("UPDATE", b, j, x), TellsOf("DELETE", b, i, x)
                 PROVE  \E k \in i .. j - 1 : TellsOf("NEW", b, k, x)
      BY DEF Revived
    <3>1. TellsOf("UPDATE", p, n + j, x) /\ TellsOf("DELETE", p, n + i, x)
      BY <1>2
    <3>2. PICK e \in (n + i) .. ((n + j) - 1) : TellsOf("NEW", p, e, x)
      BY <2>1, <3>1 DEF Revived
    <3> QED BY <1>2, <2>2, <3>2
  <2> QED BY <2>3, <2>4
<1> QED BY <1>1, <1>3, <1>4 DEF Streamed, InTurn

\* Messages that are older than a list do no harm to it.
LEMMA OlderLead ==
  ASSUME NEW a \in Seq(Messages), NEW b \in Seq(Messages), NEW e, NEW f, NEW d,
         Streamed(a \o b, f, d), Leads(e, b, f, d)
  PROVE  Leads(e, a \o b, f, d)
<1> SUFFICES ASSUME NEW x \in (0 .. MaxId) \ d PROVE LeadsOf(e, a \o b, f, x)
  BY DEF Leads
<1> DEFINE p == a \o b
           n == Len(a)
           m == Len(b)
<1>1. /\ n \in Nat /\ m \in Nat /\ DOMAIN b = 1 .. m /\ DOMAIN p = 1 .. n + m
      /\ \A i \in 1 .. m : n + i \in DOMAIN p /\ p[n + i] = b[i]
  BY StreamPlaces
<1>2. \A j \in 1 .. m :
        \A kind : TellsOf(kind, p, n + j, x) <=> TellsOf(kind, b, j, x)
  BY <1>1, StreamsTell
<1>3. /\ ~Untold(b, x) => \A i \in DOMAIN p : LastOf(p, i, x) =>
              i - n \in DOMAIN b /\ LastOf(b, i - n, x)
      /\ Untold(p, x) => Untold(b, x)
  BY LastOfTwo
<1> HIDE DEF p, n, m
<1>4. \A kind : Has(kind, b, x) => Has(kind, p, x)
  BY <1>1, <1>2 DEF Has
<1>5. LeadsOf(e, b, f, x) /\ Streamed(p, f, d)
  BY DEF Leads, p
<1>6. CASE Untold(b, x)
  <2>1. SameOf(e, f, x)
    BY <1>5, <1>6 DEF LeadsOf
  <2>2. ASSUME NEW i \in DOMAIN p, LastOf(p, i, x)
        PROVE  /\ p[i].kind = "UPDATE" => Knows(e, x)
               /\ p[i].kind = "NEW" => Entry(x, p[i].on) \in e
    <3>1. p[i] \in Messages /\ p[i].on \in BOOLEAN
      <4>1. p \in Seq(Messages)
        BY StreamPlaces DEF p
      <4>2. p[i] \in Messages
        BY <2>2, <4>1
      <4> QED BY <4>2 DEF Messages
    <3>2. p[i].kind # "DELETE" => Entry(x, p[i].on) \in f
      BY <1>5, <2>2 DEF Streamed, ToldLast
    <3> QED BY <2>1, <3>1, <3>2 DEF SameOf, Knows
  <2> QED BY <2>1, <2>2 DEF LeadsOf, p
<1>7. CASE ~Untold(b, x)
  <2>1. ASSUME NEW i \in DOMAIN p, LastOf(p, i, x)
        PROVE  /\ p[i].kind = "UPDATE" => Knows(e, x) \/ Has("NEW", p, x)
               /\ p[i].kind = "NEW" =>
                    ~Knows(e, x) \/ Entry(x, p[i].on) \in e \/ Has("DELETE", p, x)
    <3>1. PICK j \in DOMAIN b : j = i - n /\ LastOf(b, j, x) /\ p[i] = b[j]
      <4>1. i - n \in 1 .. m /\ LastOf(b, i - n, x) /\ i = n + (i - n)
        BY <1>1, <1>3, <1>7, <2>1
      <4> QED BY <1>1, <4>1
    <3> QED BY <1>4, <1>5, <3>1 DEF LeadsOf
  <2> QED BY <1>3, <1>7, <2>1 DEF LeadsOf, p
<1> QED BY <1>6, <1>7 DEF p

\* The list itself, with nothing to come.
LEMMA ListLeads ==
  ASSUME NEW f, NEW d
  PROVE  Leads(f, <<>>, f, d)
  BY DEF Leads, LeadsOf, SameOf, LastOf

--------------------------------------------------------------------------------
(* One message applied.                                                     *)

Others(e, x) == {c \in e : c.id # x}
AppliedTo(e, m) ==
  CASE m.kind = "NEW" /\ ~Knows(e, m.id) -> e \cup {Entry(m.id, m.on)}
    [] m.kind = "UPDATE" /\ Knows(e, m.id) -> Others(e, m.id) \cup {Entry(m.id, m.on)}
    [] m.kind = "DELETE" -> Others(e, m.id)
    [] OTHER -> e

\* Entries are told by their fields.
LEMMA EntriesAre ==
  /\ \A e \in Entries : e = Entry(e.id, e.on) /\ e.id \in 0 .. MaxId /\ e.on \in BOOLEAN
  /\ \A x \in 0 .. MaxId, on \in BOOLEAN : Entry(x, on) \in Entries
  /\ \A x, y, a, b : Entry(x, a) = Entry(y, b) <=> x = y /\ a = b
  /\ \A x, a : Entry(x, a).id = x /\ Entry(x, a).on = a
  BY DEF Entries, Entry

\* What a stream tells of a download when a message is put before it.
LEMMA OneTold ==
  ASSUME NEW m \in Messages, NEW b \in Seq(Messages), NEW x
  PROVE  LET p == <<m>> \o b
         IN  /\ p[1] = m /\ 1 \in DOMAIN p /\ DOMAIN p = 1 .. 1 + Len(b) /\ Len(b) \in Nat
             /\ \A j \in DOMAIN b : 1 + j \in DOMAIN p /\ p[1 + j] = b[j]
             /\ \A j \in DOMAIN b : LastOf(b, j, x) <=> LastOf(p, 1 + j, x)
             /\ ~Untold(b, x) => \A i \in DOMAIN p : LastOf(p, i, x) =>
                  i - 1 \in DOMAIN b /\ LastOf(b, i - 1, x)
             /\ Untold(b, x) /\ Tells(p, 1, x) => LastOf(p, 1, x)
             /\ Untold(p, x) <=> Untold(b, x) /\ ~Tells(p, 1, x)
             /\ \A kind : Has(kind, p, x) => Has(kind, b, x) \/ TellsOf(kind, p, 1, x)
             /\ \A j \in DOMAIN b : Tells(p, 1 + j, x) <=> Tells(b, j, x)
             /\ \A j \in DOMAIN b : \A kind : TellsOf(kind, p, 1 + j, x) <=> TellsOf(kind, b, j, x)
<1> DEFINE a == <<m>>
           p == a \o b
<1>1. a \in Seq(Messages) /\ Len(a) = 1 /\ DOMAIN a = {1} /\ a[1] = m
  OBVIOUS
<1> HIDE DEF a
<1>2. /\ Len(b) \in Nat /\ DOMAIN b = 1 .. Len(b) /\ DOMAIN p = 1 .. 1 + Len(b)
      /\ p[1] = m
      /\ \A j \in 1 .. Len(b) : 1 + j \in DOMAIN p /\ p[1 + j] = b[j]
      /\ \A i \in DOMAIN p : i \notin 1 .. 1 => i - 1 \in 1 .. Len(b)
  <2>1. /\ Len(b) \in Nat /\ DOMAIN b = 1 .. Len(b) /\ DOMAIN p = 1 .. Len(a) + Len(b)
        /\ \A i \in 1 .. Len(a) : p[i] = a[i]
        /\ \A j \in 1 .. Len(b) : Len(a) + j \in DOMAIN p /\ p[Len(a) + j] = b[j]
        /\ \A i \in DOMAIN p : i \notin 1 .. Len(a) => i - Len(a) \in 1 .. Len(b)
    BY <1>1, StreamPlaces
  <2> HIDE DEF p
  <2> QED BY <1>1, <2>1
<1>3. /\ \A kind : TellsOf(kind, p, 1, x) <=> TellsOf(kind, a, 1, x)
      /\ Tells(p, 1, x) <=> Tells(a, 1, x)
      /\ \A j \in DOMAIN b : Tells(p, 1 + j, x) <=> Tells(b, j, x)
      /\ \A j \in DOMAIN b : \A kind : TellsOf(kind, p, 1 + j, x) <=> TellsOf(kind, b, j, x)
  BY <1>1, StreamsTell
<1>4. /\ \A j \in DOMAIN b : LastOf(b, j, x) <=> LastOf(p, 1 + j, x)
      /\ ~Untold(b, x) => \A i \in DOMAIN p : LastOf(p, i, x) =>
           i - 1 \in DOMAIN b /\ LastOf(b, i - 1, x)
      /\ Untold(b, x) => \A i \in DOMAIN p : LastOf(p, i, x) <=>
           i \in DOMAIN a /\ LastOf(a, i, x)
      /\ Untold(p, x) <=> Untold(a, x) /\ Untold(b, x)
  BY <1>1, LastOfTwo
<1>5. Untold(a, x) <=> ~Tells(p, 1, x)
  BY <1>1, <1>3 DEF Untold
<1>6. Untold(b, x) /\ Tells(p, 1, x) => LastOf(p, 1, x)
  <2>1. Tells(a, 1, x) => LastOf(a, 1, x)
    BY <1>1 DEF LastOf
  <2> HIDE DEF p
  <2> QED BY <1>1, <1>2, <1>3, <1>4, <2>1
<1> HIDE DEF p
<1>7. \A kind : Has(kind, p, x) => Has(kind, b, x) \/ TellsOf(kind, p, 1, x)
  <2> SUFFICES ASSUME NEW kind, NEW i \in DOMAIN p, TellsOf(kind, p, i, x), i # 1
               PROVE  Has(kind, b, x)
    BY DEF Has
  <2>1. i - 1 \in 1 .. Len(b) /\ i = 1 + (i - 1)
    BY <1>2
  <2> QED BY <1>2, <1>3, <2>1 DEF Has
<1> QED BY <1>2, <1>3, <1>4, <1>5, <1>6, <1>7 DEF p, a

\* What an applied message does to the entries of each download.
LEMMA AppliedEntries ==
  ASSUME NEW m \in Messages, NEW e, NEW x \in 0 .. MaxId, NEW on \in BOOLEAN
  PROVE  /\ (m.id # x \/ m.kind \notin {"NEW", "UPDATE", "DELETE"}) =>
              (Entry(x, on) \in AppliedTo(e, m) <=> Entry(x, on) \in e)
         /\ (m.id = x /\ m.kind = "DELETE") => Entry(x, on) \notin AppliedTo(e, m)
         /\ (m.id = x /\ m.kind = "UPDATE") =>
              (Entry(x, on) \in AppliedTo(e, m) <=> Knows(e, x) /\ on = m.on)
         /\ (m.id = x /\ m.kind = "NEW") =>
              (Entry(x, on) \in AppliedTo(e, m) <=>
                 Entry(x, on) \in e \/ (~Knows(e, x) /\ on = m.on))
<1>1. \A y, a, b : Entry(y, a) = Entry(x, b) <=> y = x /\ a = b
  BY EntriesAre
<1>2. Entry(x, on).id = x
  BY EntriesAre
<1>3. ~Knows(e, x) => Entry(x, on) \notin e
  BY DEF Knows
<1>4. Entry(x, on) \in Others(e, m.id) <=> Entry(x, on) \in e /\ x # m.id
  BY <1>2 DEF Others
<1>5. CASE m.kind = "NEW"
  <2>1. AppliedTo(e, m) = IF Knows(e, m.id) THEN e ELSE e \cup {Entry(m.id, m.on)}
    BY <1>5 DEF AppliedTo
  <2> QED BY <1>1, <1>3, <1>5, <2>1
<1>6. CASE m.kind = "UPDATE"
  <2>1. AppliedTo(e, m) = IF Knows(e, m.id) THEN Others(e, m.id) \cup {Entry(m.id, m.on)} ELSE e
    BY <1>6 DEF AppliedTo
  <2> QED BY <1>1, <1>3, <1>4, <1>6, <2>1
<1>7. CASE m.kind = "DELETE"
  <2>1. AppliedTo(e, m) = Others(e, m.id)
    BY <1>7 DEF AppliedTo
  <2> QED BY <1>4, <1>7, <2>1
<1>8. CASE m.kind \notin {"NEW", "UPDATE", "DELETE"}
  <2>1. AppliedTo(e, m) = e
    BY <1>8 DEF AppliedTo
  <2> QED BY <1>8, <2>1
<1> QED BY <1>5, <1>6, <1>7, <1>8

\* One message applied: the rest of the messages does what is left to do.
LEMMA OneApplied ==
  ASSUME NEW m \in Messages, NEW b \in Seq(Messages), NEW e, NEW f, NEW d,
         Single(e), Single(f),
         Streamed(<<m>> \o b, f, d), Leads(e, <<m>> \o b, f, d)
  PROVE  Leads(AppliedTo(e, m), b, f, d)
<1> SUFFICES ASSUME NEW x \in (0 .. MaxId) \ d PROVE LeadsOf(AppliedTo(e, m), b, f, x)
  BY DEF Leads
<1> DEFINE p == <<m>> \o b
<1>1. PICK g : g = AppliedTo(e, m)
  OBVIOUS
<1>2. LeadsOf(e, p, f, x) /\ InTurn(p) /\ ToldLast(p, f, d)
  BY DEF Leads, Streamed
<1>3. /\ p[1] = m /\ 1 \in DOMAIN p /\ DOMAIN p = 1 .. 1 + Len(b) /\ Len(b) \in Nat
      /\ \A j \in DOMAIN b : 1 + j \in DOMAIN p /\ p[1 + j] = b[j]
      /\ \A j \in DOMAIN b : LastOf(b, j, x) <=> LastOf(p, 1 + j, x)
      /\ Untold(b, x) /\ Tells(p, 1, x) => LastOf(p, 1, x)
      /\ Untold(p, x) <=> Untold(b, x) /\ ~Tells(p, 1, x)
      /\ \A kind : Has(kind, p, x) => Has(kind, b, x) \/ TellsOf(kind, p, 1, x)
      /\ \A j \in DOMAIN b : \A kind : TellsOf(kind, p, 1 + j, x) <=> TellsOf(kind, b, j, x)
  BY OneTold
<1> HIDE DEF p
<1>4. DOMAIN b = 1 .. Len(b)
  BY LenProperties
<1>5. \A on \in BOOLEAN :
         /\ (m.id # x \/ m.kind \notin {"NEW", "UPDATE", "DELETE"}) =>
              (Entry(x, on) \in g <=> Entry(x, on) \in e)
         /\ (m.id = x /\ m.kind = "DELETE") => Entry(x, on) \notin g
         /\ (m.id = x /\ m.kind = "UPDATE") =>
              (Entry(x, on) \in g <=> Knows(e, x) /\ on = m.on)
         /\ (m.id = x /\ m.kind = "NEW") =>
              (Entry(x, on) \in g <=> Entry(x, on) \in e \/ (~Knows(e, x) /\ on = m.on))
  BY <1>1, AppliedEntries
<1>6. m.on \in BOOLEAN /\ \A j \in DOMAIN b : b[j].on \in BOOLEAN
  <2>1. \A j \in DOMAIN b : b[j] \in Messages
    BY <1>4, ElementOfSeq
  <2> QED BY <2>1 DEF Messages
\* The messages in between that make a later one possible come after the first.
<1>7. ASSUME NEW j \in DOMAIN b, Tells(p, 1, x)
      PROVE  /\ TellsOf("NEW", b, j, x) /\ m.kind # "DELETE" => Has("DELETE", b, x)
             /\ TellsOf("UPDATE", b, j, x) /\ m.kind = "DELETE" => Has("NEW", b, x)
  <2>1. 1 < 1 + j /\ 1 + j \in DOMAIN p
    BY <1>3, <1>4
  <2>2. Renewed(p, 1, 1 + j, x) /\ Revived(p, 1, 1 + j, x)
    BY <1>2, <1>3, <2>1 DEF InTurn
  <2>3. ASSUME NEW i \in 1 .. (1 + j) - 1, i # 1
        PROVE  i - 1 \in DOMAIN b /\ i = 1 + (i - 1)
    BY <1>4, <2>3
  <2>4. ASSUME TellsOf("NEW", b, j, x), m.kind # "DELETE" PROVE Has("DELETE", b, x)
    <3>1. PICK i \in 1 .. (1 + j) - 1 : TellsOf("DELETE", p, i, x)
      BY <1>3, <1>7, <2>2, <2>4 DEF Renewed
    <3>2. i # 1
      BY <1>3, <2>4, <3>1 DEF TellsOf
    <3> QED BY <1>3, <2>3, <3>1, <3>2 DEF Has
  <2>5. ASSUME TellsOf("UPDATE", b, j, x), m.kind = "DELETE" PROVE Has("NEW", b, x)
    <3>0. TellsOf("DELETE", p, 1, x)
      BY <1>3, <1>7, <2>5 DEF Tells, TellsOf
    <3>1. PICK i \in 1 .. (1 + j) - 1 : TellsOf("NEW", p, i, x)
      BY <1>3, <2>2, <2>5, <3>0 DEF Revived
    <3>2. i # 1
      BY <1>3, <2>5, <3>1 DEF TellsOf
    <3> QED BY <1>3, <2>3, <3>1, <3>2 DEF Has
  <2> QED BY <2>4, <2>5
<1>8. ASSUME NEW j \in DOMAIN b, LastOf(b, j, x)
      PROVE  /\ LastOf(p, 1 + j, x) /\ p[1 + j] = b[j]
             /\ TellsOf(b[j].kind, b, j, x) /\ ~Untold(b, x)
             /\ b[j].kind = "UPDATE" => Knows(e, x) \/ Has("NEW", p, x)
             /\ b[j].kind = "NEW" => ~Knows(e, x) \/ Entry(x, b[j].on) \in e \/ Has("DELETE", p, x)
  <2>1. LastOf(p, 1 + j, x) /\ p[1 + j] = b[j] /\ 1 + j \in DOMAIN p
    BY <1>3, <1>8
  <2>2. TellsOf(b[j].kind, b, j, x) /\ ~Untold(b, x)
    BY <1>8 DEF LastOf, Tells, TellsOf, Untold
  <2> QED BY <1>2, <2>1, <2>2 DEF LeadsOf
<1>9. CASE ~Tells(p, 1, x)
  <2>1. /\ m.id # x \/ m.kind \notin {"NEW", "UPDATE", "DELETE"}
        /\ ~TellsOf("NEW", p, 1, x) /\ ~TellsOf("DELETE", p, 1, x)
    BY <1>3, <1>9 DEF Tells, TellsOf
  <2>2. (\A on \in BOOLEAN : Entry(x, on) \in g <=> Entry(x, on) \in e) /\ (Knows(g, x) <=> Knows(e, x))
    BY <1>5, <2>1 DEF Knows
  <2>3. Untold(b, x) => SameOf(g, f, x)
    BY <1>2, <1>3, <1>9, <2>2 DEF LeadsOf, SameOf
  <2>4. ASSUME NEW j \in DOMAIN b, LastOf(b, j, x)
        PROVE  /\ b[j].kind = "UPDATE" => Knows(g, x) \/ Has("NEW", b, x)
               /\ b[j].kind = "NEW" => ~Knows(g, x) \/ Entry(x, b[j].on) \in g \/ Has("DELETE", b, x)
    <3>1. b[j].on \in BOOLEAN
      BY <1>6
    <3> QED BY <1>3, <1>8, <2>1, <2>2, <2>4, <3>1
  <2> QED BY <1>1, <2>3, <2>4 DEF LeadsOf
<1>10. CASE Tells(p, 1, x)
  <2>1. m.id = x /\ m.kind \in {"NEW", "UPDATE", "DELETE"}
    BY <1>3, <1>10 DEF Tells
  <2>2. ASSUME NEW j \in DOMAIN b, LastOf(b, j, x)
        PROVE  /\ b[j].kind = "UPDATE" => Knows(g, x) \/ Has("NEW", b, x)
               /\ b[j].kind = "NEW" => ~Knows(g, x) \/ Entry(x, b[j].on) \in g \/ Has("DELETE", b, x)
    <3>1. ASSUME b[j].kind = "UPDATE" PROVE Knows(g, x) \/ Has("NEW", b, x)
      <4>1. CASE m.kind = "DELETE"
        BY <1>7, <1>8, <1>10, <2>2, <3>1, <4>1
      <4>2. CASE m.kind = "UPDATE"
        <5>1. ~TellsOf("NEW", p, 1, x)
          BY <1>3, <4>2 DEF TellsOf
        <5>2. Knows(e, x) => Knows(g, x)
          BY <1>5, <1>6, <2>1, <4>2 DEF Knows
        <5> QED BY <1>3, <1>8, <2>2, <3>1, <5>1, <5>2
      <4>3. CASE m.kind = "NEW"
        BY <1>5, <1>6, <2>1, <4>3 DEF Knows
      <4> QED BY <2>1, <4>1, <4>2, <4>3
    <3>2. ASSUME b[j].kind = "NEW"
          PROVE  ~Knows(g, x) \/ Entry(x, b[j].on) \in g \/ Has("DELETE", b, x)
      <4>1. CASE m.kind = "DELETE"
        BY <1>5, <2>1, <4>1 DEF Knows
      <4>2. CASE m.kind # "DELETE"
        BY <1>7, <1>8, <1>10, <2>2, <3>2, <4>2
      <4> QED BY <4>1, <4>2
    <3> QED BY <3>1, <3>2
  <2>3. ASSUME Untold(b, x) PROVE SameOf(g, f, x)
    <3>1. LastOf(p, 1, x)
      BY <1>3, <1>10, <2>3
    <3>2. /\ m.kind = "DELETE" => ~Knows(f, x)
          /\ m.kind # "DELETE" => Entry(x, m.on) \in f
      BY <1>2, <1>3, <3>1 DEF ToldLast
    <3>3. /\ m.kind = "UPDATE" => Knows(e, x) \/ Has("NEW", p, x)
          /\ m.kind = "NEW" => ~Knows(e, x) \/ Entry(x, m.on) \in e \/ Has("DELETE", p, x)
      BY <1>2, <1>3, <3>1 DEF LeadsOf
    <3>4. ~Has("NEW", b, x) /\ ~Has("DELETE", b, x)
      BY <2>3 DEF Untold, Has, Tells, TellsOf
    <3>5. CASE m.kind = "DELETE"
      BY <1>5, <2>1, <3>2, <3>5 DEF SameOf, Knows
    <3>6. CASE m.kind = "UPDATE"
      <4>1. Knows(e, x)
        BY <1>3, <3>3, <3>4, <3>6 DEF TellsOf
      <4>2. \A on \in BOOLEAN : Entry(x, on) \in f <=> on = m.on
        BY <1>6, <3>2, <3>6 DEF Single
      <4> QED BY <1>5, <2>1, <3>6, <4>1, <4>2 DEF SameOf
    <3>7. CASE m.kind = "NEW"
      <4>1. ~Knows(e, x) \/ Entry(x, m.on) \in e
        BY <1>3, <3>3, <3>4, <3>7 DEF TellsOf
      <4>2. \A on \in BOOLEAN : Entry(x, on) \in f <=> on = m.on
        BY <1>6, <3>2, <3>7 DEF Single
      <4>3. ~Knows(e, x) => \A on \in BOOLEAN : Entry(x, on) \notin e
        BY DEF Knows
      <4>4. Entry(x, m.on) \in e => \A on \in BOOLEAN : Entry(x, on) \in e <=> on = m.on
        BY <1>6 DEF Single
      <4>5. Entry(x, m.on) \in e => Knows(e, x)
        BY <1>6 DEF Knows
      <4> QED BY <1>5, <2>1, <3>7, <4>1, <4>2, <4>3, <4>4, <4>5 DEF SameOf
    <3> QED BY <2>1, <3>5, <3>6, <3>7
  <2> QED BY <1>1, <2>2, <2>3 DEF LeadsOf
<1> QED BY <1>9, <1>10

--------------------------------------------------------------------------------
(* One message posted.                                                      *)

\* Where the messages are when one more is posted.
LEMMA OnePosted ==
  ASSUME NEW p \in Seq(Messages), NEW m \in Messages, NEW x
  PROVE  LET q == Append(p, m)
             n == Len(p)
         IN  /\ q \in Seq(Messages) /\ n \in Nat /\ q[n + 1] = m
             /\ DOMAIN p = 1 .. n /\ DOMAIN q = 1 .. n + 1
             /\ \A i \in 1 .. n : /\ i \in DOMAIN q /\ q[i] = p[i]
                                  /\ Tells(q, i, x) <=> Tells(p, i, x)
                                  /\ \A kind : TellsOf(kind, q, i, x) <=> TellsOf(kind, p, i, x)
             /\ Tells(q, n + 1, x) <=> About(m, x)
             /\ \A kind : TellsOf(kind, q, n + 1, x) <=> m.id = x /\ m.kind = kind
             /\ About(m, x) => \A i \in DOMAIN q : LastOf(q, i, x) <=> i = n + 1
             /\ ~About(m, x) => \A i \in DOMAIN q : LastOf(q, i, x) <=> i \in 1 .. n /\ LastOf(p, i, x)
             /\ Untold(q, x) <=> Untold(p, x) /\ ~About(m, x)
             /\ \A kind : Has(kind, p, x) => Has(kind, q, x)
<1> DEFINE q == Append(p, m)
           n == Len(p)
<1>1. /\ q \in Seq(Messages) /\ n \in Nat /\ DOMAIN p = 1 .. n /\ DOMAIN q = 1 .. n + 1
      /\ q[n + 1] = m /\ \A i \in 1 .. n : q[i] = p[i]
  BY AppendProperties, LenProperties
<1> HIDE DEF q, n
<1>2. /\ \A i \in 1 .. n : /\ i \in DOMAIN q /\ q[i] = p[i]
                           /\ Tells(q, i, x) <=> Tells(p, i, x)
                           /\ \A kind : TellsOf(kind, q, i, x) <=> TellsOf(kind, p, i, x)
      /\ Tells(q, n + 1, x) <=> About(m, x)
      /\ \A kind : TellsOf(kind, q, n + 1, x) <=> m.id = x /\ m.kind = kind
  BY <1>1 DEF Tells, TellsOf, About
<1>3. \A i \in DOMAIN q : i \in 1 .. n \/ i = n + 1
  BY <1>1
<1>4. ASSUME About(m, x), NEW i \in DOMAIN q PROVE LastOf(q, i, x) <=> i = n + 1
  <2>1. \A j \in DOMAIN q : j <= n + 1
    BY <1>1
  <2>2. n + 1 \in DOMAIN q
    BY <1>1
  <2> QED BY <1>1, <1>2, <1>4, <2>1, <2>2 DEF LastOf
<1>5. ASSUME ~About(m, x), NEW i \in DOMAIN q PROVE LastOf(q, i, x) <=> i \in 1 .. n /\ LastOf(p, i, x)
  <2>1. \A j \in DOMAIN q : Tells(q, j, x) <=> j \in 1 .. n /\ Tells(p, j, x)
    BY <1>1, <1>2, <1>3, <1>5
  <2> QED BY <1>1, <1>2, <2>1 DEF LastOf
<1>6. Untold(q, x) <=> Untold(p, x) /\ ~About(m, x)
  <2>1. n + 1 \in DOMAIN q
    BY <1>1
  <2> QED BY <1>1, <1>2, <1>3, <2>1 DEF Untold
<1>7. \A kind : Has(kind, p, x) => Has(kind, q, x)
  BY <1>1, <1>2 DEF Has
<1> QED BY <1>1, <1>2, <1>4, <1>5, <1>6, <1>7 DEF q, n

\* What is posted fits to the list before, the set of whose entries is f.
Fits(m, f, d) ==
  /\ m.kind = "NEW" => m.id \notin d /\ ~Knows(f, m.id)
  /\ m.kind = "UPDATE" => m.id \notin d /\ Knows(f, m.id)
  /\ m.kind = "DELETE" => m.id \in d /\ ~Knows(f, m.id)
DoomedThen(d, m) == IF m.kind = "DELETE" THEN d \ {m.id} ELSE d

\* Under way it is in turn,
LEMMA PostedInTurn ==
  ASSUME NEW p \in Seq(Messages), NEW m \in Messages, NEW f, NEW d,
         Streamed(p, f, d), Fits(m, f, d)
  PROVE  InTurn(Append(p, m))
<1> SUFFICES ASSUME NEW x \in 0 .. MaxId,
                    NEW i \in DOMAIN Append(p, m), NEW j \in DOMAIN Append(p, m), i < j
             PROVE  Renewed(Append(p, m), i, j, x) /\ Revived(Append(p, m), i, j, x)
  BY DEF InTurn
<1> DEFINE q == Append(p, m)
           n == Len(p)
<1>1. /\ n \in Nat /\ q[n + 1] = m
      /\ DOMAIN p = 1 .. n /\ DOMAIN q = 1 .. n + 1
      /\ \A k \in 1 .. n : /\ Tells(q, k, x) <=> Tells(p, k, x)
                           /\ \A kind : TellsOf(kind, q, k, x) <=> TellsOf(kind, p, k, x)
      /\ \A kind : TellsOf(kind, q, n + 1, x) <=> m.id = x /\ m.kind = kind
  BY OnePosted, ZenonT(60)
<1> HIDE DEF q, n
<1>2. CASE j \in 1 .. n
  <2>1. i \in 1 .. n
    BY <1>1, <1>2 DEF q
  <2>2. Renewed(p, i, j, x) /\ Revived(p, i, j, x)
    BY <1>1, <1>2, <2>1 DEF Streamed, InTurn
  <2>3. \A k \in i .. j - 1 : k \in 1 .. n
    BY <1>1, <1>2, <2>1
  <2> QED BY <1>1, <1>2, <2>1, <2>2, <2>3 DEF Renewed, Revived, q
<1>3. CASE j = n + 1 /\ m.id = x /\ m.kind \in {"NEW", "UPDATE"}
  <2>1. i \in 1 .. n /\ j - 1 = n
    BY <1>1, <1>3 DEF q
  <2> SUFFICES ASSUME Tells(p, i, x)
               PROVE  /\ m.kind = "NEW" => \E k \in i .. n : TellsOf("DELETE", p, k, x)
                      /\ m.kind = "UPDATE" /\ TellsOf("DELETE", p, i, x) =>
                           \E k \in i .. n : TellsOf("NEW", p, k, x)
    <3>1. \A k \in i .. n : k \in 1 .. n
      BY <2>1
    <3>2. TellsOf("DELETE", p, i, x) => Tells(p, i, x)
      BY DEF TellsOf, Tells
    <3>3. Renewed(q, i, n + 1, x)
      BY <1>1, <1>3, <2>1, <3>1 DEF Renewed
    <3>4. Revived(q, i, n + 1, x)
      BY <1>1, <1>3, <2>1, <3>1, <3>2 DEF Revived
    <3> QED BY <1>3, <3>3, <3>4 DEF q
  <2>2. PICK l \in DOMAIN p : LastOf(p, l, x)
    BY <1>1, <2>1, LastIsThere DEF Untold
  <2>3. l \in i .. n /\ p[l].kind \in {"NEW", "UPDATE", "DELETE"} /\ TellsOf(p[l].kind, p, l, x)
    BY <1>1, <2>1, <2>2 DEF LastOf, Tells, TellsOf
  <2>4. x \notin d /\ (m.kind = "NEW" => ~Knows(f, x)) /\ (m.kind = "UPDATE" => Knows(f, x))
    BY <1>3 DEF Fits, About
  <2>5. /\ p[l].kind = "DELETE" => ~Knows(f, x)
        /\ p[l].kind # "DELETE" => Entry(x, p[l].on) \in f
    BY <2>2, <2>4 DEF Streamed, ToldLast
  <2>6. p[l].on \in BOOLEAN
    <3>1. p[l] \in Messages
      BY <2>2
    <3> QED BY <3>1 DEF Messages
  <2>7. CASE m.kind = "NEW"
    <3>1. p[l].kind = "DELETE"
      BY <2>4, <2>5, <2>6, <2>7 DEF Knows
    <3> QED BY <2>3, <2>7, <3>1
  <2>8. CASE m.kind = "UPDATE"
    <3> SUFFICES ASSUME TellsOf("DELETE", p, i, x)
                 PROVE  \E k \in i .. n : TellsOf("NEW", p, k, x)
      BY <2>8
    <3>1. p[l].kind # "DELETE" /\ l # i
      BY <2>4, <2>5, <2>8 DEF TellsOf
    <3>2. CASE p[l].kind = "UPDATE"
      <4>1. i < l /\ Revived(p, i, l, x)
        <5>1. i < l
          BY <2>1, <2>3, <3>1
        <5> QED BY <1>1, <2>1, <2>2, <5>1 DEF Streamed, InTurn
      <4>2. PICK k \in i .. l - 1 : TellsOf("NEW", p, k, x)
        BY <2>3, <3>2, <4>1 DEF Revived
      <4>3. k \in i .. n
        BY <2>1, <2>3
      <4> QED BY <4>2, <4>3
    <3> QED BY <2>3, <3>1, <3>2
  <2> QED BY <1>3, <2>7, <2>8
<1>4. CASE j = n + 1 /\ ~ (m.id = x /\ m.kind \in {"NEW", "UPDATE"})
  BY <1>1, <1>4 DEF Renewed, Revived, q
<1>5. j \in 1 .. n \/ j = n + 1
  BY <1>1 DEF q
<1> QED BY <1>2, <1>3, <1>4, <1>5 DEF q

\* says of its download what is so now,
LEMMA PostedStreamed ==
  ASSUME NEW p \in Seq(Messages), NEW m \in Messages, NEW f, NEW d,
         Streamed(p, f, d), Fits(m, f, d)
  PROVE  Streamed(Append(p, m), AppliedTo(f, m), DoomedThen(d, m))
<1> SUFFICES ASSUME NEW x \in (0 .. MaxId) \ DoomedThen(d, m),
                    NEW i \in DOMAIN Append(p, m), LastOf(Append(p, m), i, x)
             PROVE  LET q == Append(p, m)
                        g == AppliedTo(f, m)
                    IN  /\ q[i].kind = "DELETE" => ~Knows(g, x)
                        /\ q[i].kind # "DELETE" => Entry(x, q[i].on) \in g
  BY PostedInTurn DEF Streamed, ToldLast
<1> DEFINE q == Append(p, m)
           n == Len(p)
<1>1. /\ q[n + 1] = m /\ q \in Seq(Messages)
      /\ DOMAIN p = 1 .. n
      /\ \A k \in 1 .. n : q[k] = p[k]
      /\ About(m, x) => \A k \in DOMAIN q : LastOf(q, k, x) <=> k = n + 1
      /\ ~About(m, x) => \A k \in DOMAIN q : LastOf(q, k, x) <=> k \in 1 .. n /\ LastOf(p, k, x)
  BY OnePosted
<1> HIDE DEF q, n
<1>2. PICK g : g = AppliedTo(f, m)
  OBVIOUS
<1>3. \A on \in BOOLEAN :
         /\ (m.id # x \/ m.kind \notin {"NEW", "UPDATE", "DELETE"}) =>
              (Entry(x, on) \in g <=> Entry(x, on) \in f)
         /\ (m.id = x /\ m.kind = "DELETE") => Entry(x, on) \notin g
         /\ (m.id = x /\ m.kind = "UPDATE") =>
              (Entry(x, on) \in g <=> Knows(f, x) /\ on = m.on)
         /\ (m.id = x /\ m.kind = "NEW") =>
              (Entry(x, on) \in g <=> Entry(x, on) \in f \/ (~Knows(f, x) /\ on = m.on))
  BY <1>2, AppliedEntries
<1>4. m.on \in BOOLEAN /\ q[i].on \in BOOLEAN
  <2>1. q[i] \in Messages
    BY <1>1 DEF q
  <2> QED BY <2>1 DEF Messages
<1>5. CASE About(m, x)
  <2>1. q[i] = m
    BY <1>1, <1>5 DEF q
  <2> QED BY <1>2, <1>3, <1>4, <1>5, <2>1 DEF Fits, Knows, About, q
<1>6. CASE ~About(m, x)
  <2>1. i \in DOMAIN p /\ q[i] = p[i] /\ LastOf(p, i, x)
    BY <1>1, <1>6 DEF q
  <2>2. x \notin d
    BY <1>6 DEF DoomedThen, About
  <2>3. /\ p[i].kind = "DELETE" => ~Knows(f, x)
        /\ p[i].kind # "DELETE" => Entry(x, p[i].on) \in f
    BY <2>1, <2>2 DEF Streamed, ToldLast
  <2>4. (Knows(g, x) <=> Knows(f, x)) /\ (Entry(x, p[i].on) \in g <=> Entry(x, p[i].on) \in f)
    BY <1>3, <1>4, <1>6, <2>1 DEF Knows, About
  <2> QED BY <1>2, <2>1, <2>3, <2>4 DEF q
<1> QED BY <1>5, <1>6

\* and does what the list that is shown lacks.
LEMMA PostedLeads ==
  ASSUME NEW p \in Seq(Messages), NEW m \in Messages, NEW e, NEW f, NEW d,
         Streamed(p, f, d), Fits(m, f, d), Leads(e, p, f, d)
  PROVE  Leads(e, Append(p, m), AppliedTo(f, m), DoomedThen(d, m))
<1> SUFFICES ASSUME NEW x \in (0 .. MaxId) \ DoomedThen(d, m)
             PROVE  LeadsOf(e, Append(p, m), AppliedTo(f, m), x)
  BY DEF Leads
<1> DEFINE q == Append(p, m)
           n == Len(p)
<1>1. /\ q[n + 1] = m /\ q \in Seq(Messages)
      /\ DOMAIN p = 1 .. n
      /\ \A k \in 1 .. n : q[k] = p[k]
      /\ About(m, x) => \A k \in DOMAIN q : LastOf(q, k, x) <=> k = n + 1
      /\ ~About(m, x) => \A k \in DOMAIN q : LastOf(q, k, x) <=> k \in 1 .. n /\ LastOf(p, k, x)
      /\ Untold(q, x) <=> Untold(p, x) /\ ~About(m, x)
      /\ \A kind : Has(kind, p, x) => Has(kind, q, x)
  BY OnePosted
<1> HIDE DEF q, n
<1>2. PICK g : g = AppliedTo(f, m)
  OBVIOUS
<1>3. CASE About(m, x)
  <2> SUFFICES ASSUME m.kind # "DELETE"
               PROVE  /\ m.kind = "UPDATE" => Knows(e, x) \/ Has("NEW", q, x)
                      /\ m.kind = "NEW" =>
                           ~Knows(e, x) \/ Entry(x, m.on) \in e \/ Has("DELETE", q, x)
    BY <1>1, <1>3 DEF LeadsOf, About, DoomedThen, q
  <2>1. x \notin d /\ (m.kind = "NEW" => ~Knows(f, x)) /\ (m.kind = "UPDATE" => Knows(f, x))
    BY <1>3 DEF Fits, About
  <2>2. LeadsOf(e, p, f, x)
    BY <2>1 DEF Leads
  <2>3. CASE Untold(p, x)
    <3>1. Knows(e, x) <=> Knows(f, x)
      BY <2>2, <2>3 DEF LeadsOf, SameOf, Knows
    <3> QED BY <2>1, <3>1
  <2>4. CASE ~Untold(p, x)
    <3>1. PICK l \in DOMAIN p : LastOf(p, l, x)
      BY <2>4, LastIsThere
    <3>2. /\ p[l].kind = "DELETE" => ~Knows(f, x)
          /\ p[l].kind # "DELETE" => Entry(x, p[l].on) \in f
      BY <2>1, <3>1 DEF Streamed, ToldLast
    <3>3. /\ p[l].kind = "UPDATE" => Knows(e, x) \/ Has("NEW", p, x)
          /\ TellsOf(p[l].kind, p, l, x) /\ p[l].kind \in {"NEW", "UPDATE", "DELETE"}
      BY <2>2, <3>1 DEF LeadsOf, LastOf, Tells, TellsOf
    <3>4. p[l].on \in BOOLEAN
      <4>1. p[l] \in Messages
        BY <3>1
      <4> QED BY <4>1 DEF Messages
    <3>5. ASSUME m.kind = "NEW" PROVE Has("DELETE", q, x)
      <4>1. p[l].kind = "DELETE"
        BY <2>1, <3>2, <3>4, <3>5 DEF Knows
      <4> QED BY <1>1, <3>3, <4>1 DEF Has
    <3>6. ASSUME m.kind = "UPDATE" PROVE Knows(e, x) \/ Has("NEW", q, x)
      <4>1. p[l].kind # "DELETE"
        BY <2>1, <3>2, <3>6
      <4>2. p[l].kind = "NEW" => Has("NEW", p, x)
        BY <3>3 DEF Has
      <4> QED BY <1>1, <3>3, <4>1, <4>2
    <3> QED BY <3>5, <3>6
  <2> QED BY <2>3, <2>4
<1>4. CASE ~About(m, x)
  <2>1. x \notin d
    BY <1>4 DEF DoomedThen, About
  <2>2. LeadsOf(e, p, f, x)
    BY <2>1 DEF Leads
  <2>3. \A on \in BOOLEAN : Entry(x, on) \in g <=> Entry(x, on) \in f
    BY <1>2, <1>4, AppliedEntries DEF About
  <2>4. Untold(q, x) => SameOf(e, g, x)
    BY <1>1, <2>2, <2>3 DEF LeadsOf, SameOf
  <2>5. ASSUME NEW i \in DOMAIN q, LastOf(q, i, x)
        PROVE  /\ q[i].kind = "UPDATE" => Knows(e, x) \/ Has("NEW", q, x)
               /\ q[i].kind = "NEW" =>
                    ~Knows(e, x) \/ Entry(x, q[i].on) \in e \/ Has("DELETE", q, x)
    <3>1. i \in DOMAIN p /\ q[i] = p[i] /\ LastOf(p, i, x)
      BY <1>1, <1>4, <2>5
    <3> QED BY <1>1, <2>2, <3>1 DEF LeadsOf
  <2> QED BY <1>2, <2>4, <2>5 DEF LeadsOf, q
<1> QED BY <1>3, <1>4

\* A download that is deleted, and not yet destroyed, is asked about no more.
LEMMA DeletedStreamed ==
  ASSUME NEW p, NEW e, NEW f, NEW g, NEW d, NEW z,
         \A x \in 0 .. MaxId, on \in BOOLEAN : x # z => (Entry(x, on) \in g <=> Entry(x, on) \in f),
         p \in Seq(Messages)
  PROVE  /\ Streamed(p, f, d) => Streamed(p, g, d \cup {z})
         /\ Leads(e, p, f, d) => Leads(e, p, g, d \cup {z})
<1>1. ASSUME NEW x \in (0 .. MaxId) \ (d \cup {z})
      PROVE  x \in (0 .. MaxId) \ d /\ \A on \in BOOLEAN : Entry(x, on) \in g <=> Entry(x, on) \in f
  OBVIOUS
<1>2. \A i \in DOMAIN p : p[i].on \in BOOLEAN
  <2>1. \A i \in DOMAIN p : p[i] \in Messages
    OBVIOUS
  <2> QED BY <2>1 DEF Messages
<1>3. ASSUME Streamed(p, f, d) PROVE Streamed(p, g, d \cup {z})
  <2> SUFFICES ASSUME NEW x \in (0 .. MaxId) \ (d \cup {z}), NEW i \in DOMAIN p, LastOf(p, i, x)
               PROVE  /\ p[i].kind = "DELETE" => ~Knows(g, x)
                      /\ p[i].kind # "DELETE" => Entry(x, p[i].on) \in g
    BY <1>3 DEF Streamed, ToldLast
  <2>1. /\ p[i].kind = "DELETE" => ~Knows(f, x)
        /\ p[i].kind # "DELETE" => Entry(x, p[i].on) \in f
    BY <1>1, <1>3 DEF Streamed, ToldLast
  <2> QED BY <1>1, <1>2, <2>1 DEF Knows
<1>4. ASSUME Leads(e, p, f, d) PROVE Leads(e, p, g, d \cup {z})
  <2> SUFFICES ASSUME NEW x \in (0 .. MaxId) \ (d \cup {z}) PROVE LeadsOf(e, p, g, x)
    BY DEF Leads
  <2>1. LeadsOf(e, p, f, x)
    BY <1>1, <1>4 DEF Leads
  <2> QED BY <1>1, <2>1 DEF LeadsOf, SameOf
<1> QED BY <1>3, <1>4

--------------------------------------------------------------------------------
(* Updates that a later one supersedes, left out.                           *)

\* The i-th message is an update that a later one supersedes.
Superseded(p, i) == \E j \in DOMAIN p : /\ j > i
                                        /\ p[i].kind = "UPDATE"
                                        /\ p[j].kind = "UPDATE"
                                        /\ p[j].id = p[i].id
\* The k-th message of q is the g[k]-th of p.
ThinsBy(p, q, g) ==
  /\ g \in [DOMAIN q -> DOMAIN p]
  /\ \A k \in DOMAIN q : q[k] = p[g[k]]
  /\ \A k, l \in DOMAIN q : k < l => g[k] < g[l]
  /\ \A i \in DOMAIN p : Superseded(p, i) \/ \E k \in DOMAIN q : g[k] = i
Thins(p, q) == \E g : ThinsBy(p, q, g)

\* get_updates leaves out nothing else.
LEMMA LatestThins ==
  ASSUME NEW p \in Seq(Messages)
  PROVE  Latest(p) \in Seq(Messages) /\ Thins(p, Latest(p))
<1> DEFINE I == {i \in DOMAIN p : ~Superseded(p, i)}
<1>1. Latest(p) = KeptAt(p, I)
  BY DEF Latest, Superseded
<1>2. I \subseteq DOMAIN p
  OBVIOUS
<1> HIDE DEF I
<1>3. KeptAt(p, I) \in Seq(Messages) /\ \E f : PlacedBy(f, KeptAt(p, I), p, I)
  BY <1>2, KeptAtPlaces
<1>4. PICK q : q = KeptAt(p, I)
  OBVIOUS
<1>5. PICK f : PlacedBy(f, q, p, I)
  BY <1>3, <1>4
<1>6. f \in [DOMAIN q -> DOMAIN p]
  BY <1>2, <1>5 DEF PlacedBy
<1>7. \A i \in DOMAIN p : Superseded(p, i) \/ i \in I
  BY DEF I
<1>8. ThinsBy(p, q, f)
  BY <1>5, <1>6, <1>7 DEF ThinsBy, PlacedBy
<1> QED BY <1>1, <1>3, <1>4, <1>8 DEF Thins

\* The same with other messages before and after.
LEMMA ThinsBetween ==
  ASSUME NEW p \in Seq(Messages), NEW q \in Seq(Messages), Thins(p, q),
         NEW a \in Seq(Messages)
  PROVE  Thins(a \o p, a \o q) /\ Thins(p \o a, q \o a)
<1>1. PICK g : ThinsBy(p, q, g)
  BY DEF Thins
<1>2. PICK n, m, l : n = Len(a) /\ m = Len(p) /\ l = Len(q)
  OBVIOUS
<1>3. /\ n \in Nat /\ m \in Nat /\ l \in Nat
      /\ DOMAIN a = 1 .. n /\ DOMAIN p = 1 .. m /\ DOMAIN q = 1 .. l
  BY <1>2, LenProperties
<1>4. /\ \A k \in 1 .. l : g[k] \in 1 .. m /\ q[k] = p[g[k]]
      /\ \A k, h \in 1 .. l : k < h => g[k] < g[h]
      /\ \A i \in 1 .. m : Superseded(p, i) \/ \E k \in 1 .. l : g[k] = i
  BY <1>1, <1>3 DEF ThinsBy
<1>5. Thins(a \o p, a \o q)
  <2>1. PICK p2, q2 : p2 = a \o p /\ q2 = a \o q
    OBVIOUS
  <2>2. /\ DOMAIN p2 = 1 .. n + m /\ DOMAIN q2 = 1 .. n + l
        /\ \A i \in 1 .. n : p2[i] = a[i] /\ q2[i] = a[i]
        /\ \A i \in 1 .. m : n + i \in 1 .. n + m /\ p2[n + i] = p[i]
        /\ \A k \in 1 .. l : n + k \in 1 .. n + l /\ q2[n + k] = q[k]
        /\ \A i \in 1 .. n + m : i \notin 1 .. n => i - n \in 1 .. m
        /\ \A k \in 1 .. n + l : k \notin 1 .. n => k - n \in 1 .. l
    <3>1. /\ DOMAIN (a \o p) = 1 .. n + m
          /\ \A i \in 1 .. n : (a \o p)[i] = a[i]
          /\ \A i \in 1 .. m : n + i \in DOMAIN (a \o p) /\ (a \o p)[n + i] = p[i]
          /\ \A i \in DOMAIN (a \o p) : i \notin 1 .. n => i - n \in 1 .. m
      BY <1>2, StreamPlaces
    <3>2. /\ DOMAIN (a \o q) = 1 .. n + l
          /\ \A i \in 1 .. n : (a \o q)[i] = a[i]
          /\ \A i \in 1 .. l : n + i \in DOMAIN (a \o q) /\ (a \o q)[n + i] = q[i]
          /\ \A i \in DOMAIN (a \o q) : i \notin 1 .. n => i - n \in 1 .. l
      BY <1>2, StreamPlaces
    <3> QED BY <2>1, <3>1, <3>2
  <2> DEFINE h == [k \in 1 .. n + l |-> IF k \in 1 .. n THEN k ELSE n + g[k - n]]
  <2>3. \A k \in 1 .. n : h[k] = k
    BY <1>3
  <2>4. \A k \in 1 .. l : h[n + k] = n + g[k]
    <3> TAKE k \in 1 .. l
    <3>1. n + k \in 1 .. n + l /\ n + k \notin 1 .. n /\ (n + k) - n = k
      BY <1>3
    <3> QED BY <3>1
  <2>5. h \in [1 .. n + l -> 1 .. n + m]
    <3> SUFFICES ASSUME NEW k \in 1 .. n + l PROVE h[k] \in 1 .. n + m
      OBVIOUS
    <3>1. CASE k \in 1 .. n
      BY <1>3, <2>3, <3>1
    <3>2. CASE k \notin 1 .. n
      <4>1. k - n \in 1 .. l /\ k = n + (k - n)
        BY <1>3, <2>2, <3>2
      <4>2. h[k] = n + g[k - n] /\ g[k - n] \in 1 .. m
        BY <1>4, <2>4, <4>1
      <4> HIDE DEF h
      <4> QED BY <1>3, <4>2
    <3> QED BY <3>1, <3>2
  <2> HIDE DEF h
  <2>6. \A k \in 1 .. n + l : k \in 1 .. n \/ \E j \in 1 .. l : k = n + j
    <3> TAKE k \in 1 .. n + l
    <3>1. CASE k \notin 1 .. n
      <4>1. k - n \in 1 .. l /\ k = n + (k - n)
        BY <1>3, <2>2, <3>1
      <4> QED BY <4>1
    <3> QED BY <3>1
  <2>7. ASSUME NEW k \in 1 .. n + l PROVE q2[k] = p2[h[k]]
    <3>1. CASE k \in 1 .. n
      BY <2>2, <2>3, <3>1
    <3>2. CASE \E j \in 1 .. l : k = n + j
      <4>1. PICK j \in 1 .. l : k = n + j
        BY <3>2
      <4>2. h[k] = n + g[j] /\ g[j] \in 1 .. m /\ q[j] = p[g[j]]
        BY <1>4, <2>4, <4>1
      <4>3. q2[k] = q[j] /\ p2[n + g[j]] = p[g[j]]
        BY <2>2, <4>1, <4>2
      <4> QED BY <4>2, <4>3
    <3> QED BY <2>6, <3>1, <3>2
  <2>8. ASSUME NEW k \in 1 .. n + l, NEW j \in 1 .. n + l, k < j PROVE h[k] < h[j]
    <3>1. CASE j \in 1 .. n
      <4>1. k \in 1 .. n
        BY <1>3, <2>8, <3>1
      <4> QED BY <2>3, <2>8, <3>1, <4>1
    <3>2. CASE \E j2 \in 1 .. l : j = n + j2
      <4>1. PICK j2 \in 1 .. l : j = n + j2
        BY <3>2
      <4>2. h[j] = n + g[j2] /\ g[j2] \in 1 .. m
        BY <1>4, <2>4, <4>1
      <4>3. CASE k \in 1 .. n
        BY <1>3, <2>3, <4>2, <4>3
      <4>4. CASE \E k2 \in 1 .. l : k = n + k2
        <5>1. PICK k2 \in 1 .. l : k = n + k2
          BY <4>4
        <5>2. h[k] = n + g[k2] /\ k2 < j2
          BY <1>3, <2>4, <2>8, <4>1, <5>1
        <5>3. g[k2] < g[j2] /\ g[k2] \in 1 .. m
          BY <1>4, <5>2
        <5> QED BY <1>3, <4>2, <5>2, <5>3
      <4> QED BY <2>6, <4>3, <4>4
    <3> QED BY <2>6, <3>1, <3>2
  <2>9. ASSUME NEW i \in 1 .. n + m PROVE Superseded(p2, i) \/ \E k \in 1 .. n + l : h[k] = i
    <3>1. CASE i \in 1 .. n
      <4>1. i \in 1 .. n + l
        BY <1>3, <3>1
      <4> QED BY <2>3, <3>1, <4>1
    <3>2. CASE i \notin 1 .. n
      <4>1. PICK i2 \in 1 .. m : i = n + i2
        <5>1. i - n \in 1 .. m /\ i = n + (i - n)
          BY <1>3, <2>2, <3>2
        <5> QED BY <5>1
      <4>2. CASE \E k \in 1 .. l : g[k] = i2
        <5>1. PICK k \in 1 .. l : g[k] = i2
          BY <4>2
        <5> QED BY <2>2, <2>4, <4>1, <5>1
      <4>3. CASE Superseded(p, i2)
        <5>1. PICK j \in 1 .. m : /\ j > i2 /\ p[i2].kind = "UPDATE"
                                  /\ p[j].kind = "UPDATE" /\ p[j].id = p[i2].id
          BY <1>3, <4>3 DEF Superseded
        <5>2. n + j > n + i2
          BY <1>3, <5>1
        <5> QED BY <2>2, <4>1, <5>1, <5>2 DEF Superseded
      <4> QED BY <1>4, <4>2, <4>3
    <3> QED BY <3>1, <3>2
  <2>10. ThinsBy(p2, q2, h)
    BY <2>2, <2>5, <2>7, <2>8, <2>9 DEF ThinsBy
  <2> QED BY <2>1, <2>10 DEF Thins
<1>6. Thins(p \o a, q \o a)
  <2>1. PICK p2, q2 : p2 = p \o a /\ q2 = q \o a
    OBVIOUS
  <2>2. /\ DOMAIN p2 = 1 .. m + n /\ DOMAIN q2 = 1 .. l + n
        /\ \A i \in 1 .. m : p2[i] = p[i]
        /\ \A i \in 1 .. l : q2[i] = q[i]
        /\ \A i \in 1 .. n : m + i \in 1 .. m + n /\ p2[m + i] = a[i]
        /\ \A i \in 1 .. n : l + i \in 1 .. l + n /\ q2[l + i] = a[i]
        /\ \A i \in 1 .. m + n : i \notin 1 .. m => i - m \in 1 .. n
        /\ \A k \in 1 .. l + n : k \notin 1 .. l => k - l \in 1 .. n
    <3>1. /\ DOMAIN (p \o a) = 1 .. m + n
          /\ \A i \in 1 .. m : (p \o a)[i] = p[i]
          /\ \A i \in 1 .. n : m + i \in DOMAIN (p \o a) /\ (p \o a)[m + i] = a[i]
          /\ \A i \in DOMAIN (p \o a) : i \notin 1 .. m => i - m \in 1 .. n
      BY <1>2, StreamPlaces
    <3>2. /\ DOMAIN (q \o a) = 1 .. l + n
          /\ \A i \in 1 .. l : (q \o a)[i] = q[i]
          /\ \A i \in 1 .. n : l + i \in DOMAIN (q \o a) /\ (q \o a)[l + i] = a[i]
          /\ \A i \in DOMAIN (q \o a) : i \notin 1 .. l => i - l \in 1 .. n
      BY <1>2, StreamPlaces
    <3> QED BY <2>1, <3>1, <3>2
  <2> DEFINE h == [k \in 1 .. l + n |-> IF k \in 1 .. l THEN g[k] ELSE m + (k - l)]
  <2>3. \A k \in 1 .. l : h[k] = g[k] /\ g[k] \in 1 .. m
    <3> TAKE k \in 1 .. l
    <3>1. k \in 1 .. l + n
      BY <1>3
    <3>2. h[k] = g[k]
      BY <3>1
    <3> QED BY <1>4, <3>2
  <2>4. \A k \in 1 .. n : h[l + k] = m + k
    <3> TAKE k \in 1 .. n
    <3>1. l + k \in 1 .. l + n /\ l + k \notin 1 .. l /\ (l + k) - l = k
      BY <1>3
    <3> QED BY <3>1
  <2> HIDE DEF h
  <2>6. \A k \in 1 .. l + n : k \in 1 .. l \/ \E j \in 1 .. n : k = l + j
    <3> TAKE k \in 1 .. l + n
    <3>1. CASE k \notin 1 .. l
      <4>1. k - l \in 1 .. n /\ k = l + (k - l)
        BY <1>3, <2>2, <3>1
      <4> QED BY <4>1
    <3> QED BY <3>1
  <2>5. h \in [1 .. l + n -> 1 .. m + n]
    <3>1. \A k \in 1 .. l + n : h[k] \in 1 .. m + n
      <4> TAKE k \in 1 .. l + n
      <4>1. CASE k \in 1 .. l
        <5>1. h[k] \in 1 .. m
          BY <2>3, <4>1
        <5> QED BY <1>3, <5>1
      <4>2. CASE \E j \in 1 .. n : k = l + j
        BY <2>2, <2>4, <4>2
      <4> QED BY <2>6, <4>1, <4>2
    <3> QED BY <3>1 DEF h
  <2>7. \A k \in 1 .. l + n : q2[k] = p2[h[k]]
    BY <1>4, <2>2, <2>3, <2>4, <2>6
  <2>8. ASSUME NEW k \in 1 .. l + n, NEW j \in 1 .. l + n, k < j PROVE h[k] < h[j]
    <3>1. CASE j \in 1 .. l
      <4>1. k \in 1 .. l
        BY <1>3, <2>8, <3>1
      <4>2. g[k] < g[j]
        BY <1>4, <2>8, <3>1, <4>1
      <4> QED BY <2>3, <3>1, <4>1, <4>2
    <3>2. CASE \E j2 \in 1 .. n : j = l + j2
      <4>1. PICK j2 \in 1 .. n : j = l + j2
        BY <3>2
      <4>2. h[j] = m + j2
        BY <2>4, <4>1
      <4>3. CASE k \in 1 .. l
        <5>1. h[k] \in 1 .. m
          BY <2>3, <4>3
        <5> QED BY <1>3, <4>2, <5>1
      <4>4. CASE \E k2 \in 1 .. n : k = l + k2
        <5>1. PICK k2 \in 1 .. n : k = l + k2
          BY <4>4
        <5>2. h[k] = m + k2 /\ k2 < j2
          BY <1>3, <2>4, <2>8, <4>1, <5>1
        <5> QED BY <1>3, <4>2, <5>2
      <4> QED BY <2>6, <4>3, <4>4
    <3> QED BY <2>6, <3>1, <3>2
  <2>9. ASSUME NEW i \in 1 .. m + n PROVE Superseded(p2, i) \/ \E k \in 1 .. l + n : h[k] = i
    <3>1. CASE i \notin 1 .. m
      <4>1. i - m \in 1 .. n /\ i = m + (i - m)
        BY <1>3, <2>2, <3>1
      <4>2. h[l + (i - m)] = i /\ l + (i - m) \in 1 .. l + n
        BY <2>2, <2>4, <4>1
      <4> QED BY <4>2
    <3>2. CASE i \in 1 .. m
      <4>1. \A k \in 1 .. l : k \in 1 .. l + n
        BY <1>3
      <4>2. CASE \E k \in 1 .. l : g[k] = i
        BY <2>3, <4>1, <4>2
      <4>3. CASE Superseded(p, i)
        <5>1. PICK j \in 1 .. m : /\ j > i /\ p[i].kind = "UPDATE"
                                  /\ p[j].kind = "UPDATE" /\ p[j].id = p[i].id
          BY <1>3, <4>3 DEF Superseded
        <5>2. j \in 1 .. m + n
          BY <1>3
        <5> QED BY <2>2, <3>2, <5>1, <5>2 DEF Superseded
      <4> QED BY <1>4, <3>2, <4>2, <4>3
    <3> QED BY <3>1, <3>2
  <2>10. ThinsBy(p2, q2, h)
    BY <2>2, <2>5, <2>7, <2>8, <2>9 DEF ThinsBy
  <2> QED BY <2>1, <2>10 DEF Thins
<1> QED BY <1>5, <1>6

\* What a thinned stream tells is the same at the places it has kept, and it has
\* kept the last that is told of each download, and all that is not an update.
LEMMA ThinTells ==
  ASSUME NEW p \in Seq(Messages), NEW q \in Seq(Messages), NEW g, ThinsBy(p, q, g), NEW x
  PROVE  /\ \A k \in DOMAIN q : /\ g[k] \in DOMAIN p /\ q[k] = p[g[k]]
                                /\ Tells(q, k, x) <=> Tells(p, g[k], x)
                                /\ \A kind : TellsOf(kind, q, k, x) <=> TellsOf(kind, p, g[k], x)
                                /\ LastOf(q, k, x) <=> LastOf(p, g[k], x)
         /\ \A k, l \in DOMAIN q : k < l <=> g[k] < g[l]
         /\ \A i \in DOMAIN p : LastOf(p, i, x) \/ p[i].kind # "UPDATE" =>
              \E k \in DOMAIN q : g[k] = i
         /\ Untold(q, x) <=> Untold(p, x)
         /\ \A kind \in {"NEW", "DELETE"} : Has(kind, q, x) <=> Has(kind, p, x)
<1>1. /\ Len(p) \in Nat /\ Len(q) \in Nat
      /\ DOMAIN p = 1 .. Len(p) /\ DOMAIN q = 1 .. Len(q)
  BY LenProperties
<1>2. /\ \A k \in DOMAIN q : g[k] \in DOMAIN p /\ q[k] = p[g[k]]
      /\ \A k, l \in DOMAIN q : k < l => g[k] < g[l]
      /\ \A i \in DOMAIN p : Superseded(p, i) \/ \E k \in DOMAIN q : g[k] = i
  BY DEF ThinsBy
<1>3. \A k \in DOMAIN q : /\ Tells(q, k, x) <=> Tells(p, g[k], x)
                          /\ \A kind : TellsOf(kind, q, k, x) <=> TellsOf(kind, p, g[k], x)
  BY <1>2 DEF Tells, TellsOf
<1>4. \A k, l \in DOMAIN q : k < l <=> g[k] < g[l]
  <2> TAKE k, l \in DOMAIN q
  <2>1. g[k] \in Int /\ g[l] \in Int /\ k \in Int /\ l \in Int
    BY <1>1, <1>2
  <2>2. k = l \/ k < l \/ l < k
    BY <2>1
  <2> QED BY <1>2, <2>1, <2>2
<1>5. ASSUME NEW i \in DOMAIN p, LastOf(p, i, x) \/ p[i].kind # "UPDATE"
      PROVE  \E k \in DOMAIN q : g[k] = i
  <2> SUFFICES ASSUME Superseded(p, i) PROVE FALSE
    BY <1>2
  <2>1. PICK j \in DOMAIN p : /\ j > i /\ p[i].kind = "UPDATE"
                              /\ p[j].kind = "UPDATE" /\ p[j].id = p[i].id
    BY DEF Superseded
  <2>2. LastOf(p, i, x)
    BY <1>5, <2>1
  <2>3. p[i].id = x /\ Tells(p, j, x)
    BY <2>1, <2>2 DEF LastOf, Tells
  <2>4. j <= i
    BY <2>2, <2>3 DEF LastOf
  <2> QED BY <1>1, <2>1, <2>4
<1>6. Untold(q, x) <=> Untold(p, x)
  <2>1. Untold(p, x) => Untold(q, x)
    BY <1>2, <1>3 DEF Untold
  <2>2. ASSUME ~Untold(p, x) PROVE ~Untold(q, x)
    <3>1. PICK i \in DOMAIN p : LastOf(p, i, x)
      BY <2>2, LastIsThere
    <3>2. PICK k \in DOMAIN q : g[k] = i
      BY <1>5, <3>1
    <3> QED BY <1>3, <3>1, <3>2 DEF LastOf, Untold
  <2> QED BY <2>1, <2>2
<1>7. ASSUME NEW k \in DOMAIN q PROVE LastOf(q, k, x) <=> LastOf(p, g[k], x)
  <2>1. ASSUME LastOf(p, g[k], x), NEW l \in DOMAIN q, Tells(q, l, x) PROVE l <= k
    <3>1. Tells(p, g[l], x) /\ g[l] \in DOMAIN p
      BY <1>2, <1>3, <2>1
    <3>2. g[l] <= g[k]
      BY <2>1, <3>1 DEF LastOf
    <3>3. ~ (g[k] < g[l])
      BY <1>1, <1>2, <3>2
    <3> QED BY <1>1, <1>4, <3>3
  <2>2. ASSUME LastOf(q, k, x) PROVE LastOf(p, g[k], x)
    <3>1. Tells(p, g[k], x)
      BY <1>3, <2>2 DEF LastOf
    <3>2. PICK i \in DOMAIN p : LastOf(p, i, x)
      BY <1>2, <3>1, LastIsThere DEF Untold
    <3>3. PICK l \in DOMAIN q : g[l] = i
      BY <1>5, <3>2
    <3>4. Tells(q, l, x)
      BY <1>3, <3>2, <3>3 DEF LastOf
    <3>5. l <= k /\ g[k] <= g[l]
      BY <1>2, <2>2, <3>1, <3>2, <3>3, <3>4 DEF LastOf
    <3>6. ~ (l < k)
      <4>1. ~ (g[l] < g[k])
        BY <1>1, <1>2, <3>5
      <4> QED BY <1>4, <4>1
    <3>7. l = k
      BY <1>1, <3>5, <3>6
    <3> QED BY <3>2, <3>3, <3>7
  <2> QED BY <1>3, <2>1, <2>2 DEF LastOf
<1>8. ASSUME NEW kind \in {"NEW", "DELETE"} PROVE Has(kind, q, x) <=> Has(kind, p, x)
  <2>1. Has(kind, q, x) => Has(kind, p, x)
    BY <1>2, <1>3 DEF Has
  <2>2. ASSUME Has(kind, p, x) PROVE Has(kind, q, x)
    <3>1. PICK i \in DOMAIN p : TellsOf(kind, p, i, x)
      BY <2>2 DEF Has
    <3>2. PICK k \in DOMAIN q : g[k] = i
      BY <1>5, <3>1 DEF TellsOf
    <3> QED BY <1>3, <3>1, <3>2 DEF Has
  <2> QED BY <2>1, <2>2
<1> QED BY <1>2, <1>3, <1>4, <1>5, <1>6, <1>7, <1>8

\* What is so of a stream is so of the thinned one.
LEMMA ThinStreamed ==
  ASSUME NEW p \in Seq(Messages), NEW q \in Seq(Messages), Thins(p, q), NEW f, NEW d,
         Streamed(p, f, d)
  PROVE  Streamed(q, f, d)
<1>1. PICK g : ThinsBy(p, q, g)
  BY DEF Thins
<1>2. \A x : \A k \in DOMAIN q : /\ g[k] \in DOMAIN p /\ q[k] = p[g[k]]
                                 /\ Tells(q, k, x) <=> Tells(p, g[k], x)
                                 /\ LastOf(q, k, x) <=> LastOf(p, g[k], x)
  <2> TAKE x
  <2>1. \A k \in DOMAIN q : g[k] \in DOMAIN p /\ q[k] = p[g[k]]
    BY <1>1 DEF ThinsBy
  <2>2. \A k \in DOMAIN q : Tells(q, k, x) <=> Tells(p, g[k], x)
    BY <1>1, ThinTells
  <2>3. \A k \in DOMAIN q : LastOf(q, k, x) <=> LastOf(p, g[k], x)
    BY <1>1, ThinTells
  <2> QED BY <2>1, <2>2, <2>3
<1>3. \A x : \A k \in DOMAIN q : \A kind : TellsOf(kind, q, k, x) <=> TellsOf(kind, p, g[k], x)
  BY <1>1, ThinTells
<1>4. /\ \A k, l \in DOMAIN q : k < l <=> g[k] < g[l]
      /\ \A i \in DOMAIN p : p[i].kind # "UPDATE" => \E k \in DOMAIN q : g[k] = i
  BY <1>1, ThinTells
<1>5. ToldLast(q, f, d)
  BY <1>2 DEF Streamed, ToldLast
<1>6. /\ DOMAIN p \subseteq Int /\ DOMAIN q \subseteq Int
  BY LenProperties
<1>7. ASSUME NEW x \in 0 .. MaxId, NEW k \in DOMAIN q, NEW l \in DOMAIN q, k < l
      PROVE  Renewed(q, k, l, x) /\ Revived(q, k, l, x)
  <2>1. Renewed(p, g[k], g[l], x) /\ Revived(p, g[k], g[l], x)
    BY <1>2, <1>4, <1>7 DEF Streamed, InTurn
  <2>2. ASSUME NEW kind \in {"NEW", "DELETE"}, NEW i \in g[k] .. g[l] - 1, TellsOf(kind, p, i, x)
        PROVE  \E h \in k .. l - 1 : TellsOf(kind, q, h, x)
    <3>1. i \in DOMAIN p /\ p[i].kind # "UPDATE"
      BY <2>2 DEF TellsOf
    <3>2. PICK h \in DOMAIN q : g[h] = i
      BY <1>4, <3>1
    <3>3. g[k] \in Int /\ g[l] \in Int /\ g[h] \in Int
      BY <1>2, <1>6
    <3>4. ~ (g[h] < g[k]) /\ g[h] < g[l]
      BY <2>2, <3>2, <3>3
    <3>5. ~ (h < k) /\ h < l
      BY <1>4, <3>4
    <3>6. h \in k .. l - 1
      BY <1>6, <3>5
    <3> QED BY <1>3, <2>2, <3>2, <3>6
  <2>3. Renewed(q, k, l, x)
    BY <1>2, <1>3, <2>1, <2>2 DEF Renewed
  <2>4. Revived(q, k, l, x)
    BY <1>3, <2>1, <2>2 DEF Revived
  <2> QED BY <2>3, <2>4
<1> QED BY <1>5, <1>7 DEF Streamed, InTurn

\* And what it does to a list, the thinned one does.
LEMMA ThinLeads ==
  ASSUME NEW p \in Seq(Messages), NEW q \in Seq(Messages), Thins(p, q), NEW e, NEW f, NEW d,
         Leads(e, p, f, d)
  PROVE  Leads(e, q, f, d)
<1>1. PICK g : ThinsBy(p, q, g)
  BY DEF Thins
<1> SUFFICES ASSUME NEW x \in (0 .. MaxId) \ d PROVE LeadsOf(e, q, f, x)
  BY DEF Leads
<1>2. LeadsOf(e, p, f, x)
  BY DEF Leads
<1>3. /\ \A k \in DOMAIN q : /\ g[k] \in DOMAIN p /\ q[k] = p[g[k]]
                             /\ LastOf(q, k, x) <=> LastOf(p, g[k], x)
      /\ Untold(q, x) <=> Untold(p, x)
      /\ Has("NEW", q, x) <=> Has("NEW", p, x)
      /\ Has("DELETE", q, x) <=> Has("DELETE", p, x)
  <2>1. \A k \in DOMAIN q : g[k] \in DOMAIN p /\ q[k] = p[g[k]]
    BY <1>1 DEF ThinsBy
  <2>2. \A k \in DOMAIN q : LastOf(q, k, x) <=> LastOf(p, g[k], x)
    BY <1>1, ThinTells
  <2>3. Untold(q, x) <=> Untold(p, x)
    BY <1>1, ThinTells
  <2>4. \A kind \in {"NEW", "DELETE"} : Has(kind, q, x) <=> Has(kind, p, x)
    BY <1>1, ThinTells
  <2> QED BY <2>1, <2>2, <2>3, <2>4
<1> QED BY <1>2, <1>3 DEF LeadsOf

--------------------------------------------------------------------------------
(* The order of the list.                                                   *)

\* No download is new under an id that is still to be told as deleted.
Fresh(p) == \A x \in 0 .. MaxId : \A i, j \in DOMAIN p :
              i < j /\ TellsOf("DELETE", p, i, x) => ~TellsOf("NEW", p, j, x)

\* A list as the messages that would make it, and x new in a stream before any y.
AsNews(l) == [i \in DOMAIN l |-> Message("NEW", l[i].id, l[i].on)]
NewBefore(s, x, y) == \E i \in DOMAIN s : /\ TellsOf("NEW", s, i, x)
                                          /\ \A j \in 1 .. i : ~TellsOf("NEW", s, j, y)
InOrder(s, l) == \A i, j \in DOMAIN l : i < j => NewBefore(s, l[i].id, l[j].id)
Distinct(l) == \A i, j \in DOMAIN l : l[i].id = l[j].id => i = j

\* What the messages that would make a list tell.
LEMMA NewsAre ==
  ASSUME NEW l \in DownloadLists
  PROVE  /\ AsNews(l) \in Seq(Messages)
         /\ DOMAIN AsNews(l) = DOMAIN l /\ Len(AsNews(l)) = Len(l)
         /\ \A x : \A i \in DOMAIN l : TellsOf("NEW", AsNews(l), i, x) <=> l[i].id = x
         /\ \A x : Has("NEW", AsNews(l), x) <=> x \in Ids(l)
<1>1. /\ Len(l) \in Nat /\ DOMAIN l = 1 .. Len(l) /\ l \in Seq(Entries)
      /\ \A i \in 1 .. Len(l) : l[i] \in Entries
  BY LenProperties DEF DownloadLists, Entries
<1>2. \A i \in DOMAIN l : Message("NEW", l[i].id, l[i].on) \in Messages
  BY <1>1 DEF Entries, Messages, Message, MessageKinds
<1>3. AsNews(l) \in Seq(Messages) /\ DOMAIN AsNews(l) = DOMAIN l /\ Len(AsNews(l)) = Len(l)
  <2>1. AsNews(l) \in [1 .. Len(l) -> Messages]
    BY <1>1, <1>2 DEF AsNews
  <2> QED BY <1>1, <2>1, SeqDef, LenProperties
<1>4. \A i \in DOMAIN l : AsNews(l)[i].id = l[i].id /\ AsNews(l)[i].kind = "NEW"
  BY DEF AsNews, Message
<1>5. \A x : \A i \in DOMAIN l : TellsOf("NEW", AsNews(l), i, x) <=> l[i].id = x
  BY <1>3, <1>4 DEF TellsOf
<1> QED BY <1>3, <1>5 DEF Has, Ids

\* What is new in two streams is new in one of them,
LEMMA HasOfTwo ==
  ASSUME NEW a \in Seq(Messages), NEW b \in Seq(Messages), NEW kind, NEW x
  PROVE  Has(kind, a \o b, x) <=> Has(kind, a, x) \/ Has(kind, b, x)
<1> DEFINE p == a \o b
           n == Len(a)
           m == Len(b)
<1>1. /\ n \in Nat /\ m \in Nat
      /\ DOMAIN a = 1 .. n /\ DOMAIN b = 1 .. m /\ DOMAIN p = 1 .. n + m
      /\ \A i \in 1 .. n : i \in DOMAIN p
      /\ \A j \in 1 .. m : n + j \in DOMAIN p
      /\ \A i \in DOMAIN p : i \notin 1 .. n => i - n \in 1 .. m
  BY StreamPlaces
<1>2. /\ \A i \in 1 .. n : TellsOf(kind, p, i, x) <=> TellsOf(kind, a, i, x)
      /\ \A j \in 1 .. m : TellsOf(kind, p, n + j, x) <=> TellsOf(kind, b, j, x)
  BY <1>1, StreamsTell
<1> HIDE DEF p, n, m
<1>3. Has(kind, a, x) \/ Has(kind, b, x) => Has(kind, p, x)
  BY <1>1, <1>2 DEF Has
<1>4. ASSUME NEW i \in DOMAIN p, TellsOf(kind, p, i, x) PROVE Has(kind, a, x) \/ Has(kind, b, x)
  <2>1. CASE i \in 1 .. n
    BY <1>1, <1>2, <1>4, <2>1 DEF Has
  <2>2. CASE i \notin 1 .. n
    <3>1. i - n \in 1 .. m /\ i = n + (i - n)
      BY <1>1, <2>2
    <3> QED BY <1>1, <1>2, <1>4, <3>1 DEF Has
  <2> QED BY <2>1, <2>2
<1>5. Has(kind, p, x) => Has(kind, a, x) \/ Has(kind, b, x)
  BY <1>4 DEF Has
<1> QED BY <1>3, <1>5 DEF p

\* and x is new before y in the first, or in the second if the first has neither.
LEMMA BeforeInTwo ==
  ASSUME NEW a \in Seq(Messages), NEW b \in Seq(Messages), NEW x, NEW y
  PROVE  NewBefore(a \o b, x, y) <=>
           \/ NewBefore(a, x, y)
           \/ /\ ~Has("NEW", a, x) /\ ~Has("NEW", a, y)
              /\ NewBefore(b, x, y)
<1> DEFINE p == a \o b
           n == Len(a)
           m == Len(b)
<1>1. /\ n \in Nat /\ m \in Nat
      /\ DOMAIN a = 1 .. n /\ DOMAIN b = 1 .. m /\ DOMAIN p = 1 .. n + m
      /\ \A i \in 1 .. n : i \in DOMAIN p
      /\ \A j \in 1 .. m : n + j \in DOMAIN p
      /\ \A i \in DOMAIN p : i \notin 1 .. n => i - n \in 1 .. m
  BY StreamPlaces
<1>2. \A z : /\ \A i \in 1 .. n : TellsOf("NEW", p, i, z) <=> TellsOf("NEW", a, i, z)
             /\ \A j \in 1 .. m : TellsOf("NEW", p, n + j, z) <=> TellsOf("NEW", b, j, z)
  BY <1>1, StreamsTell
<1> HIDE DEF p, n, m
<1>3. ASSUME NewBefore(a, x, y) PROVE NewBefore(p, x, y)
  <2>1. PICK i \in 1 .. n : TellsOf("NEW", a, i, x) /\ \A j \in 1 .. i : ~TellsOf("NEW", a, j, y)
    BY <1>1, <1>3 DEF NewBefore
  <2>2. \A j \in 1 .. i : j \in 1 .. n
    BY <1>1, <2>1
  <2> QED BY <1>1, <1>2, <2>1, <2>2 DEF NewBefore
<1>4. ASSUME ~Has("NEW", a, y), NewBefore(b, x, y) PROVE NewBefore(p, x, y)
  <2>1. PICK i \in 1 .. m : TellsOf("NEW", b, i, x) /\ \A j \in 1 .. i : ~TellsOf("NEW", b, j, y)
    BY <1>1, <1>4 DEF NewBefore
  <2>2. ASSUME NEW j \in 1 .. n + i PROVE ~TellsOf("NEW", p, j, y)
    <3>1. CASE j \in 1 .. n
      BY <1>1, <1>2, <1>4, <3>1 DEF Has
    <3>2. CASE j \notin 1 .. n
      <4>1. j - n \in 1 .. i /\ j - n \in 1 .. m /\ j = n + (j - n)
        BY <1>1, <2>1, <2>2, <3>2
      <4> QED BY <1>2, <2>1, <4>1
    <3> QED BY <3>1, <3>2
  <2>3. n + i \in DOMAIN p /\ TellsOf("NEW", p, n + i, x)
    BY <1>1, <1>2, <2>1
  <2> QED BY <2>2, <2>3 DEF NewBefore
<1>5. ASSUME NewBefore(p, x, y), ~NewBefore(a, x, y)
      PROVE  ~Has("NEW", a, x) /\ ~Has("NEW", a, y) /\ NewBefore(b, x, y)
  <2>1. PICK i \in DOMAIN p : TellsOf("NEW", p, i, x) /\ \A j \in 1 .. i : ~TellsOf("NEW", p, j, y)
    BY <1>5 DEF NewBefore
  <2>2. i \notin 1 .. n
    <3> SUFFICES ASSUME i \in 1 .. n PROVE NewBefore(a, x, y)
      BY <1>5
    <3>1. \A j \in 1 .. i : j \in 1 .. n
      BY <1>1
    <3> QED BY <1>1, <1>2, <2>1, <3>1 DEF NewBefore
  <2>3. i - n \in 1 .. m /\ i = n + (i - n)
    BY <1>1, <2>2
  <2>4. \A j \in 1 .. n : j \in 1 .. i
    BY <1>1, <2>3
  <2>5. ~Has("NEW", a, y)
    BY <1>1, <1>2, <2>1, <2>4 DEF Has
  <2>6. ~Has("NEW", a, x)
    <3> SUFFICES ASSUME NEW k \in 1 .. n, TellsOf("NEW", a, k, x) PROVE NewBefore(a, x, y)
      BY <1>1, <1>5 DEF Has
    <3>1. \A j \in 1 .. k : j \in 1 .. n
      BY <1>1
    <3> QED BY <1>1, <2>5, <3>1 DEF NewBefore, Has
  <2>7. NewBefore(b, x, y)
    <3>1. \A j \in 1 .. i - n : j \in 1 .. m /\ n + j \in 1 .. i
      BY <1>1, <2>3
    <3>2. \A j \in 1 .. i - n : ~TellsOf("NEW", b, j, y)
      BY <1>2, <2>1, <3>1
    <3>3. TellsOf("NEW", b, i - n, x)
      BY <1>2, <2>1, <2>3
    <3> QED BY <1>1, <2>3, <3>2, <3>3 DEF NewBefore
  <2> QED BY <2>5, <2>6, <2>7
<1> QED BY <1>3, <1>4, <1>5 DEF p

--------------------------------------------------------------------------------
(* What the operators on lists do to the set of the entries.                 *)

\* The ids of a list; and they are told apart if its entries are, and none is both.
LEMMA ListEntries ==
  ASSUME NEW l \in DownloadLists
  PROVE  /\ l \in Seq(Entries) /\ Len(l) \in Nat /\ DOMAIN l = 1 .. Len(l)
         /\ \A i \in DOMAIN l : /\ l[i] = Entry(l[i].id, l[i].on) /\ l[i] \in ToSet(l)
                                /\ l[i].id \in 0 .. MaxId /\ l[i].on \in BOOLEAN
         /\ ToSet(l) \subseteq Entries
         /\ \A x : x \in Ids(l) <=> Knows(ToSet(l), x)
         /\ Distinct(l) <=> IsInjective(l) /\ Single(ToSet(l))
<1>1. /\ l \in Seq(Entries) /\ Len(l) \in Nat /\ DOMAIN l = 1 .. Len(l)
      /\ \A i \in DOMAIN l : l[i] \in Entries
  BY LenProperties, ZenonT(60) DEF DownloadLists, Entries
<1>2. \A i \in DOMAIN l : /\ l[i] = Entry(l[i].id, l[i].on) /\ l[i] \in ToSet(l)
                          /\ l[i].id \in 0 .. MaxId /\ l[i].on \in BOOLEAN
  BY <1>1, EntriesAre DEF ToSet
<1>3. ToSet(l) \subseteq Entries
  BY <1>1 DEF ToSet
<1>4. ASSUME NEW x PROVE x \in Ids(l) <=> Knows(ToSet(l), x)
  <2>1. ASSUME x \in Ids(l) PROVE Knows(ToSet(l), x)
    <3>1. PICK i \in DOMAIN l : l[i].id = x
      BY <2>1 DEF Ids
    <3> QED BY <1>2, <3>1 DEF Knows
  <2>2. ASSUME NEW on \in BOOLEAN, Entry(x, on) \in ToSet(l) PROVE x \in Ids(l)
    <3>1. PICK i \in DOMAIN l : l[i] = Entry(x, on)
      BY <2>2 DEF ToSet
    <3> QED BY <3>1, EntriesAre DEF Ids
  <2> QED BY <2>1, <2>2 DEF Knows
<1>5. ASSUME Distinct(l) PROVE IsInjective(l) /\ Single(ToSet(l))
  <2>1. IsInjective(l)
    BY <1>5 DEF Distinct, IsInjective
  <2>2. ASSUME NEW x, Entry(x, TRUE) \in ToSet(l), Entry(x, FALSE) \in ToSet(l) PROVE FALSE
    <3>1. PICK i \in DOMAIN l, j \in DOMAIN l : l[i] = Entry(x, TRUE) /\ l[j] = Entry(x, FALSE)
      BY <2>2 DEF ToSet
    <3>2. l[i].id = x /\ l[j].id = x /\ l[i].on = TRUE /\ l[j].on = FALSE
      BY <3>1 DEF Entry
    <3> QED BY <1>5, <3>2 DEF Distinct
  <2> QED BY <2>1, <2>2 DEF Single
<1>6. ASSUME IsInjective(l), Single(ToSet(l)) PROVE Distinct(l)
  <2> SUFFICES ASSUME NEW i \in DOMAIN l, NEW j \in DOMAIN l, l[i].id = l[j].id PROVE l[i] = l[j]
    BY <1>6 DEF Distinct, IsInjective
  <2>1. l[i].on = l[j].on
    BY <1>2, <1>6 DEF Single
  <2> QED BY <1>2, <2>1
<1> QED BY <1>1, <1>2, <1>3, <1>4, <1>5, <1>6

\* A download added at the end,
LEMMA AppendedList ==
  ASSUME NEW l \in DownloadLists, Distinct(l), NEW x \in (0 .. MaxId) \ Ids(l), NEW on \in BOOLEAN
  PROVE  /\ Append(l, Entry(x, on)) \in DownloadLists
         /\ Distinct(Append(l, Entry(x, on)))
         /\ ToSet(Append(l, Entry(x, on))) = ToSet(l) \cup {Entry(x, on)}
<1>1. l \in Seq(Entries) /\ IsInjective(l) /\ Single(ToSet(l)) /\ ~Knows(ToSet(l), x)
  BY ListEntries
<1>2. Entry(x, on) \in Entries /\ Entry(x, on) \notin ToSet(l)
  BY <1>1, EntriesAre DEF Knows
<1> DEFINE r == Append(l, Entry(x, on))
<1>3. r \in Seq(Entries) /\ ToSet(r) = ToSet(l) \cup {Entry(x, on)} /\ IsInjective(r)
  BY <1>1, <1>2, AppendFacts
<1> HIDE DEF r
<1>4. Single(ToSet(r))
  <2>1. \A y, o : Entry(y, o) \in ToSet(r) <=> Entry(y, o) \in ToSet(l) \/ (y = x /\ o = on)
    BY <1>3, EntriesAre
  <2> QED BY <1>1, <2>1 DEF Single, Knows
<1>5. r \in DownloadLists
  BY <1>3 DEF DownloadLists, Entries
<1> QED BY <1>3, <1>4, <1>5, ListEntries DEF r

\* removed,
LEMMA RemovedList ==
  ASSUME NEW l \in DownloadLists, Distinct(l), NEW x
  PROVE  /\ Removed(l, x) \in DownloadLists
         /\ Distinct(Removed(l, x))
         /\ ToSet(Removed(l, x)) = Others(ToSet(l), x)
         /\ Ids(Removed(l, x)) = Ids(l) \ {x}
<1> DEFINE S == [id : (0 .. MaxId) \ {x}, on : BOOLEAN]
<1>1. l \in Seq(Entries) /\ IsInjective(l) /\ Single(ToSet(l)) /\ ToSet(l) \subseteq Entries
  BY ListEntries
<1>2. PICK r : r = Removed(l, x)
  OBVIOUS
<1>3. r = Kept(l, S)
  BY <1>2 DEF Removed
<1>4. r \in Seq(Entries \cap S) /\ ToSet(r) = ToSet(l) \cap S /\ IsInjective(r)
  <2> HIDE DEF S
  <2> QED BY <1>1, <1>3, KeptFacts
<1>5. r \in DownloadLists
  <2>1. r \in Seq(Entries)
    <3> HIDE DEF S
    <3> QED BY <1>4
  <2> QED BY <2>1 DEF DownloadLists, Entries
<1>6. ToSet(r) = Others(ToSet(l), x)
  <2>1. \A e \in Entries : e \in S <=> e.id # x
    BY DEF Entries
  <2> QED BY <1>1, <1>4, <2>1 DEF Others
<1>7. Single(ToSet(r))
  BY <1>1, <1>4 DEF Single
<1>8. Distinct(r)
  BY <1>4, <1>5, <1>7, ListEntries
<1>9. \A y : y \in Ids(r) <=> y \in Ids(l) \ {x}
  <2>1. \A y, on : Entry(y, on) \in ToSet(r) <=> Entry(y, on) \in ToSet(l) /\ y # x
    BY <1>6, EntriesAre DEF Others
  <2>2. \A y : Knows(ToSet(r), y) <=> Knows(ToSet(l), y) /\ y # x
    BY <2>1 DEF Knows
  <2> QED BY <1>5, <2>2, ListEntries
<1> QED BY <1>2, <1>5, <1>6, <1>8, <1>9

\* and switched: it stays where it is.
LEMMA SwitchedList ==
  ASSUME NEW l \in DownloadLists, NEW x \in 0 .. MaxId, NEW on \in BOOLEAN
  PROVE  /\ Switched(l, x, on) \in DownloadLists
         /\ DOMAIN Switched(l, x, on) = DOMAIN l
         /\ \A i \in DOMAIN l : Switched(l, x, on)[i].id = l[i].id
         /\ Distinct(l) => Distinct(Switched(l, x, on))
         /\ ToSet(Switched(l, x, on)) =
              IF Knows(ToSet(l), x) THEN Others(ToSet(l), x) \cup {Entry(x, on)} ELSE ToSet(l)
<1>1. /\ Len(l) \in Nat /\ DOMAIN l = 1 .. Len(l)
      /\ \A i \in DOMAIN l : l[i] \in Entries
  BY ListEntries
<1>2. PICK r : r = Switched(l, x, on)
  OBVIOUS
<1>3. /\ DOMAIN r = DOMAIN l
      /\ \A i \in DOMAIN l : r[i] = IF l[i].id = x THEN Entry(x, on) ELSE l[i]
      /\ r = [i \in DOMAIN l |-> r[i]]
  BY <1>2 DEF Switched
<1>4. Entry(x, on) \in Entries /\ Entry(x, on).id = x
  BY EntriesAre
<1>5. /\ \A i \in DOMAIN l : r[i] \in Entries
      /\ \A i \in DOMAIN l : r[i].id = l[i].id
  BY <1>1, <1>3, <1>4
<1>6. r \in DownloadLists
  <2>1. r \in [1 .. Len(l) -> Entries]
    BY <1>1, <1>3, <1>5
  <2> QED BY <1>1, <2>1, SeqDef DEF DownloadLists, Entries
<1>7. Distinct(l) => Distinct(r)
  BY <1>3, <1>5 DEF Distinct
<1>8. ToSet(r) = {r[i] : i \in DOMAIN l} /\ ToSet(l) = {l[i] : i \in DOMAIN l}
  BY <1>3 DEF ToSet
<1>9. Knows(ToSet(l), x) <=> \E i \in DOMAIN l : l[i].id = x
  BY ListEntries DEF Ids
<1>10. CASE Knows(ToSet(l), x)
  <2>1. PICK i \in DOMAIN l : l[i].id = x
    BY <1>9, <1>10
  <2>2. Entry(x, on) \in ToSet(r)
    BY <1>3, <1>8, <2>1
  <2>3. \A e : e \in ToSet(r) => e \in Others(ToSet(l), x) \cup {Entry(x, on)}
    BY <1>3, <1>8 DEF Others
  <2>4. \A e : e \in Others(ToSet(l), x) => e \in ToSet(r)
    BY <1>3, <1>8 DEF Others
  <2> QED BY <1>2, <1>3, <1>5, <1>6, <1>7, <1>10, <2>2, <2>3, <2>4
<1>11. CASE ~Knows(ToSet(l), x)
  <2>1. \A i \in DOMAIN l : r[i] = l[i]
    BY <1>3, <1>9, <1>11
  <2>2. ToSet(r) = ToSet(l)
    BY <1>8, <2>1
  <2> QED BY <1>2, <1>3, <1>5, <1>6, <1>7, <1>11, <2>2
<1> QED BY <1>10, <1>11

\* An element at any place, the one behind the last too.
LEMMA InsertedFacts ==
  ASSUME NEW S, NEW s \in Seq(S), IsInjective(s), NEW i \in 1 .. Len(s) + 1,
         NEW e \in S, e \notin ToSet(s)
  PROVE  /\ InsertAt(s, i, e) \in Seq(S)
         /\ ToSet(InsertAt(s, i, e)) = ToSet(s) \cup {e}
         /\ IsInjective(InsertAt(s, i, e))
<1>1. Len(s) \in Nat /\ DOMAIN s = 1 .. Len(s)
  BY LenProperties
<1>2. CASE i \in 1 .. Len(s)
  BY <1>1, <1>2, InsertAtFacts
<1>3. CASE i = Len(s) + 1
  <2>1. SubSeq(s, 1, i - 1) = s /\ SubSeq(s, i, Len(s)) = <<>>
    BY <1>1, <1>3
  <2>2. InsertAt(s, i, e) = Append(s, e)
    <3>1. s \o <<e>> \o <<>> = Append(s, e)
      OBVIOUS
    <3> QED BY <2>1, <3>1 DEF InsertAt
  <2> QED BY <2>2, AppendFacts
<1> QED BY <1>1, <1>2, <1>3

\* A download that is moved is taken out and put in at another place.
LEMMA MovedList ==
  ASSUME NEW l \in DownloadLists, Distinct(l), l # <<>>, NEW x, NEW d \in Directions,
         CanMove(l, x, d)
  PROVE  /\ Moved(l, x, d) \in DownloadLists
         /\ Distinct(Moved(l, x, d))
         /\ ToSet(Moved(l, x, d)) = ToSet(l)
<1>1. /\ l \in Seq(Entries) /\ Len(l) \in Nat /\ DOMAIN l = 1 .. Len(l)
      /\ IsInjective(l) /\ Single(ToSet(l))
  BY ListEntries
<1>2. Len(l) > 0
  BY <1>1
<1>3. PICK k \in DOMAIN l : /\ l[k].id = x
                            /\ d \in {"UP", "TOP"} => k > 1
                            /\ d \notin {"UP", "TOP"} => k < Len(l)
  <2>1. CASE d \in {"UP", "TOP"}
    <3>1. /\ \A k \in 1 .. Len(l) - 1 : Tail(l)[k] = l[k + 1]
          /\ DOMAIN Tail(l) = 1 .. Len(l) - 1
      BY <1>1, <1>2
    <3>2. PICK k \in 1 .. Len(l) - 1 : l[k + 1].id = x
      BY <2>1, <3>1 DEF CanMove, Ids
    <3>3. k + 1 \in DOMAIN l /\ k + 1 > 1
      BY <1>1
    <3> QED BY <2>1, <3>2, <3>3
  <2>2. CASE d \notin {"UP", "TOP"}
    <3>1. /\ \A k \in 1 .. Len(l) - 1 : Front(l)[k] = l[k]
          /\ DOMAIN Front(l) = 1 .. Len(l) - 1
      BY <1>1, <1>2 DEF Front
    <3>2. PICK k \in 1 .. Len(l) - 1 : l[k].id = x
      BY <2>2, <3>1 DEF CanMove, Ids
    <3>3. k \in DOMAIN l /\ k < Len(l)
      BY <1>1
    <3> QED BY <2>2, <3>2, <3>3
  <2> QED BY <2>1, <2>2
<1> DEFINE i == CHOOSE k_1 \in DOMAIN l : l[k_1].id = x
           place == [UP |-> k - 1, DOWN |-> k + 1, TOP |-> 1, BOTTOM |-> Len(l)]
           others == RemoveAt(l, k)
<1>4. i = k
  <2>1. i \in DOMAIN l /\ l[i].id = x
    BY <1>3
  <2> HIDE DEF i
  <2> QED BY <1>3, <2>1 DEF Distinct
<1>5. Moved(l, x, d) = InsertAt(others, place[d], l[k])
  <2>1. Moved(l, x, d) = InsertAt(RemoveAt(l, i), [UP |-> i - 1, DOWN |-> i + 1, TOP |-> 1,
                                                   BOTTOM |-> Len(l)][d], l[i])
    BY DEF Moved
  <2> HIDE DEF i
  <2> QED BY <1>4, <2>1
<1>6. place[d] \in 1 .. Len(l)
  <2>1. /\ d = "UP" => place[d] = k - 1 /\ k > 1
        /\ d = "DOWN" => place[d] = k + 1 /\ k < Len(l)
        /\ d = "TOP" => place[d] = 1
        /\ d = "BOTTOM" => place[d] = Len(l)
    BY <1>3
  <2>2. d \in {"UP", "DOWN", "TOP", "BOTTOM"} /\ k \in 1 .. Len(l)
    BY <1>1 DEF Directions
  <2> HIDE DEF place
  <2> QED BY <1>1, <1>2, <2>1, <2>2
<1>7. /\ others \in Seq(Entries) /\ ToSet(others) = ToSet(l) \ {l[k]} /\ IsInjective(others)
      /\ Len(others) = Len(l) - 1
      /\ l[k] \in Entries /\ l[k] \in ToSet(l)
  <2>1. /\ others \in Seq(Entries) /\ ToSet(others) = ToSet(l) \ {l[k]} /\ IsInjective(others)
    BY <1>1, RemoveAtSet
  <2>2. Len(others) = Len(l) - 1
    BY <1>1, RemoveAtFacts
  <2> QED BY <1>1, <2>1, <2>2, ListEntries
<1> HIDE DEF i, place, others
<1>8. /\ Moved(l, x, d) \in Seq(Entries)
      /\ ToSet(Moved(l, x, d)) = ToSet(others) \cup {l[k]}
      /\ IsInjective(Moved(l, x, d))
  <2>1. Len(others) + 1 = Len(l) /\ l[k] \notin ToSet(others)
    BY <1>1, <1>7
  <2> QED BY <1>5, <1>6, <1>7, <2>1, InsertedFacts
<1>9. ToSet(Moved(l, x, d)) = ToSet(l) /\ Moved(l, x, d) \in DownloadLists
  BY <1>7, <1>8 DEF DownloadLists, Entries
<1> QED BY <1>1, <1>8, <1>9, ListEntries

\* The id that a new download gets is not in use.
LEMMA NextIdIsNew ==
  ASSUME list \in DownloadLists, doomed \subseteq 0 .. MaxId
  PROVE  NextId \in Nat /\ NextId \notin Ids(list) \cup doomed
<1> DEFINE T == Ids(list) \cup doomed
           U == T \cup {-1}
           back == {MaxId - k : k \in U}
<1>1. T \subseteq 0 .. MaxId /\ MaxId \in Nat
  BY BoundAssumption, ListEntries DEF Ids
<1>2. back \subseteq Nat /\ back # {}
  BY <1>1
<1>3. PICK b \in back : \A c \in back : b <= c
  <2> HIDE DEF back
  <2> QED BY <1>2, LeastNatural
<1>4. PICK n \in U : b = MaxId - n
  BY <1>3
<1>5. \A k \in T : k <= n
  <2> TAKE k \in T
  <2>1. MaxId - k \in back
    OBVIOUS
  <2>2. MaxId - n <= MaxId - k
    BY <1>3, <1>4, <2>1
  <2>3. k \in Int /\ n \in Int
    BY <1>1, <1>4
  <2> QED BY <1>1, <2>2, <2>3
<1> DEFINE top == CHOOSE m \in U : \A k \in T : k <= m
<1>6. top \in U /\ \A k \in T : k <= top
  BY <1>4, <1>5
<1>7. NextId = 1 + top
  BY DEF NextId
<1> HIDE DEF top
<1>8. top \in Int /\ top >= -1
  BY <1>1, <1>6
<1>9. 1 + top \notin T
  <2> SUFFICES ASSUME 1 + top \in T PROVE FALSE
    OBVIOUS
  <2>1. 1 + top <= top
    BY <1>6
  <2> QED BY <1>8, <2>1
<1> QED BY <1>7, <1>8, <1>9

\* What a message does to a list is what it does to its entries.
LEMMA AppliedList ==
  ASSUME NEW l \in DownloadLists, Distinct(l), NEW m \in Messages
  PROVE  /\ Applied(l, m) \in DownloadLists
         /\ Distinct(Applied(l, m))
         /\ ToSet(Applied(l, m)) = AppliedTo(ToSet(l), m)
<1>1. m.id \in 0 .. MaxId /\ m.on \in BOOLEAN
  BY DEF Messages
<1>2. m.id \in Ids(l) <=> Knows(ToSet(l), m.id)
  BY ListEntries
<1>3. CASE m.kind = "NEW" /\ m.id \notin Ids(l)
  <2>1. Applied(l, m) = Append(l, Entry(m.id, m.on))
    BY <1>3 DEF Applied
  <2>2. AppliedTo(ToSet(l), m) = ToSet(l) \cup {Entry(m.id, m.on)}
    BY <1>2, <1>3 DEF AppliedTo
  <2> QED BY <1>1, <1>3, <2>1, <2>2, AppendedList
<1>4. CASE m.kind = "UPDATE"
  <2>1. Applied(l, m) = Switched(l, m.id, m.on)
    BY <1>4 DEF Applied
  <2>2. AppliedTo(ToSet(l), m) = IF Knows(ToSet(l), m.id)
                                 THEN Others(ToSet(l), m.id) \cup {Entry(m.id, m.on)} ELSE ToSet(l)
    BY <1>4 DEF AppliedTo
  <2>3. /\ Switched(l, m.id, m.on) \in DownloadLists
        /\ Distinct(Switched(l, m.id, m.on))
        /\ ToSet(Switched(l, m.id, m.on)) =
             IF Knows(ToSet(l), m.id) THEN Others(ToSet(l), m.id) \cup {Entry(m.id, m.on)}
             ELSE ToSet(l)
    BY <1>1, SwitchedList
  <2> QED BY <2>1, <2>2, <2>3
<1>5. CASE m.kind = "DELETE"
  <2>1. Applied(l, m) = Removed(l, m.id)
    BY <1>5 DEF Applied
  <2>2. AppliedTo(ToSet(l), m) = Others(ToSet(l), m.id)
    BY <1>5 DEF AppliedTo
  <2> QED BY <2>1, <2>2, RemovedList
<1>6. CASE ~ (m.kind = "NEW" /\ m.id \notin Ids(l)) /\ m.kind # "UPDATE" /\ m.kind # "DELETE"
  <2>1. Applied(l, m) = l
    BY <1>6 DEF Applied
  <2>2. AppliedTo(ToSet(l), m) = ToSet(l)
    BY <1>2, <1>6 DEF AppliedTo
  <2> QED BY <2>1, <2>2
<1> QED BY <1>3, <1>4, <1>5, <1>6

\* Where the downloads are that are left when one is removed.
LEMMA RemovedPlaces ==
  ASSUME NEW l \in DownloadLists, NEW z
  PROVE  \E f : /\ f \in [DOMAIN Removed(l, z) -> DOMAIN l]
                /\ \A k \in DOMAIN Removed(l, z) : Removed(l, z)[k] = l[f[k]]
                /\ \A k, h \in DOMAIN Removed(l, z) : k < h => f[k] < f[h]
                /\ \A i \in DOMAIN l : l[i].id # z => \E k \in DOMAIN Removed(l, z) : f[k] = i
<1> DEFINE S == [id : (0 .. MaxId) \ {z}, on : BOOLEAN]
           I == {i \in DOMAIN l : l[i] \in S}
<1>1. PICK r : r = Removed(l, z)
  OBVIOUS
<1>2. r = KeptAt(l, I)
  BY <1>1 DEF Removed, Kept
<1>3. \A i \in DOMAIN l : l[i].id # z => i \in I
  <2>1. \A i \in DOMAIN l : l[i] \in Entries
    BY ListEntries
  <2> QED BY <2>1 DEF Entries
<1>4. I \subseteq DOMAIN l
  OBVIOUS
<1> HIDE DEF I
<1>5. l \in Seq(Entries)
  BY ListEntries
<1>6. PICK f : PlacedBy(f, r, l, I)
  BY <1>2, <1>4, <1>5, KeptAtPlaces
<1>7. /\ f \in [DOMAIN r -> DOMAIN l]
      /\ \A k \in DOMAIN r : r[k] = l[f[k]]
      /\ \A k, h \in DOMAIN r : k < h => f[k] < f[h]
      /\ \A i \in DOMAIN l : l[i].id # z => \E k \in DOMAIN r : f[k] = i
  BY <1>3, <1>4, <1>6 DEF PlacedBy
<1> QED BY <1>1, <1>7

\* Their order stays.
LEMMA RemovedOrder ==
  ASSUME NEW l \in DownloadLists, Distinct(l), NEW z
  PROVE  /\ \A s : InOrder(s, l) => InOrder(s, Removed(l, z))
         /\ \A x, y : x # z /\ NewBefore(AsNews(l), x, y) => NewBefore(AsNews(Removed(l, z)), x, y)
<1>1. PICK r : r = Removed(l, z)
  OBVIOUS
<1>2. PICK f : /\ f \in [DOMAIN r -> DOMAIN l]
               /\ \A k \in DOMAIN r : r[k] = l[f[k]]
               /\ \A k, h \in DOMAIN r : k < h => f[k] < f[h]
               /\ \A i \in DOMAIN l : l[i].id # z => \E k \in DOMAIN r : f[k] = i
  BY <1>1, RemovedPlaces
<1>3. r \in DownloadLists /\ Distinct(r)
  BY <1>1, RemovedList
<1>4. ASSUME NEW s, InOrder(s, l) PROVE InOrder(s, r)
  BY <1>2, <1>4 DEF InOrder
<1>5. ASSUME NEW x, NEW y, x # z, NewBefore(AsNews(l), x, y) PROVE NewBefore(AsNews(r), x, y)
  <2>1. /\ DOMAIN AsNews(l) = DOMAIN l /\ DOMAIN AsNews(r) = DOMAIN r
        /\ \A v : \A i \in DOMAIN l : TellsOf("NEW", AsNews(l), i, v) <=> l[i].id = v
        /\ \A v : \A i \in DOMAIN r : TellsOf("NEW", AsNews(r), i, v) <=> r[i].id = v
    BY <1>3, NewsAre
  <2>2. /\ Len(l) \in Nat /\ DOMAIN l = 1 .. Len(l) /\ Len(r) \in Nat /\ DOMAIN r = 1 .. Len(r)
    BY <1>3, ListEntries
  <2>3. PICK i \in DOMAIN l : l[i].id = x /\ \A j \in 1 .. i : ~TellsOf("NEW", AsNews(l), j, y)
    BY <1>5, <2>1 DEF NewBefore
  <2>4. PICK k \in DOMAIN r : f[k] = i
    BY <1>2, <1>5, <2>3
  <2>5. ASSUME NEW h \in 1 .. k PROVE ~TellsOf("NEW", AsNews(r), h, y)
    <3>1. h \in DOMAIN r /\ (h = k \/ h < k)
      BY <2>2
    <3>2. f[h] \in DOMAIN l /\ (f[h] = i \/ f[h] < i)
      BY <1>2, <2>4, <3>1
    <3>3. f[h] \in 1 .. i
      BY <2>2, <2>3, <3>2
    <3>4. l[f[h]].id # y
      BY <2>1, <2>3, <3>2, <3>3
    <3> QED BY <1>2, <2>1, <3>1, <3>4
  <2>6. TellsOf("NEW", AsNews(r), k, x)
    BY <1>2, <2>1, <2>3, <2>4
  <2> QED BY <2>1, <2>5, <2>6 DEF NewBefore
<1> QED BY <1>1, <1>4, <1>5

\* It stays as well when one is switched.
LEMMA SwitchedOrder ==
  ASSUME NEW l \in DownloadLists, NEW z \in 0 .. MaxId, NEW on \in BOOLEAN
  PROVE  /\ \A s : InOrder(s, l) => InOrder(s, Switched(l, z, on))
         /\ \A x : Has("NEW", AsNews(Switched(l, z, on)), x) <=> Has("NEW", AsNews(l), x)
         /\ \A x, y : NewBefore(AsNews(l), x, y) => NewBefore(AsNews(Switched(l, z, on)), x, y)
<1>1. PICK r : r = Switched(l, z, on)
  OBVIOUS
<1>2. r \in DownloadLists /\ DOMAIN r = DOMAIN l /\ \A i \in DOMAIN l : r[i].id = l[i].id
  BY <1>1, SwitchedList
<1>3. /\ DOMAIN AsNews(l) = DOMAIN l /\ DOMAIN AsNews(r) = DOMAIN l
      /\ \A v : \A i \in DOMAIN l : TellsOf("NEW", AsNews(l), i, v) <=> l[i].id = v
      /\ \A v : \A i \in DOMAIN l : TellsOf("NEW", AsNews(r), i, v) <=> l[i].id = v
  BY <1>2, NewsAre
<1>4. \A s : InOrder(s, l) => InOrder(s, r)
  BY <1>2 DEF InOrder
<1>5. \A x : Has("NEW", AsNews(r), x) <=> Has("NEW", AsNews(l), x)
  BY <1>3 DEF Has
<1>6. ASSUME NEW x, NEW y, NewBefore(AsNews(l), x, y) PROVE NewBefore(AsNews(r), x, y)
  <2>1. PICK i \in DOMAIN l : /\ TellsOf("NEW", AsNews(l), i, x)
                              /\ \A j \in 1 .. i : ~TellsOf("NEW", AsNews(l), j, y)
    BY <1>3, <1>6 DEF NewBefore
  <2>2. Len(l) \in Nat /\ DOMAIN l = 1 .. Len(l)
    BY ListEntries
  <2>3. \A j \in 1 .. i : j \in DOMAIN l
    BY <2>2
  <2> QED BY <1>3, <2>1, <2>3 DEF NewBefore
<1> QED BY <1>1, <1>4, <1>5, <1>6

--------------------------------------------------------------------------------
(* Streams and the order.                                                   *)

\* A message that is applied no longer has to be, for the order.
LEMMA AppliedOrder ==
  ASSUME NEW v \in DownloadLists, Distinct(v), NEW m \in Messages, NEW b \in Seq(Messages),
         NEW x, NEW y, m.kind = "DELETE" => m.id # x /\ m.id # y,
         NewBefore(AsNews(v) \o (<<m>> \o b), x, y)
  PROVE  NewBefore(AsNews(Applied(v, m)) \o b, x, y)
<1> DEFINE a == AsNews(v)
           one == <<m>>
           w == Applied(v, m)
<1>1. /\ w \in DownloadLists /\ a \in Seq(Messages) /\ AsNews(w) \in Seq(Messages)
      /\ one \in Seq(Messages) /\ Len(one) = 1 /\ DOMAIN one = {1} /\ one[1] = m
      /\ one \o b \in Seq(Messages)
  BY AppliedList, NewsAre
<1> HIDE DEF a, one, w
<1>2. \/ NewBefore(a, x, y)
      \/ ~Has("NEW", a, x) /\ ~Has("NEW", a, y) /\ NewBefore(one \o b, x, y)
  BY <1>1, BeforeInTwo DEF a, one
<1>3. NewBefore(one \o b, x, y) =>
        \/ NewBefore(one, x, y)
        \/ ~Has("NEW", one, x) /\ ~Has("NEW", one, y) /\ NewBefore(b, x, y)
  BY <1>1, BeforeInTwo
<1>4. \A z : TellsOf("NEW", one, 1, z) <=> m.kind = "NEW" /\ m.id = z
  BY <1>1 DEF TellsOf
<1>5. /\ \A z : Has("NEW", one, z) <=> m.kind = "NEW" /\ m.id = z
      /\ NewBefore(one, x, y) => m.kind = "NEW" /\ m.id = x
  BY <1>1, <1>4 DEF Has, NewBefore
<1>6. \A z : Has("NEW", a, z) <=> z \in Ids(v)
  BY NewsAre DEF a
<1>7. NewBefore(AsNews(w) \o b, x, y) <=>
        \/ NewBefore(AsNews(w), x, y)
        \/ ~Has("NEW", AsNews(w), x) /\ ~Has("NEW", AsNews(w), y) /\ NewBefore(b, x, y)
  BY <1>1, BeforeInTwo
<1>8. CASE m.kind = "NEW" /\ m.id \notin Ids(v)
  <2>1. w = Append(v, Entry(m.id, m.on))
    BY <1>8 DEF Applied, w
  <2>2. Message("NEW", m.id, m.on) = m
    BY <1>8 DEF Messages, Message
  <2>3. AsNews(w) = a \o one
    <3>1. /\ v \in Seq(Entries) /\ Len(v) \in Nat /\ DOMAIN v = 1 .. Len(v)
          /\ Entry(m.id, m.on).id = m.id /\ Entry(m.id, m.on).on = m.on
          /\ Entry(m.id, m.on) \in Entries
      <4>1. m.id \in 0 .. MaxId /\ m.on \in BOOLEAN
        BY DEF Messages
      <4> QED BY <4>1, ListEntries, EntriesAre
    <3>2. /\ DOMAIN w = 1 .. Len(v) + 1 /\ \A i \in 1 .. Len(v) : w[i] = v[i]
          /\ w[Len(v) + 1] = Entry(m.id, m.on)
      BY <2>1, <3>1, AppendProperties, LenProperties
    <3>3. /\ a \in Seq(Messages) /\ Len(a) = Len(v) /\ DOMAIN a = 1 .. Len(v)
          /\ \A i \in 1 .. Len(v) : a[i] = Message("NEW", v[i].id, v[i].on)
      BY <1>1, <3>1, NewsAre DEF a, AsNews
    <3>4. /\ DOMAIN (a \o one) = 1 .. Len(v) + 1
          /\ \A i \in 1 .. Len(v) : (a \o one)[i] = a[i]
          /\ (a \o one)[Len(v) + 1] = m
      <4> DEFINE p == a \o one
                 n == Len(a)
                 k == Len(one)
      <4>1. /\ DOMAIN p = 1 .. n + k
            /\ \A i \in 1 .. n : p[i] = a[i]
            /\ \A j \in 1 .. k : p[n + j] = one[j]
        <5>1. a \in Seq(Messages) /\ one \in Seq(Messages)
          BY <1>1
        <5> QED BY <5>1, StreamPlaces
      <4>2. n = Len(v) /\ k = 1 /\ n \in Nat
        BY <1>1, <3>1, <3>3
      <4> HIDE DEF p, n, k
      <4>3. p[n + 1] = m
        BY <1>1, <4>1, <4>2
      <4> QED BY <4>1, <4>2, <4>3, <3>3 DEF p
    <3>5. /\ DOMAIN AsNews(w) = 1 .. Len(v) + 1
          /\ \A i \in 1 .. Len(v) + 1 : AsNews(w)[i] = Message("NEW", w[i].id, w[i].on)
      BY <3>2 DEF AsNews
    <3>6. \A i \in 1 .. Len(v) + 1 : AsNews(w)[i] = (a \o one)[i]
      <4> TAKE i \in 1 .. Len(v) + 1
      <4>1. CASE i \in 1 .. Len(v)
        BY <3>2, <3>3, <3>4, <3>5, <4>1
      <4>2. CASE i = Len(v) + 1
        <5>1. w[i].id = m.id /\ w[i].on = m.on
          BY <3>1, <3>2, <4>2
        <5>2. AsNews(w)[i] = Message("NEW", m.id, m.on)
          BY <3>5, <5>1
        <5> QED BY <2>2, <3>4, <4>2, <5>2
      <4>3. i \in 1 .. Len(v) \/ i = Len(v) + 1
        BY <3>1
      <4> QED BY <4>1, <4>2, <4>3
    <3>7. a \o one \in Seq(Messages)
      BY <1>1
    <3>8. \A s, t \in Seq(Messages) :
            DOMAIN s = DOMAIN t /\ (\A i \in DOMAIN s : s[i] = t[i]) => s = t
      <4> TAKE s, t \in Seq(Messages)
      <4>1. s = [i \in DOMAIN s |-> s[i]] /\ t = [i \in DOMAIN t |-> t[i]]
        BY LenProperties
      <4> QED BY <4>1
    <3> HIDE DEF w
    <3> QED BY <1>1, <3>4, <3>5, <3>6, <3>7, <3>8
  <2>4. AsNews(w) \o b = a \o (one \o b)
    BY <1>1, <2>3, ConcatAssociative, SMTT(30)
  <2> QED BY <2>4 DEF a, one, w
<1>9. CASE m.kind = "NEW" /\ m.id \in Ids(v)
  <2>1. w = v
    BY <1>9 DEF Applied, w
  <2> QED BY <1>2, <1>3, <1>5, <1>6, <1>7, <1>9, <2>1 DEF a, w
<1>10. CASE m.kind = "UPDATE"
  <2>1. w = Switched(v, m.id, m.on) /\ m.id \in 0 .. MaxId /\ m.on \in BOOLEAN
    BY <1>10 DEF Applied, w, Messages
  <2>2. /\ NewBefore(a, x, y) => NewBefore(AsNews(w), x, y)
        /\ \A z : Has("NEW", AsNews(w), z) <=> Has("NEW", a, z)
    BY <2>1, SwitchedOrder DEF a
  <2> QED BY <1>2, <1>3, <1>5, <1>7, <1>10, <2>2 DEF w
<1>11. CASE m.kind = "DELETE"
  <2>1. w = Removed(v, m.id)
    BY <1>11 DEF Applied, w
  <2>2. /\ NewBefore(a, x, y) => NewBefore(AsNews(w), x, y)
        /\ Ids(w) = Ids(v) \ {m.id}
    BY <1>11, <2>1, RemovedOrder, RemovedList DEF a
  <2>3. \A z : Has("NEW", AsNews(w), z) <=> z \in Ids(w)
    BY <1>1, NewsAre
  <2> QED BY <1>2, <1>3, <1>5, <1>6, <1>7, <1>11, <2>2, <2>3 DEF w
<1>12. CASE m.kind \notin {"NEW", "UPDATE", "DELETE"}
  <2>1. w = v
    BY <1>12 DEF Applied, w
  <2> QED BY <1>2, <1>3, <1>5, <1>7, <1>12, <2>1 DEF a, w
<1> QED BY <1>8, <1>9, <1>10, <1>11, <1>12

\* A download is new once at most in a stream that is fresh.
LEMMA NewOnce ==
  ASSUME NEW p \in Seq(Messages), InTurn(p), Fresh(p), NEW x \in 0 .. MaxId,
         NEW i \in DOMAIN p, NEW j \in DOMAIN p, TellsOf("NEW", p, i, x), TellsOf("NEW", p, j, x)
  PROVE  i = j
<1>1. ASSUME NEW k \in DOMAIN p, NEW l \in DOMAIN p, k < l,
             TellsOf("NEW", p, k, x), TellsOf("NEW", p, l, x)
      PROVE  FALSE
  <2>1. Renewed(p, k, l, x) /\ Tells(p, k, x)
    BY <1>1 DEF InTurn, TellsOf, Tells
  <2>2. PICK h \in k .. l - 1 : TellsOf("DELETE", p, h, x)
    BY <1>1, <2>1 DEF Renewed
  <2>3. h \in DOMAIN p /\ h < l
    <3>1. DOMAIN p \subseteq Int
      BY LenProperties
    <3> QED BY <2>2, <3>1 DEF TellsOf
  <2> QED BY <1>1, <2>2, <2>3 DEF Fresh
<1>2. i \in Int /\ j \in Int
  BY LenProperties
<1> QED BY <1>1, <1>2

\* What the list has is in the list that is shown, or is told as new.
LEMMA KnownOrTold ==
  ASSUME NEW p \in Seq(Messages), NEW e, NEW f, NEW d, ToldLast(p, f, d), Leads(e, p, f, d),
         NEW x \in (0 .. MaxId) \ d, Knows(f, x)
  PROVE  Knows(e, x) \/ Has("NEW", p, x)
<1>1. LeadsOf(e, p, f, x)
  BY DEF Leads
<1>2. CASE Untold(p, x)
  BY <1>1, <1>2 DEF LeadsOf, SameOf, Knows
<1>3. CASE ~Untold(p, x)
  <2>1. PICK i \in DOMAIN p : LastOf(p, i, x)
    BY <1>3, LastIsThere
  <2>2. p[i].kind \in {"NEW", "UPDATE"}
    BY <2>1 DEF ToldLast, LastOf, Tells
  <2>3. p[i].kind = "NEW" => Has("NEW", p, x)
    BY <2>1 DEF Has, TellsOf, LastOf, Tells
  <2> QED BY <1>1, <2>1, <2>2, <2>3 DEF LeadsOf
<1> QED BY <1>2, <1>3

\* What the list has not, and is not told as deleted, is neither there nor told as new.
LEMMA UnknownAndUntold ==
  ASSUME NEW p \in Seq(Messages), NEW e, NEW f, NEW d, ToldLast(p, f, d), Leads(e, p, f, d),
         NEW x \in (0 .. MaxId) \ d, ~Knows(f, x), ~Has("DELETE", p, x)
  PROVE  ~Knows(e, x) /\ ~Has("NEW", p, x)
<1>1. LeadsOf(e, p, f, x)
  BY DEF Leads
<1>2. Untold(p, x)
  <2> SUFFICES ASSUME ~Untold(p, x) PROVE FALSE
    OBVIOUS
  <2>1. PICK i \in DOMAIN p : LastOf(p, i, x)
    BY LastIsThere
  <2>2. p[i].kind # "DELETE"
    BY <2>1 DEF Has, TellsOf, LastOf, Tells
  <2>3. p[i].on \in BOOLEAN
    <3>1. p[i] \in Messages
      BY <2>1
    <3> QED BY <3>1 DEF Messages
  <2> QED BY <2>1, <2>2, <2>3 DEF ToldLast, Knows
<1> QED BY <1>1, <1>2 DEF LeadsOf, SameOf, Knows, Untold, Has, Tells, TellsOf

\* Messages that are older than a list do no harm to its order.
LEMMA OlderOrder ==
  ASSUME NEW a \in Seq(Messages), NEW b \in Seq(Messages), NEW v \in DownloadLists,
         NEW l \in DownloadLists, NEW d, Ids(l) \cap d = {}, Distinct(l),
         Streamed(a \o b, ToSet(l), d), Fresh(a \o b), Leads(ToSet(v), b, ToSet(l), d),
         InOrder(AsNews(v) \o b, l)
  PROVE  InOrder(AsNews(v) \o (a \o b), l)
<1> DEFINE p == a \o b
           n == Len(a)
           s == AsNews(v)
<1>1. /\ n \in Nat /\ p \in Seq(Messages) /\ s \in Seq(Messages)
      /\ DOMAIN a = 1 .. n /\ DOMAIN b = 1 .. Len(b) /\ Len(b) \in Nat
      /\ \A i \in 1 .. n : i \in DOMAIN p
      /\ \A j \in DOMAIN b : n + j \in DOMAIN p
  <2>1. /\ n \in Nat /\ p \in Seq(Messages)
        /\ DOMAIN a = 1 .. n /\ DOMAIN b = 1 .. Len(b) /\ Len(b) \in Nat
        /\ DOMAIN p = 1 .. n + Len(b)
    BY StreamPlaces
  <2>2. s \in Seq(Messages)
    BY NewsAre
  <2> HIDE DEF p, n, s
  <2> QED BY <2>1, <2>2
<1>2. \A x : /\ \A i \in DOMAIN a : TellsOf("NEW", p, i, x) <=> TellsOf("NEW", a, i, x)
             /\ \A j \in DOMAIN b : TellsOf("NEW", p, n + j, x) <=> TellsOf("NEW", b, j, x)
  BY StreamsTell
<1>3. ToldLast(b, ToSet(l), d) /\ InTurn(p) /\ Fresh(p)
  BY SuffixStreamed DEF Streamed
<1>4. \A x : Has("NEW", s, x) <=> x \in Ids(v)
  BY NewsAre
<1> HIDE DEF p, n, s
<1>5. ASSUME NEW x \in 0 .. MaxId, Has("NEW", b, x) PROVE ~Has("NEW", a, x)
  <2> SUFFICES ASSUME NEW i \in DOMAIN a, TellsOf("NEW", a, i, x) PROVE FALSE
    BY DEF Has
  <2>1. PICK j \in DOMAIN b : TellsOf("NEW", b, j, x)
    BY <1>5 DEF Has
  <2>2. i = n + j
    BY <1>1, <1>2, <1>3, <2>1, NewOnce
  <2> QED BY <1>1, <2>2
<1>6. ASSUME NEW i \in DOMAIN l, NEW j \in DOMAIN l, i < j
      PROVE  NewBefore(s \o p, l[i].id, l[j].id)
  <2>1. PICK x, y : x = l[i].id /\ y = l[j].id
    OBVIOUS
  <2>2. /\ x \in (0 .. MaxId) \ d /\ y \in (0 .. MaxId) \ d
        /\ Knows(ToSet(l), y)
    <3>1. x \in Ids(l) /\ y \in Ids(l)
      BY <2>1 DEF Ids
    <3> QED BY <2>1, <3>1, ListEntries
  <2>3. NewBefore(s \o b, x, y)
    BY <1>6, <2>1 DEF InOrder, s
  <2>4. \/ NewBefore(s, x, y)
        \/ ~Has("NEW", s, x) /\ ~Has("NEW", s, y) /\ NewBefore(b, x, y)
    BY <1>1, <2>3, BeforeInTwo
  <2>5. CASE NewBefore(s, x, y)
    BY <1>1, <2>1, <2>5, BeforeInTwo
  <2>6. CASE ~Has("NEW", s, x) /\ ~Has("NEW", s, y) /\ NewBefore(b, x, y)
    <3>1. Has("NEW", b, x)
      BY <2>6 DEF Has, NewBefore
    <3>2. Has("NEW", b, y)
      <4>1. ~Knows(ToSet(v), y)
        BY <1>4, <2>6, ListEntries
      <4> QED BY <1>3, <2>2, <4>1, KnownOrTold
    <3>3. ~Has("NEW", a, x) /\ ~Has("NEW", a, y)
      BY <1>5, <2>2, <3>1, <3>2
    <3>4. NewBefore(p, x, y)
      BY <2>6, <3>3, BeforeInTwo DEF p
    <3> QED BY <1>1, <2>1, <2>6, <3>4, BeforeInTwo
  <2> QED BY <2>4, <2>5, <2>6
<1> QED BY <1>6 DEF InOrder, p, s

\* The list itself has its own order.
LEMMA ListOrder ==
  ASSUME NEW l \in DownloadLists, Distinct(l)
  PROVE  InOrder(AsNews(l) \o <<>>, l)
<1>1. AsNews(l) \o <<>> = AsNews(l)
  BY NewsAre
<1>2. /\ Len(l) \in Nat /\ DOMAIN l = 1 .. Len(l) /\ DOMAIN AsNews(l) = DOMAIN l
      /\ \A x : \A i \in DOMAIN l : TellsOf("NEW", AsNews(l), i, x) <=> l[i].id = x
  BY NewsAre, ListEntries
<1>3. ASSUME NEW i \in DOMAIN l, NEW j \in DOMAIN l, i < j
      PROVE  NewBefore(AsNews(l), l[i].id, l[j].id)
  <2>1. ASSUME NEW k \in 1 .. i PROVE ~TellsOf("NEW", AsNews(l), k, l[j].id)
    <3>1. k \in DOMAIN l /\ k # j
      BY <1>2, <1>3
    <3>2. l[k].id # l[j].id
      BY <3>1 DEF Distinct
    <3> QED BY <1>2, <3>1, <3>2
  <2> QED BY <1>2, <2>1 DEF NewBefore
<1> QED BY <1>1, <1>3 DEF InOrder

\* The list v that is shown, once the messages p have come to it, has the order of l.
Ordered(v, p, l) == InOrder(AsNews(v) \o p, l)

\* A stream without its first messages is as fresh,
LEMMA SuffixFresh ==
  ASSUME NEW a \in Seq(Messages), NEW b \in Seq(Messages), Fresh(a \o b)
  PROVE  Fresh(b)
<1> DEFINE p == a \o b
           n == Len(a)
<1>1. /\ n \in Nat /\ DOMAIN b \subseteq Nat
      /\ \A j \in DOMAIN b : n + j \in DOMAIN p
  <2>1. /\ n \in Nat /\ Len(b) \in Nat /\ DOMAIN b = 1 .. Len(b)
        /\ \A j \in 1 .. Len(b) : n + j \in DOMAIN p
    BY StreamPlaces
  <2> QED BY <2>1
<1>2. \A x, kind : \A j \in DOMAIN b : TellsOf(kind, p, n + j, x) <=> TellsOf(kind, b, j, x)
  BY StreamsTell
<1>3. Fresh(p)
  OBVIOUS
<1> HIDE DEF p, n
<1>4. ASSUME NEW x \in 0 .. MaxId, NEW i \in DOMAIN b, NEW j \in DOMAIN b,
             i < j, TellsOf("DELETE", b, i, x)
      PROVE  ~TellsOf("NEW", b, j, x)
  <2>1. n + i < n + j
    BY <1>1, <1>4
  <2> QED BY <1>1, <1>2, <1>3, <1>4, <2>1 DEF Fresh
<1> QED BY <1>4 DEF Fresh

\* and with one more message, unless this gives an id again too early.
LEMMA PostedFresh ==
  ASSUME NEW p \in Seq(Messages), Fresh(p), NEW m \in Messages,
         m.kind = "NEW" => ~Has("DELETE", p, m.id)
  PROVE  Fresh(Append(p, m))
<1> DEFINE q == Append(p, m)
           n == Len(p)
<1>1. n \in Nat /\ DOMAIN p = 1 .. n /\ DOMAIN q = 1 .. n + 1
  BY OnePosted
<1>2. \A x, kind : /\ \A i \in 1 .. n : TellsOf(kind, q, i, x) <=> TellsOf(kind, p, i, x)
                   /\ TellsOf(kind, q, n + 1, x) <=> m.id = x /\ m.kind = kind
  BY OnePosted, ZenonT(60)
<1> HIDE DEF q, n
<1>3. ASSUME NEW x \in 0 .. MaxId, NEW i \in DOMAIN q, NEW j \in DOMAIN q,
             i < j, TellsOf("DELETE", q, i, x)
      PROVE  ~TellsOf("NEW", q, j, x)
  <2>1. i \in 1 .. n /\ (j \in 1 .. n \/ j = n + 1)
    BY <1>1, <1>3
  <2>2. TellsOf("DELETE", p, i, x)
    BY <1>2, <1>3, <2>1
  <2>3. CASE j \in 1 .. n
    BY <1>1, <1>2, <1>3, <2>1, <2>2, <2>3 DEF Fresh
  <2>4. CASE j = n + 1
    BY <1>1, <1>2, <2>1, <2>2, <2>4 DEF Has
  <2> QED BY <2>1, <2>3, <2>4
<1> QED BY <1>3 DEF Fresh, q

\* Where a move is told.
LEMMA MoveOfTwo ==
  /\ \A a, b \in Seq(Messages) : HasMove(a \o b) <=> HasMove(a) \/ HasMove(b)
  /\ \A p \in Seq(Messages), m \in Messages :
       HasMove(Append(p, m)) <=> HasMove(p) \/ m.kind \in Directions
<1>1. ASSUME NEW a \in Seq(Messages), NEW b \in Seq(Messages)
      PROVE  HasMove(a \o b) <=> HasMove(a) \/ HasMove(b)
  <2> DEFINE p == a \o b
             n == Len(a)
             m == Len(b)
  <2>1. /\ DOMAIN a = 1 .. n /\ DOMAIN b = 1 .. m /\ DOMAIN p = 1 .. n + m
        /\ n \in Nat /\ m \in Nat
        /\ \A i \in 1 .. n : p[i] = a[i]
        /\ \A j \in 1 .. m : n + j \in DOMAIN p /\ p[n + j] = b[j]
        /\ \A i \in DOMAIN p : i \notin 1 .. n => i - n \in 1 .. m
    BY StreamPlaces
  <2> HIDE DEF p, n, m
  <2>2. HasMove(a) => HasMove(p)
    BY <2>1 DEF HasMove
  <2>3. HasMove(b) => HasMove(p)
    BY <2>1 DEF HasMove
  <2>4. ASSUME NEW i \in DOMAIN p, p[i].kind \in Directions PROVE HasMove(a) \/ HasMove(b)
    <3>1. CASE i \in 1 .. n
      BY <2>1, <2>4, <3>1 DEF HasMove
    <3>2. CASE i \notin 1 .. n
      <4>1. i - n \in 1 .. m /\ i = n + (i - n)
        BY <2>1, <3>2
      <4> QED BY <2>1, <2>4, <4>1 DEF HasMove
    <3> QED BY <3>1, <3>2
  <2>5. HasMove(p) => HasMove(a) \/ HasMove(b)
    BY <2>4 DEF HasMove
  <2> QED BY <2>2, <2>3, <2>5 DEF p
<1>2. ASSUME NEW p \in Seq(Messages), NEW m \in Messages
      PROVE  HasMove(Append(p, m)) <=> HasMove(p) \/ m.kind \in Directions
  <2>1. PICK b : b = <<m>>
    OBVIOUS
  <2>2. Append(p, m) = p \o b /\ b \in Seq(Messages)
    BY <2>1, AppendIsConcat
  <2>3. DOMAIN b = {1} /\ b[1] = m
    BY <2>1
  <2>4. HasMove(b) <=> m.kind \in Directions
    BY <2>3 DEF HasMove
  <2> QED BY <1>1, <2>2, <2>4
<1> QED BY <1>1, <1>2

\* A thinned stream is as fresh, has the same moves, and keeps the order.
LEMMA ThinOrder ==
  ASSUME NEW p \in Seq(Messages), NEW q \in Seq(Messages), Thins(p, q)
  PROVE  /\ Fresh(p) => Fresh(q)
         /\ HasMove(p) <=> HasMove(q)
         /\ \A x, y : NewBefore(p, x, y) => NewBefore(q, x, y)
         /\ \A v, l \in DownloadLists : Ordered(v, p, l) => Ordered(v, q, l)
<1>1. PICK g : ThinsBy(p, q, g)
  BY DEF Thins
<1>2. \A k \in DOMAIN q : g[k] \in DOMAIN p /\ q[k] = p[g[k]]
  BY <1>1 DEF ThinsBy
<1>3. \A x, kind : \A k \in DOMAIN q : TellsOf(kind, q, k, x) <=> TellsOf(kind, p, g[k], x)
  BY <1>1, ThinTells
<1>4. /\ \A k, l \in DOMAIN q : k < l <=> g[k] < g[l]
      /\ \A i \in DOMAIN p : p[i].kind # "UPDATE" => \E k \in DOMAIN q : g[k] = i
  BY <1>1, ThinTells
<1>5. DOMAIN p = 1 .. Len(p) /\ DOMAIN q = 1 .. Len(q) /\ Len(p) \in Nat /\ Len(q) \in Nat
  BY LenProperties
<1>6. Fresh(p) => Fresh(q)
  BY <1>2, <1>3, <1>4 DEF Fresh
<1>7. HasMove(q) => HasMove(p)
  BY <1>2 DEF HasMove
<1>8. HasMove(p) => HasMove(q)
  <2> SUFFICES ASSUME NEW i \in DOMAIN p, p[i].kind \in Directions PROVE HasMove(q)
    BY DEF HasMove
  <2>1. p[i].kind # "UPDATE"
    BY DEF Directions
  <2>2. PICK k \in DOMAIN q : g[k] = i
    BY <1>4, <2>1
  <2> QED BY <1>2, <2>2 DEF HasMove
<1>9. ASSUME NEW x, NEW y, NewBefore(p, x, y) PROVE NewBefore(q, x, y)
  <2>1. PICK i \in DOMAIN p : TellsOf("NEW", p, i, x) /\ \A j \in 1 .. i : ~TellsOf("NEW", p, j, y)
    BY <1>9 DEF NewBefore
  <2>2. p[i].kind # "UPDATE"
    BY <2>1 DEF TellsOf
  <2>3. PICK k \in DOMAIN q : g[k] = i
    BY <1>4, <2>2
  <2>4. ASSUME NEW j \in 1 .. k PROVE ~TellsOf("NEW", q, j, y)
    <3>1. j \in DOMAIN q /\ k \in Int
      BY <1>5, <2>3
    <3>2. g[j] \in DOMAIN p /\ (j < k => g[j] < i) /\ (j = k => g[j] = i) /\ (j < k \/ j = k)
      BY <1>2, <1>4, <2>3, <3>1
    <3>3. g[j] \in 1 .. i
      BY <1>5, <3>2
    <3> QED BY <1>3, <2>1, <3>1, <3>3
  <2> QED BY <1>3, <2>1, <2>3, <2>4 DEF NewBefore
<1>10. ASSUME NEW v \in DownloadLists, NEW l \in DownloadLists, Ordered(v, p, l)
       PROVE  Ordered(v, q, l)
  <2>1. PICK s : s = AsNews(v) /\ s \in Seq(Messages)
    BY NewsAre
  <2>2. ASSUME NEW i \in DOMAIN l, NEW j \in DOMAIN l, i < j
        PROVE  NewBefore(s \o q, l[i].id, l[j].id)
    <3>1. NewBefore(s \o p, l[i].id, l[j].id)
      BY <1>10, <2>1, <2>2 DEF Ordered, InOrder
    <3> QED BY <1>9, <2>1, <3>1, BeforeInTwo
  <2> QED BY <2>1, <2>2 DEF Ordered, InOrder
<1> QED BY <1>6, <1>7, <1>8, <1>9, <1>10

\* One more message leaves what is before what,
LEMMA PostedOrder ==
  ASSUME NEW p \in Seq(Messages), NEW m \in Messages, NEW v \in DownloadLists
  PROVE  /\ AsNews(v) \o p \in Seq(Messages)
         /\ \A x, y : NewBefore(AsNews(v) \o p, x, y) => NewBefore(AsNews(v) \o Append(p, m), x, y)
         /\ \A l : Ordered(v, p, l) => Ordered(v, Append(p, m), l)
<1>1. PICK s : s = AsNews(v) /\ s \in Seq(Messages)
  BY NewsAre
<1>2. PICK t : t = s \o p
  OBVIOUS
<1>3. t \in Seq(Messages)
  BY <1>1, <1>2, StreamPlaces
<1>4. s \o Append(p, m) = t \o <<m>> /\ <<m>> \in Seq(Messages)
  <2>1. Append(p, m) = p \o <<m>> /\ <<m>> \in Seq(Messages)
    BY AppendIsConcat
  <2> QED BY <1>1, <1>2, <2>1, ConcatAssociative
<1>5. \A x, y : NewBefore(t, x, y) => NewBefore(s \o Append(p, m), x, y)
  BY <1>3, <1>4, BeforeInTwo
<1>6. \A l : Ordered(v, p, l) => Ordered(v, Append(p, m), l)
  BY <1>1, <1>2, <1>5 DEF Ordered, InOrder
<1> QED BY <1>1, <1>2, <1>3, <1>5, <1>6

\* and a download that is added comes last.
LEMMA AddedOrder ==
  ASSUME NEW p \in Seq(Messages), NEW v \in DownloadLists, NEW l \in DownloadLists,
         NEW d, Ids(l) \cap d = {}, ToldLast(p, ToSet(l), d), Leads(ToSet(v), p, ToSet(l), d),
         NEW z \in (0 .. MaxId) \ d, z \notin Ids(l), ~Has("DELETE", p, z),
         NEW on \in BOOLEAN, NEW m \in Messages, m.kind = "NEW", m.id = z,
         Ordered(v, p, l)
  PROVE  Ordered(v, Append(p, m), Append(l, Entry(z, on)))
<1>1. PICK s : s = AsNews(v) /\ s \in Seq(Messages)
  BY NewsAre
<1>2. PICK t : t = s \o p
  OBVIOUS
<1>3. t \in Seq(Messages)
  BY <1>1, <1>2, StreamPlaces
<1>4. PICK u : u = s \o Append(p, m)
  OBVIOUS
<1>5. u = t \o <<m>> /\ <<m>> \in Seq(Messages)
  <2>1. Append(p, m) = p \o <<m>> /\ <<m>> \in Seq(Messages)
    BY AppendIsConcat
  <2> QED BY <1>1, <1>2, <1>4, <2>1, ConcatAssociative, SMTT(30)
<1>6. \A x, y : NewBefore(t, x, y) => NewBefore(u, x, y)
  BY <1>3, <1>5, BeforeInTwo
<1>7. ~Has("NEW", t, z)
  <2>1. ~Knows(ToSet(l), z)
    BY ListEntries
  <2>2. ~Knows(ToSet(v), z) /\ ~Has("NEW", p, z)
    BY <2>1, UnknownAndUntold
  <2>3. ~Has("NEW", s, z)
    BY <1>1, <2>2, NewsAre, ListEntries
  <2> QED BY <1>1, <1>2, <2>2, <2>3, HasOfTwo
<1>8. PICK e : e = Append(l, Entry(z, on))
  OBVIOUS
<1>9. /\ DOMAIN l = 1 .. Len(l) /\ Len(l) \in Nat
      /\ DOMAIN e = 1 .. Len(l) + 1
      /\ \A i \in 1 .. Len(l) : e[i] = l[i]
      /\ e[Len(l) + 1].id = z
  BY <1>8, ListEntries, AppendProperties DEF Entry
<1>10. ASSUME NEW i \in DOMAIN e, NEW j \in DOMAIN e, i < j
       PROVE  NewBefore(u, e[i].id, e[j].id)
  <2>1. CASE j \in 1 .. Len(l)
    <3>1. i \in DOMAIN l /\ j \in DOMAIN l
      BY <1>9, <1>10, <2>1
    <3>2. NewBefore(t, l[i].id, l[j].id)
      BY <1>1, <1>2, <1>10, <3>1 DEF Ordered, InOrder
    <3> QED BY <1>6, <1>9, <3>1, <3>2
  <2>2. CASE j = Len(l) + 1
    <3>1. i \in DOMAIN l
      BY <1>9, <1>10, <2>2
    <3>2. PICK x : x = l[i].id
      OBVIOUS
    <3>3. x \in Ids(l)
      BY <3>1, <3>2 DEF Ids
    <3>4. x \in (0 .. MaxId) \ d /\ Knows(ToSet(l), x)
      BY <3>1, <3>2, <3>3, ListEntries
    <3>5. Knows(ToSet(v), x) \/ Has("NEW", p, x)
      BY <3>4, KnownOrTold
    <3>6. Has("NEW", t, x)
      BY <1>1, <1>2, <3>5, NewsAre, ListEntries, HasOfTwo
    <3>7. NewBefore(t, x, z)
      <4>1. PICK k \in DOMAIN t : TellsOf("NEW", t, k, x)
        BY <3>6 DEF Has
      <4>2. \A h \in 1 .. k : ~TellsOf("NEW", t, h, z)
        BY <1>7 DEF Has, TellsOf
      <4> QED BY <4>1, <4>2 DEF NewBefore
    <3> QED BY <1>6, <1>9, <2>2, <3>1, <3>2, <3>7
  <2> QED BY <1>9, <2>1, <2>2
<1> QED BY <1>1, <1>4, <1>8, <1>10 DEF Ordered, InOrder

\* With nothing left to come, the list that is shown is the list.
LEMMA SameList ==
  ASSUME NEW v \in DownloadLists, NEW l \in DownloadLists, Distinct(v), Distinct(l),
         ToSet(v) = ToSet(l), Ordered(v, <<>>, l)
  PROVE  v = l
<1>1. /\ v \in Seq(Entries) /\ l \in Seq(Entries) /\ Len(v) \in Nat /\ Len(l) \in Nat
      /\ DOMAIN v = 1 .. Len(v) /\ DOMAIN l = 1 .. Len(l)
  BY ListEntries
<1>2. \A i, j \in DOMAIN l : i < j => NewBefore(AsNews(v), l[i].id, l[j].id)
  <2>1. AsNews(v) \o <<>> = AsNews(v)
    BY NewsAre
  <2> QED BY <2>1 DEF Ordered, InOrder
<1>3. \A x : \A i \in DOMAIN v : TellsOf("NEW", AsNews(v), i, x) <=> v[i].id = x
  BY NewsAre
<1>4. DOMAIN AsNews(v) = DOMAIN v
  BY NewsAre
<1>5. /\ \A i \in DOMAIN v : \E j \in DOMAIN l : v[i] = l[j]
      /\ \A j \in DOMAIN l : \E i \in DOMAIN v : v[i] = l[j]
  BY DEF ToSet
<1>6. \A i \in DOMAIN l, j \in DOMAIN l, k \in DOMAIN v, h \in DOMAIN v :
        i < j /\ v[k] = l[i] /\ v[h] = l[j] => k < h
  <2> TAKE i \in DOMAIN l, j \in DOMAIN l, k \in DOMAIN v, h \in DOMAIN v
  <2> HAVE i < j /\ v[k] = l[i] /\ v[h] = l[j]
  <2>1. PICK c \in DOMAIN v : /\ TellsOf("NEW", AsNews(v), c, l[i].id)
                              /\ \A g \in 1 .. c : ~TellsOf("NEW", AsNews(v), g, l[j].id)
    BY <1>2, <1>4 DEF NewBefore
  <2>2. v[c].id = l[i].id
    BY <1>3, <2>1
  <2>3. c = k
    BY <2>2 DEF Distinct
  <2>4. v[h].id = l[j].id
    OBVIOUS
  <2>5. h \notin 1 .. c
    BY <1>3, <2>1, <2>4
  <2> QED BY <1>1, <2>3, <2>5
<1> DEFINE Differs(n) == /\ n \in DOMAIN v \cup DOMAIN l
                         /\ ~ (n \in DOMAIN v /\ n \in DOMAIN l /\ v[n] = l[n])
<1>7. ASSUME NEW n \in Nat, Differs(n), \A k \in Nat : Differs(k) => n <= k
      PROVE  FALSE
  <2>1. \A k \in 1 .. n - 1 : k \in DOMAIN v /\ k \in DOMAIN l /\ v[k] = l[k]
    <3> SUFFICES ASSUME NEW k \in 1 .. n - 1
                 PROVE  k \in DOMAIN v \cup DOMAIN l /\ ~Differs(k)
      OBVIOUS
    <3>1. ~Differs(k)
      <4>1. k \in Nat /\ ~ (n <= k)
        OBVIOUS
      <4> HIDE DEF Differs
      <4> QED BY <1>7, <4>1
    <3>2. k \in DOMAIN v \cup DOMAIN l
      BY <1>1, <1>7
    <3> QED BY <3>1, <3>2
  <2>2. /\ \A i, j \in DOMAIN v : v[i] = v[j] => i = j
        /\ \A i, j \in DOMAIN l : l[i] = l[j] => i = j
    BY DEF Distinct
  <2>3. CASE n \in DOMAIN v /\ n \notin DOMAIN l
    <3>1. PICK j \in DOMAIN l : v[n] = l[j]
      BY <1>5, <2>3
    <3>2. j \in 1 .. n - 1
      BY <1>1, <2>3
    <3> QED BY <2>1, <2>2, <2>3, <3>1, <3>2
  <2>4. CASE n \in DOMAIN l /\ n \notin DOMAIN v
    <3>1. PICK i \in DOMAIN v : v[i] = l[n]
      BY <1>5, <2>4
    <3>2. i \in 1 .. n - 1
      BY <1>1, <2>4
    <3> QED BY <2>1, <2>2, <2>4, <3>1, <3>2
  <2>5. CASE n \in DOMAIN v /\ n \in DOMAIN l
    <3>1. v[n] # l[n]
      BY <1>7, <2>5
    <3>2. PICK j \in DOMAIN l, i \in DOMAIN v : v[n] = l[j] /\ v[i] = l[n]
      BY <1>5, <2>5
    <3>3. j \notin 1 .. n - 1 /\ i \notin 1 .. n - 1
      BY <2>1, <2>2, <2>5, <3>2
    <3>4. n < j /\ n < i
      <4>1. j # n /\ i # n
        BY <3>1, <3>2
      <4> QED BY <1>1, <3>3, <4>1
    <3>5. i < n
      BY <1>6, <2>5, <3>2, <3>4
    <3> QED BY <1>1, <3>4, <3>5
  <2> QED BY <1>7, <2>3, <2>4, <2>5
<1>8. \A n \in Nat : ~Differs(n)
  <2> SUFFICES ASSUME NEW n \in Nat, Differs(n) PROVE FALSE
    OBVIOUS
  <2> DEFINE T == {k \in Nat : Differs(k)}
  <2>1. T \subseteq Nat /\ T # {}
    OBVIOUS
  <2>2. \A k : k \in T <=> k \in Nat /\ Differs(k)
    OBVIOUS
  <2> HIDE DEF T, Differs
  <2>3. PICK k \in T : \A h \in T : k <= h
    BY <2>1, LeastNatural
  <2> QED BY <1>7, <2>2, <2>3
<1>9. \A n : n \in DOMAIN v \cup DOMAIN l =>
              n \in DOMAIN v /\ n \in DOMAIN l /\ v[n] = l[n]
  BY <1>1, <1>8
<1> HIDE DEF Differs
<1>10. Len(v) = Len(l)
  <2>1. PICK n, m : n = Len(v) /\ m = Len(l)
    OBVIOUS
  <2>2. n \in Nat /\ m \in Nat /\ DOMAIN v = 1 .. n /\ DOMAIN l = 1 .. m
    BY <1>1, <2>1
  <2>3. \A k \in Int : k \in 1 .. n <=> k \in 1 .. m
    BY <1>9, <2>2
  <2>4. n = m
    <3>1. (n \in 1 .. n <=> n \in 1 .. m) /\ (m \in 1 .. n <=> m \in 1 .. m)
      BY <2>2, <2>3
    <3> QED BY <2>2, <3>1
  <2> QED BY <2>1, <2>4
<1>11. \A i \in 1 .. Len(v) : v[i] = l[i]
  BY <1>1, <1>9
<1> QED BY <1>1, <1>10, <1>11, SeqEqual

--------------------------------------------------------------------------------
(* A list l of the program, and d the ids it deleted and did not purge; a     *)
(* list v that is shown or fetched; and the messages p that are under way.    *)
(* Of r, see the variable reordered.                                          *)

ProperLists == {l \in DownloadLists : Distinct(l)}
Told(p, l, d, r) == Streamed(p, ToSet(l), d) /\ (r \/ Fresh(p))
Good(v, p, l, d, r) == /\ Leads(ToSet(v), p, ToSet(l), d)
                       /\ r \/ HasMove(p) \/ Ordered(v, p, l)

\* A suffix of what is under way tells of the list as the whole does.
LEMMA SuffixTold ==
  ASSUME NEW a \in Seq(Messages), NEW b \in Seq(Messages), NEW l, NEW d, NEW r,
         Told(a \o b, l, d, r)
  PROVE  Told(b, l, d, r)
BY SuffixStreamed, SuffixFresh DEF Told

\* The list itself is good with nothing to come,
LEMMA ListIsGood ==
  ASSUME NEW l \in ProperLists, NEW d, NEW r
  PROVE  Good(l, <<>>, l, d, r)
BY ListLeads, ListOrder DEF Good, Ordered, ProperLists

\* and with messages that are older than it.
LEMMA OlderIsGood ==
  ASSUME NEW a \in Seq(Messages), NEW b \in Seq(Messages), NEW v \in ProperLists,
         NEW l \in ProperLists, NEW d, Ids(l) \cap d = {}, NEW r,
         Told(a \o b, l, d, r), Good(v, b, l, d, r)
  PROVE  Good(v, a \o b, l, d, r)
<1>1. Leads(ToSet(v), a \o b, ToSet(l), d)
  BY OlderLead DEF Told, Good
<1>2. v \in DownloadLists /\ l \in DownloadLists /\ Distinct(l)
  BY DEF ProperLists
<1>3. CASE r
  BY <1>1, <1>3 DEF Good
<1>4. CASE HasMove(b)
  BY <1>1, <1>4, MoveOfTwo DEF Good
<1>5. CASE ~r /\ Ordered(v, b, l)
  <2>1. Streamed(a \o b, ToSet(l), d) /\ Fresh(a \o b) /\ Leads(ToSet(v), b, ToSet(l), d)
    BY <1>5 DEF Told, Good
  <2>2. InOrder(AsNews(v) \o b, l)
    BY <1>5 DEF Ordered
  <2>3. InOrder(AsNews(v) \o (a \o b), l)
    BY <1>2, <2>1, <2>2, OlderOrder
  <2> QED BY <1>1, <2>3 DEF Good, Ordered
<1> QED BY <1>3, <1>4, <1>5 DEF Good

\* So is a list that all was applied to, when the messages are thinned.
LEMMA ThinIsGood ==
  ASSUME NEW p \in Seq(Messages), NEW q \in Seq(Messages), Thins(p, q),
         NEW l \in ProperLists, NEW d, NEW r
  PROVE  /\ Told(p, l, d, r) => Told(q, l, d, r)
         /\ \A v \in ProperLists : Good(v, p, l, d, r) => Good(v, q, l, d, r)
<1>1. Told(p, l, d, r) => Told(q, l, d, r)
  BY ThinStreamed, ThinOrder DEF Told
<1>2. ASSUME NEW v \in ProperLists, Good(v, p, l, d, r) PROVE Good(v, q, l, d, r)
  <2>1. Leads(ToSet(v), q, ToSet(l), d)
    BY <1>2, ThinLeads DEF Good
  <2>2. HasMove(p) => HasMove(q)
    BY ThinOrder
  <2>3. Ordered(v, p, l) => Ordered(v, q, l)
    BY ThinOrder DEF ProperLists
  <2> QED BY <1>2, <2>1, <2>2, <2>3 DEF Good
<1> QED BY <1>1, <1>2

\* What the list has is not told as deleted.
LEMMA KnownNotDeleted ==
  ASSUME NEW p \in Seq(Messages), NEW f, NEW d, Streamed(p, f, d), Fresh(p),
         NEW x \in (0 .. MaxId) \ d, Knows(f, x)
  PROVE  ~Has("DELETE", p, x)
<1> SUFFICES ASSUME NEW i \in DOMAIN p, TellsOf("DELETE", p, i, x) PROVE FALSE
  BY DEF Has
<1>1. PICK k \in DOMAIN p : LastOf(p, k, x)
  <2>1. ~Untold(p, x)
    BY DEF Untold, Tells, TellsOf
  <2> QED BY <2>1, LastIsThere
<1>2. DOMAIN p \subseteq Int
  BY LenProperties
<1>3. p[k].kind # "DELETE" /\ p[k].kind \in {"NEW", "UPDATE", "DELETE"} /\ p[k].id = x
  BY <1>1 DEF Streamed, ToldLast, LastOf, Tells
<1>4. i < k
  <2>1. i <= k /\ i # k
    BY <1>1, <1>3 DEF LastOf, Tells, TellsOf
  <2> QED BY <1>2, <2>1
<1>5. CASE p[k].kind = "NEW"
  BY <1>3, <1>4, <1>5 DEF Fresh, TellsOf
<1>6. CASE p[k].kind = "UPDATE"
  <2>1. Revived(p, i, k, x) /\ TellsOf("UPDATE", p, k, x)
    BY <1>3, <1>4, <1>6 DEF Streamed, InTurn, TellsOf
  <2>2. PICK n \in i .. k - 1 : TellsOf("NEW", p, n, x)
    BY <2>1 DEF Revived
  <2>3. n \in DOMAIN p /\ n # i
    BY <2>2 DEF TellsOf
  <2>4. i < n
    BY <1>2, <2>2, <2>3
  <2> QED BY <2>2, <2>3, <2>4 DEF Fresh
<1> QED BY <1>3, <1>5, <1>6

\* A message is applied,
LEMMA OneIsGood ==
  ASSUME NEW v \in ProperLists, NEW m \in Messages, m.kind \notin Directions,
         NEW b \in Seq(Messages), NEW l \in ProperLists, NEW d, Ids(l) \cap d = {}, NEW r,
         Told(<<m>> \o b, l, d, r), Good(v, <<m>> \o b, l, d, r)
  PROVE  Applied(v, m) \in ProperLists /\ Good(Applied(v, m), b, l, d, r)
<1> DEFINE p == <<m>> \o b
           w == Applied(v, m)
<1>1. v \in DownloadLists /\ Distinct(v) /\ l \in DownloadLists /\ Distinct(l)
  BY DEF ProperLists
<1>2. w \in DownloadLists /\ Distinct(w) /\ ToSet(w) = AppliedTo(ToSet(v), m)
  BY <1>1, AppliedList
<1>3. Leads(ToSet(w), b, ToSet(l), d)
  <2>1. Single(ToSet(v)) /\ Single(ToSet(l))
    BY <1>1, ListEntries
  <2>2. Leads(AppliedTo(ToSet(v), m), b, ToSet(l), d)
    BY <2>1, OneApplied DEF Told, Good
  <2> QED BY <1>2, <2>2
<1>4. w \in ProperLists
  BY <1>2 DEF ProperLists
<1>5. <<m>> \in Seq(Messages) /\ p \in Seq(Messages)
  <2>1. PICK a : a = <<m>>
    OBVIOUS
  <2>2. a \in Seq(Messages)
    BY <2>1
  <2> QED BY <2>1, <2>2, StreamPlaces
<1>6. CASE r
  BY <1>3, <1>4, <1>6 DEF Good
<1>7. CASE HasMove(p)
  <2>1. PICK a : a = <<m>>
    OBVIOUS
  <2>2. a \in Seq(Messages) /\ DOMAIN a = {1} /\ a[1] = m
    BY <2>1
  <2>3. ~HasMove(a)
    BY <2>2 DEF HasMove
  <2>4. HasMove(a \o b)
    BY <1>7, <2>1
  <2>5. HasMove(b)
    BY <2>2, <2>3, <2>4, MoveOfTwo
  <2>6. Good(w, b, l, d, r)
    BY <1>3, <2>5 DEF Good
  <2> QED BY <1>4, <2>6
<1>8. CASE ~r /\ Ordered(v, p, l)
  <2>1. Streamed(p, ToSet(l), d) /\ Fresh(p)
    BY <1>8 DEF Told
  <2> HIDE DEF p
  <2>2. ASSUME NEW i \in DOMAIN l, NEW j \in DOMAIN l, i < j
        PROVE  NewBefore(AsNews(w) \o b, l[i].id, l[j].id)
    <3>1. PICK x, y : x = l[i].id /\ y = l[j].id
      OBVIOUS
    <3>2. /\ x \in (0 .. MaxId) \ d /\ y \in (0 .. MaxId) \ d
          /\ Knows(ToSet(l), x) /\ Knows(ToSet(l), y)
      <4>1. x \in Ids(l) /\ y \in Ids(l)
        BY <3>1 DEF Ids
      <4> QED BY <1>1, <3>1, <4>1, ListEntries
    <3>3. ~Has("DELETE", p, x) /\ ~Has("DELETE", p, y)
      BY <1>5, <2>1, <3>2, KnownNotDeleted
    <3>4. m.kind = "DELETE" => m.id # x /\ m.id # y
      <4>1. 1 \in DOMAIN p /\ p[1] = m
        BY <1>5, OneTold DEF p
      <4> QED BY <3>3, <4>1 DEF Has, TellsOf
    <3>5. NewBefore(AsNews(v) \o (<<m>> \o b), x, y)
      BY <1>8, <2>2, <3>1 DEF Ordered, InOrder, p
    <3> QED BY <1>1, <3>1, <3>4, <3>5, AppliedOrder
  <2>3. Ordered(w, b, l)
    BY <2>2 DEF Ordered, InOrder
  <2>4. Good(w, b, l, d, r)
    BY <1>3, <2>3 DEF Good
  <2> QED BY <1>4, <2>4
<1> QED BY <1>6, <1>7, <1>8 DEF Good

\* one after the other.
LEMMA AppliedAllGrows ==
  ASSUME NEW v, NEW a \in Seq(Messages)
  PROVE  \E shown : /\ AppliedAll(v, a) = shown[Len(a)] /\ shown[0] = v
                    /\ \A i \in 1 .. Len(a) : shown[i] = Applied(shown[i - 1], a[i])
<1> DEFINE From(g, i) == IF i = 0 THEN v ELSE Applied(g[i - 1], a[i])
           IsShown(g, n) == g = [i \in 0 .. n |-> From(g, i)]
           Counted == {n \in Nat : \E g : IsShown(g, n)}
<1>1. Len(a) \in Nat
  BY LenProperties
<1>2. 0 \in Counted
  <2> DEFINE g == [i \in 0 .. 0 |-> v]
  <2>1. IsShown(g, 0)
    OBVIOUS
  <2> QED BY <2>1
<1>3. ASSUME NEW n \in Nat, n \in Counted PROVE n + 1 \in Counted
  <2>1. PICK g : IsShown(g, n)
    BY <1>3
  <2> DEFINE h == [i \in 0 .. n + 1 |-> IF i <= n THEN g[i] ELSE From(g, n + 1)]
  <2>2. \A i \in 0 .. n : g[i] = From(g, i)
    BY <2>1
  <2>3. \A i \in 0 .. n + 1 : h[i] = From(h, i)
    BY <2>2
  <2>4. IsShown(h, n + 1)
    BY <2>3
  <2> HIDE DEF h, IsShown
  <2>5. \E f : IsShown(f, n + 1)
    BY <2>4
  <2> QED BY <2>5
<1>4. Len(a) \in Counted
  <2> HIDE DEF Counted
  <2> QED BY <1>1, <1>2, <1>3, NaturalInduction
<1> DEFINE shown == CHOOSE g : IsShown(g, Len(a))
<1>5. IsShown(shown, Len(a))
  BY <1>4
<1>6. AppliedAll(v, a) = shown[Len(a)]
  BY DEF AppliedAll
<1> HIDE DEF shown
<1>7. \A i \in 0 .. Len(a) : shown[i] = From(shown, i)
  BY <1>1, <1>5
<1>8. shown[0] = v /\ \A i \in 1 .. Len(a) : shown[i] = Applied(shown[i - 1], a[i])
  BY <1>1, <1>7
<1> QED BY <1>6, <1>8

\* A batch applied to a list without twins leaves one.
LEMMA AppliedIsProper ==
  ASSUME NEW v \in ProperLists, NEW a \in Seq(Messages)
  PROVE  AppliedAll(v, a) \in ProperLists
<1>1. PICK shown : /\ AppliedAll(v, a) = shown[Len(a)] /\ shown[0] = v
                   /\ \A i \in 1 .. Len(a) : shown[i] = Applied(shown[i - 1], a[i])
  BY AppliedAllGrows
<1>2. PICK n \in Nat : n = Len(a)
  BY LenProperties
<1>3. \A i \in 1 .. n : a[i] \in Messages
  BY <1>2, LenProperties
<1> DEFINE Proper == {k \in Nat : k <= n => shown[k] \in ProperLists}
<1>4. 0 \in Proper
  BY <1>1
<1>5. ASSUME NEW k \in Nat, k \in Proper PROVE k + 1 \in Proper
  <2> SUFFICES ASSUME k + 1 <= n PROVE shown[k + 1] \in ProperLists
    OBVIOUS
  <2>1. PICK w, m : w = shown[k] /\ m = a[k + 1]
    OBVIOUS
  <2>2. w \in ProperLists /\ m \in Messages
    BY <1>3, <1>5, <2>1
  <2>3. shown[k + 1] = Applied(w, m)
    BY <1>1, <1>2, <2>1
  <2> QED BY <2>2, <2>3, AppliedList DEF ProperLists
<1>6. n \in Proper
  <2> HIDE DEF Proper
  <2> QED BY <1>4, <1>5, NaturalInduction
<1> QED BY <1>1, <1>2, <1>6

\* A list to which the first messages are applied leads with the others to where
\* it led with all of them, if no move is among those.
LEMMA BatchIsGood ==
  ASSUME NEW v \in ProperLists, NEW a \in Seq(Messages), ~HasMove(a), NEW b \in Seq(Messages),
         NEW l \in ProperLists, NEW d, Ids(l) \cap d = {}, NEW r,
         Told(a \o b, l, d, r), Good(v, a \o b, l, d, r)
  PROVE  Good(AppliedAll(v, a), b, l, d, r)
<1>1. PICK shown : /\ AppliedAll(v, a) = shown[Len(a)] /\ shown[0] = v
                   /\ \A i \in 1 .. Len(a) : shown[i] = Applied(shown[i - 1], a[i])
  BY AppliedAllGrows
<1>2. PICK n \in Nat : n = Len(a)
  BY LenProperties
<1>3. DOMAIN a = 1 .. n /\ \A i \in 1 .. n : a[i] \in Messages
  BY <1>2, LenProperties
<1> DEFINE Rest(k) == SubSeq(a, k + 1, n)
           Right == {k \in Nat : k <= n => /\ shown[k] \in ProperLists
                                           /\ Good(shown[k], Rest(k) \o b, l, d, r)}
<1>4. Rest(0) = a
  BY <1>2, SubSeqFull
<1>5. Rest(n) = <<>>
  BY <1>2, SubSeqEmpty
<1>6. 0 \in Right
  BY <1>1, <1>4
<1>7. ASSUME NEW k \in Nat, k + 1 <= n
      PROVE  /\ Rest(k) = <<a[k + 1]>> \o Rest(k + 1)
             /\ Rest(k) \in Seq(Messages) /\ Rest(k + 1) \in Seq(Messages)
             /\ \E c \in Seq(Messages) : a = c \o Rest(k)
  <2>1. PICK m, c, e : m = a[k + 1] /\ c = SubSeq(a, 1, k) /\ e = SubSeq(a, k + 2, n)
    OBVIOUS
  <2>2. k + 1 \in DOMAIN a /\ (k + 1) - 1 = k /\ (k + 1) + 1 = k + 2 /\ Len(a) - (k + 1) = n - (k + 1)
    BY <1>2, <1>3, <1>7
  <2>3. /\ c \in Seq(Messages) /\ e \in Seq(Messages) /\ m \in Messages
        /\ <<m>> \in Seq(Messages)
        /\ Len(c) = k /\ Len(e) = n - (k + 1)
        /\ a = c \o <<m>> \o e
    <3>1. PICK i : i = k + 1
      OBVIOUS
    <3>2. i \in DOMAIN a
      BY <2>2, <3>1
    <3>3. /\ SubSeq(a, 1, i - 1) \in Seq(Messages) /\ SubSeq(a, i + 1, Len(a)) \in Seq(Messages)
          /\ a[i] \in Messages /\ <<a[i]>> \in Seq(Messages)
          /\ Len(SubSeq(a, 1, i - 1)) = i - 1 /\ Len(SubSeq(a, i + 1, Len(a))) = Len(a) - i
      BY <3>2, Parts
    <3>4. a = SubSeq(a, 1, i - 1) \o <<a[i]>> \o SubSeq(a, i + 1, Len(a))
      BY <3>2, Parts
    <3>5. i - 1 = k /\ i + 1 = k + 2
      BY <3>1
    <3> QED BY <1>2, <2>1, <3>1, <3>3, <3>4, <3>5
  <2>4. PICK o, f : o = f \o e /\ f = <<m>>
    OBVIOUS
  <2>5. a = c \o o /\ o \in Seq(Messages) /\ f \in Seq(Messages) /\ Len(f) = 1
    <3>1. f \in Seq(Messages) /\ Len(f) = 1 /\ a = (c \o f) \o e
      BY <2>3, <2>4
    <3> QED BY <2>3, <2>4, <3>1, ConcatAssociative, ConcatProperties
  <2>6. Rest(k) = o
    <3>1. /\ Len(o) = n - k /\ o \in Seq(Messages) /\ Len(c) = k
          /\ \A h \in 1 .. Len(o) : a[k + h] = o[h]
      <4>1. Len(o) = 1 + Len(e)
        BY <2>3, <2>4, <2>5, ConcatProperties
      <4>2. c \in Seq(Messages) /\ o \in Seq(Messages)
        BY <2>3, <2>5
      <4>3. \A h \in 1 .. Len(o) : (c \o o)[Len(c) + h] = o[h]
        BY <4>2, StreamPlaces
      <4>4. \A h \in 1 .. Len(o) : a[k + h] = o[h]
        BY <2>3, <2>5, <4>3
      <4>5. Len(o) = n - k
        BY <1>7, <2>3, <4>1
      <4> QED BY <2>3, <4>2, <4>4, <4>5
    <3>2. /\ Rest(k) \in Seq(Messages) /\ Len(Rest(k)) = n - k
          /\ \A h \in 1 .. n - k : Rest(k)[h] = a[k + h]
      <4>1. SubSeq(a, k + 1, n) \in Seq(Messages)
        BY <1>2, <1>3, <1>7, SubSeqProperties
      <4>2. /\ Len(SubSeq(a, k + 1, n)) = n - k
            /\ \A h \in 1 .. n - k : SubSeq(a, k + 1, n)[h] = a[k + h]
        <5>1. Len(SubSeq(a, k + 1, n)) = n - k
          BY <1>2, <1>3, <1>7, SubSeqProperties
        <5>2. ASSUME NEW h \in 1 .. n - k PROVE SubSeq(a, k + 1, n)[h] = a[k + h]
          <6>1. SubSeq(a, k + 1, n)[h] = a[(k + 1) + h - 1]
            BY <1>2, <1>3, <1>7, SubSeqProperties
          <6>2. (k + 1) + h - 1 = k + h
            OBVIOUS
          <6> QED BY <6>1, <6>2
        <5> QED BY <5>1, <5>2
      <4> QED BY <4>1, <4>2
    <3> HIDE DEF Rest
    <3> QED BY <3>1, <3>2, SeqEqual
  <2>7. Rest(k + 1) = e
    BY <2>1, <2>2
  <2> HIDE DEF Rest
  <2> QED BY <2>1, <2>3, <2>4, <2>5, <2>6, <2>7
<1> HIDE DEF Rest
<1>8. ASSUME NEW k \in Nat, k \in Right PROVE k + 1 \in Right
  <2> SUFFICES ASSUME k + 1 <= n
               PROVE  /\ shown[k + 1] \in ProperLists
                      /\ Good(shown[k + 1], Rest(k + 1) \o b, l, d, r)
    OBVIOUS
  <2>1. PICK w, m, o, e : w = shown[k] /\ m = a[k + 1] /\ o = Rest(k) /\ e = Rest(k + 1)
    OBVIOUS
  <2>2. w \in ProperLists /\ Good(w, o \o b, l, d, r)
    BY <1>8, <2>1
  <2>3. m \in Messages /\ m.kind \notin Directions
    BY <1>3, <2>1 DEF HasMove
  <2>4. shown[k + 1] = Applied(w, m)
    BY <1>1, <1>2, <2>1
  <2>5. o = <<m>> \o e /\ o \in Seq(Messages) /\ e \in Seq(Messages)
    BY <1>7, <2>1
  <2>6. PICK c \in Seq(Messages) : a = c \o o
    BY <1>7, <2>1
  <2>7. PICK u : u = e \o b
    OBVIOUS
  <2>8. u \in Seq(Messages) /\ o \o b = <<m>> \o u
    <3>1. PICK f : f = <<m>>
      OBVIOUS
    <3>2. f \in Seq(Messages) /\ o = f \o e
      BY <2>3, <2>5, <3>1
    <3>3. f \in Seq(Messages) /\ e \in Seq(Messages) /\ b \in Seq(Messages)
      BY <2>5, <3>2
    <3>4. (f \o e) \o b = f \o (e \o b)
      BY <3>3, ConcatAssociative, SMTT(30)
    <3> QED BY <2>5, <2>7, <3>1, <3>2, <3>3, <3>4, StreamPlaces
  <2>9. a \o b = c \o (o \o b) /\ o \o b \in Seq(Messages)
    BY <2>5, <2>6, ConcatAssociative, ConcatProperties
  <2>10. Told(o \o b, l, d, r)
    BY <2>9, SuffixTold
  <2>11. Applied(w, m) \in ProperLists /\ Good(Applied(w, m), u, l, d, r)
    BY <2>2, <2>3, <2>8, <2>10, OneIsGood
  <2> QED BY <2>1, <2>4, <2>7, <2>11
<1>9. n \in Right
  <2> HIDE DEF Right
  <2> QED BY <1>6, <1>8, NaturalInduction
<1>10. Good(shown[n], Rest(n) \o b, l, d, r)
  BY <1>9
<1>11. <<>> \o b = b
  OBVIOUS
<1> QED BY <1>1, <1>2, <1>5, <1>10, <1>11

--------------------------------------------------------------------------------
(* A change of the list and the message that announces it.                    *)

Announces(m, l, d, l2, d2) ==
  /\ m \in Messages /\ l \in ProperLists /\ l2 \in ProperLists
  /\ Ids(l) \cap d = {} /\ Ids(l2) \cap d2 = {}
  /\ Fits(m, ToSet(l), d) /\ ToSet(l2) = AppliedTo(ToSet(l), m) /\ d2 = DoomedThen(d, m)
  /\ \/ m.kind \in Directions
     \/ /\ m.kind = "NEW" /\ m.id \notin Ids(l) \cup d
        /\ l2 = Append(l, Entry(m.id, m.on))
     \/ m.kind # "NEW" /\ \A s : InOrder(s, l) => InOrder(s, l2)

\* With the message under way, what was good stays so.
LEMMA AnnouncedIsGood ==
  ASSUME NEW p \in Seq(Messages), NEW m, NEW l, NEW d, NEW l2, NEW d2,
         Announces(m, l, d, l2, d2), NEW r \in BOOLEAN, NEW r2 \in BOOLEAN, r => r2,
         m.kind = "NEW" => r2 \/ ~Has("DELETE", p, m.id),
         Told(p, l, d, r)
  PROVE  /\ Told(Append(p, m), l2, d2, r2)
         /\ \A v \in ProperLists : Good(v, p, l, d, r) => Good(v, Append(p, m), l2, d2, r2)
<1>1. /\ m \in Messages /\ l \in DownloadLists /\ Distinct(l) /\ Ids(l) \cap d = {}
      /\ Fits(m, ToSet(l), d) /\ ToSet(l2) = AppliedTo(ToSet(l), m) /\ d2 = DoomedThen(d, m)
      /\ l \in ProperLists
  BY DEF Announces, ProperLists
<1>2. Told(Append(p, m), l2, d2, r2)
  <2>1. Streamed(Append(p, m), ToSet(l2), d2)
    BY <1>1, PostedStreamed DEF Told
  <2>2. r2 \/ Fresh(Append(p, m))
    BY <1>1, PostedFresh DEF Told
  <2> QED BY <2>1, <2>2 DEF Told
<1>3. ASSUME NEW v \in ProperLists, Good(v, p, l, d, r)
      PROVE  Good(v, Append(p, m), l2, d2, r2)
  <2>1. Leads(ToSet(v), Append(p, m), ToSet(l2), d2)
    BY <1>1, <1>3, PostedLeads DEF Told, Good
  <2>2. CASE r2
    BY <2>1, <2>2 DEF Good
  <2>3. CASE HasMove(p) \/ m.kind \in Directions
    BY <1>1, <2>1, <2>3, MoveOfTwo DEF Good
  <2>4. CASE ~r2 /\ ~HasMove(p) /\ m.kind \notin Directions
    <3>1. v \in DownloadLists /\ Ordered(v, p, l)
      BY <1>3, <2>4 DEF Good, ProperLists
    <3>2. CASE m.kind # "NEW"
      <4>1. \A s : InOrder(s, l) => InOrder(s, l2)
        BY <2>4, <3>2 DEF Announces
      <4>2. Ordered(v, Append(p, m), l)
        BY <1>1, <3>1, PostedOrder
      <4>3. Ordered(v, Append(p, m), l2)
        BY <4>1, <4>2 DEF Ordered
      <4> QED BY <2>1, <4>3 DEF Good
    <3>3. CASE m.kind = "NEW"
      <4>1. m.id \notin Ids(l) \cup d /\ l2 = Append(l, Entry(m.id, m.on))
        BY <2>4, <3>3 DEF Announces
      <4>2. m.id \in (0 .. MaxId) \ d /\ m.on \in BOOLEAN
        BY <1>1, <4>1 DEF Messages
      <4>3. ToldLast(p, ToSet(l), d) /\ Leads(ToSet(v), p, ToSet(l), d)
        BY <1>3 DEF Told, Good, Streamed
      <4>4. ~Has("DELETE", p, m.id)
        BY <2>4, <3>3
      <4>5. Ordered(v, Append(p, m), Append(l, Entry(m.id, m.on)))
        BY <1>1, <3>1, <3>3, <4>1, <4>2, <4>3, <4>4, AddedOrder
      <4> QED BY <2>1, <4>1, <4>5 DEF Good
    <3> QED BY <3>2, <3>3
  <2> QED BY <2>2, <2>3, <2>4
<1> QED BY <1>2, <1>3

\* A new download,
LEMMA AddedAnnounces ==
  ASSUME NEW l \in ProperLists, NEW d, Ids(l) \cap d = {}, NEW z \in 0 .. MaxId,
         z \notin Ids(l) \cup d
  PROVE  Announces(Message("NEW", z, TRUE), l, d, Append(l, Entry(z, TRUE)), d)
<1>1. PICK m : m = Message("NEW", z, TRUE)
  OBVIOUS
<1>2. m \in Messages /\ m.kind = "NEW" /\ m.id = z /\ m.on = TRUE
  BY <1>1 DEF Message, Messages, MessageKinds
<1>3. l \in DownloadLists /\ Distinct(l)
  BY DEF ProperLists
<1>4. PICK l2 : l2 = Append(l, Entry(z, TRUE))
  OBVIOUS
<1>5. l2 \in DownloadLists /\ Distinct(l2) /\ ToSet(l2) = ToSet(l) \cup {Entry(z, TRUE)}
  BY <1>3, <1>4, AppendedList
<1>6. ~Knows(ToSet(l), z)
  BY <1>3, ListEntries
<1>7. ToSet(l2) = AppliedTo(ToSet(l), m)
  BY <1>2, <1>5, <1>6 DEF AppliedTo
<1>8. Fits(m, ToSet(l), d) /\ DoomedThen(d, m) = d
  BY <1>2, <1>6 DEF Fits, DoomedThen
<1>9. Ids(l2) \cap d = {}
  <2> SUFFICES ASSUME NEW x \in Ids(l2), x \in d PROVE FALSE
    OBVIOUS
  <2>1. Knows(ToSet(l2), x)
    BY <1>5, ListEntries
  <2>2. PICK on \in BOOLEAN : Entry(x, on) \in ToSet(l2)
    BY <2>1 DEF Knows
  <2>3. Entry(x, on) \in ToSet(l) \/ Entry(x, on) = Entry(z, TRUE)
    BY <1>5, <2>2
  <2>4. Entry(x, on) = Entry(z, TRUE) => x = z
    BY DEF Entry
  <2>5. Knows(ToSet(l), x) \/ x = z
    BY <2>3, <2>4 DEF Knows
  <2> QED BY <1>3, <2>5, ListEntries
<1> QED BY <1>1, <1>2, <1>3, <1>4, <1>5, <1>7, <1>8, <1>9 DEF Announces, ProperLists

\* one that is switched,
LEMMA SwitchedAnnounces ==
  ASSUME NEW l \in ProperLists, NEW d, Ids(l) \cap d = {}, NEW z, NEW on \in BOOLEAN,
         Entry(z, ~on) \in ToSet(l)
  PROVE  Announces(Message("UPDATE", z, on), l, d, Switched(l, z, on), d)
<1>1. PICK m : m = Message("UPDATE", z, on)
  OBVIOUS
<1>2. l \in DownloadLists /\ Distinct(l)
  BY DEF ProperLists
<1>3. Knows(ToSet(l), z)
  BY DEF Knows
<1>4. z \in Ids(l) /\ z \in 0 .. MaxId
  BY <1>2, <1>3, ListEntries DEF Ids
<1>5. m \in Messages /\ m.kind = "UPDATE" /\ m.id = z /\ m.on = on
  BY <1>1, <1>4 DEF Message, Messages, MessageKinds
<1>6. PICK l2 : l2 = Switched(l, z, on)
  OBVIOUS
<1>7. /\ l2 \in DownloadLists /\ Distinct(l2)
      /\ ToSet(l2) = Others(ToSet(l), z) \cup {Entry(z, on)}
      /\ DOMAIN l2 = DOMAIN l /\ \A i \in DOMAIN l : l2[i].id = l[i].id
  BY <1>2, <1>3, <1>4, <1>6, SwitchedList
<1>8. ToSet(l2) = AppliedTo(ToSet(l), m)
  BY <1>3, <1>5, <1>7 DEF AppliedTo
<1>9. Fits(m, ToSet(l), d) /\ DoomedThen(d, m) = d
  BY <1>3, <1>4, <1>5 DEF Fits, DoomedThen
<1>10. Ids(l2) = Ids(l)
  BY <1>7 DEF Ids
<1>11. \A s : InOrder(s, l) => InOrder(s, l2)
  BY <1>2, <1>4, <1>6, SwitchedOrder
<1> QED BY <1>1, <1>2, <1>5, <1>6, <1>7, <1>8, <1>9, <1>10, <1>11 DEF Announces, ProperLists

\* one that is moved,
LEMMA MovedAnnounces ==
  ASSUME NEW l \in ProperLists, NEW d, Ids(l) \cap d = {}, l # <<>>, NEW z,
         NEW direction \in Directions, CanMove(l, z, direction)
  PROVE  Announces(Message(direction, z, TRUE), l, d, Moved(l, z, direction), d)
<1>1. PICK m : m = Message(direction, z, TRUE)
  OBVIOUS
<1>2. l \in DownloadLists /\ Distinct(l)
  BY DEF ProperLists
<1>3. z \in 0 .. MaxId
  <2>1. PICK rest : /\ rest = IF direction \in {"UP", "TOP"} THEN Tail(l) ELSE Front(l)
                    /\ z \in Ids(rest)
    BY DEF CanMove
  <2>2. PICK i \in DOMAIN rest : rest[i].id = z
    BY <2>1 DEF Ids
  <2>3. rest \in Seq(Entries)
    <3>1. l \in Seq(Entries)
      BY <1>2, ListEntries
    <3>2. Tail(l) \in Seq(Entries)
      BY <3>1, HeadTailProperties
    <3>3. Front(l) \in Seq(Entries)
      BY <3>1, SubSeqProperties, LenProperties DEF Front
    <3>4. rest = Tail(l) \/ rest = Front(l)
      BY <2>1
    <3> QED BY <3>2, <3>3, <3>4
  <2>4. rest[i] \in Entries
    BY <2>3
  <2> QED BY <2>2, <2>4 DEF Entries
<1>4. m \in Messages /\ m.kind = direction /\ m.id = z /\ m.on = TRUE
  BY <1>1, <1>3 DEF Message, Messages, MessageKinds
<1>5. direction \notin {"NEW", "UPDATE", "DELETE"}
  BY DEF Directions
<1>6. PICK l2 : l2 = Moved(l, z, direction)
  OBVIOUS
<1>7. l2 \in DownloadLists /\ Distinct(l2) /\ ToSet(l2) = ToSet(l)
  BY <1>2, <1>6, MovedList
<1>8. ToSet(l2) = AppliedTo(ToSet(l), m)
  BY <1>4, <1>5, <1>7 DEF AppliedTo
<1>9. Fits(m, ToSet(l), d) /\ DoomedThen(d, m) = d
  BY <1>4, <1>5 DEF Fits, DoomedThen
<1>10. Ids(l2) \cap d = {}
  <2>1. \A x : x \in Ids(l2) <=> x \in Ids(l)
    BY <1>2, <1>7, ListEntries
  <2> QED BY <2>1
<1> QED BY <1>1, <1>2, <1>4, <1>6, <1>7, <1>8, <1>9, <1>10 DEF Announces, ProperLists

\* and one that is destroyed.
LEMMA PurgedAnnounces ==
  ASSUME NEW l \in ProperLists, NEW d, Ids(l) \cap d = {}, NEW z \in 0 .. MaxId, z \in d
  PROVE  Announces(Message("DELETE", z, TRUE), l, d, l, d \ {z})
<1>1. PICK m : m = Message("DELETE", z, TRUE)
  OBVIOUS
<1>2. l \in DownloadLists /\ Distinct(l)
  BY DEF ProperLists
<1>3. ~Knows(ToSet(l), z)
  BY <1>2, ListEntries
<1>4. m \in Messages /\ m.kind = "DELETE" /\ m.id = z /\ m.on = TRUE
  BY <1>1 DEF Message, Messages, MessageKinds
<1>5. Others(ToSet(l), z) = ToSet(l)
  <2> SUFFICES ASSUME NEW c \in ToSet(l) PROVE c.id # z
    BY DEF Others
  <2>1. c \in Entries
    BY <1>2, ListEntries
  <2> QED BY <1>3, <2>1, EntriesAre DEF Knows
<1>6. ToSet(l) = AppliedTo(ToSet(l), m)
  BY <1>4, <1>5 DEF AppliedTo
<1>7. Fits(m, ToSet(l), d) /\ DoomedThen(d, m) = d \ {z}
  BY <1>3, <1>4 DEF Fits, DoomedThen
<1>8. Ids(l) \cap (d \ {z}) = {}
  OBVIOUS
<1> QED BY <1>1, <1>4, <1>6, <1>7, <1>8 DEF Announces

\* One that is deleted is announced later.
LEMMA DeletedIsGood ==
  ASSUME NEW p \in Seq(Messages), NEW l \in ProperLists, NEW d, Ids(l) \cap d = {}, NEW z,
         NEW r
  PROVE  LET l2 == Removed(l, z)
             d2 == d \cup {z}
         IN  /\ l2 \in ProperLists /\ Ids(l2) \cap d2 = {}
             /\ Told(p, l, d, r) => Told(p, l2, d2, r)
             /\ \A v \in ProperLists : Good(v, p, l, d, r) => Good(v, p, l2, d2, r)
<1>1. PICK l2, d2 : l2 = Removed(l, z) /\ d2 = d \cup {z}
  OBVIOUS
<1>2. l \in DownloadLists /\ Distinct(l)
  BY DEF ProperLists
<1>3. /\ l2 \in DownloadLists /\ Distinct(l2) /\ ToSet(l2) = Others(ToSet(l), z)
      /\ Ids(l2) = Ids(l) \ {z}
  BY <1>1, <1>2, RemovedList
<1>4. l2 \in ProperLists /\ Ids(l2) \cap d2 = {}
  BY <1>1, <1>3 DEF ProperLists
<1>5. \A x \in 0 .. MaxId, on \in BOOLEAN :
        x # z => (Entry(x, on) \in ToSet(l2) <=> Entry(x, on) \in ToSet(l))
  BY <1>3, EntriesAre DEF Others
<1>6. Told(p, l, d, r) => Told(p, l2, d2, r)
  BY <1>1, <1>5, DeletedStreamed DEF Told
<1>7. ASSUME NEW v \in ProperLists, Good(v, p, l, d, r) PROVE Good(v, p, l2, d2, r)
  <2>1. Leads(ToSet(v), p, ToSet(l2), d2)
    BY <1>1, <1>5, <1>7, DeletedStreamed DEF Good
  <2>2. Ordered(v, p, l) => Ordered(v, p, l2)
    BY <1>1, <1>2, RemovedOrder DEF Ordered
  <2> QED BY <1>7, <2>1, <2>2 DEF Good
<1> QED BY <1>1, <1>4, <1>6, <1>7

--------------------------------------------------------------------------------
(* The types of the client's state.                                          *)

FlagTypes ==
  /\ up \in BOOLEAN /\ subscribed \in BOOLEAN /\ sent \in BOOLEAN /\ required \in BOOLEAN
  /\ term \in BOOLEAN /\ updating \in BOOLEAN /\ stop \in BOOLEAN /\ told \in BOOLEAN
  /\ enabled \in BOOLEAN /\ missed \in BOOLEAN /\ reordered \in BOOLEAN
  /\ doubled \in BOOLEAN

\* What is posted may be missed, and an id given again too early.
LEMMA PostFlags ==
  ASSUME FlagTypes
  PROVE  /\ \A m : Post(m) => missed' \in BOOLEAN
         /\ AddDownload => missed' \in BOOLEAN /\ reordered' \in BOOLEAN
         /\ \A id : DeleteDownload(id) => missed' \in BOOLEAN /\ reordered' \in BOOLEAN
         /\ \A id, on : SwitchDownload(id, on) => missed' \in BOOLEAN /\ reordered' \in BOOLEAN
         /\ \A id, d : MoveDownload(id, d) => missed' \in BOOLEAN /\ reordered' \in BOOLEAN
         /\ \A r : CarryOut(r) => missed' \in BOOLEAN /\ reordered' \in BOOLEAN
<1>1. \A m : Post(m) => missed' \in BOOLEAN
  BY DEF Post, FlagTypes
<1>2. AddDownload => missed' \in BOOLEAN /\ reordered' \in BOOLEAN
  BY <1>1 DEF AddDownload, FlagTypes
<1>3. \A id : DeleteDownload(id) => missed' \in BOOLEAN /\ reordered' \in BOOLEAN
  BY DEF DeleteDownload, FlagTypes
<1>4. \A id, on : SwitchDownload(id, on) => missed' \in BOOLEAN /\ reordered' \in BOOLEAN
  BY <1>1 DEF SwitchDownload, FlagTypes
<1>5. \A id, d : MoveDownload(id, d) => missed' \in BOOLEAN /\ reordered' \in BOOLEAN
  BY <1>1 DEF MoveDownload, FlagTypes
<1>6. \A r : CarryOut(r) => missed' \in BOOLEAN /\ reordered' \in BOOLEAN
  BY <1>2, <1>3, <1>4, <1>5 DEF CarryOut, FlagTypes, daemonVars
<1> QED BY <1>1, <1>2, <1>3, <1>4, <1>5, <1>6

\* The flags are flags.
LEMMA ThreadFlags ==
  ASSUME FlagTypes, NEW t \in Threads, ThreadStep(t)
  PROVE  FlagTypes'
<1>1. CASE SendNext(t)
  BY <1>1 DEF SendNext, FlagTypes, daemonVars, listVars, threadVars
<1>2. CASE Receive(t)
  BY <1>2 DEF Receive, FlagTypes, daemonVars, listVars, threadVars
<1>3. CASE ReceiveNothing(t)
  BY <1>3 DEF ReceiveNothing, FlagTypes, daemonVars, socketVars, listVars, threadVars
<1>4. CASE PrepareFullList(t)
  BY <1>4 DEF PrepareFullList, FlagTypes, daemonVars, socketVars, callVars
<1>5. CASE RequestList(t)
  BY <1>5, ZenonT(60) DEF RequestList, Begin, Refused, ListReady, FlagTypes, daemonVars
<1>6. CASE ListReturns(t)
  BY <1>6, ZenonT(60) DEF ListReturns, ListReady, FlagTypes, daemonVars, socketVars
<1> QED BY <1>1, <1>2, <1>3, <1>4, <1>5, <1>6 DEF ThreadStep

\* The threads of the client keep the flags,
LEMMA ProgramFlags ==
  ASSUME FlagTypes, UpdaterStep \/ GuiStep
  PROVE  FlagTypes'
<1>1. CASE ThreadStep(Updater) \/ ThreadStep(Gui)
  BY <1>1, ThreadFlags DEF Threads
<1>2. CASE FirstCheck
  BY <1>2 DEF FirstCheck, FlagTypes, daemonVars, listVars
<1>3. CASE RequestSubscription
  BY <1>3, ZenonT(60) DEF RequestSubscription, Begin, Refused, FlagTypes, daemonVars, listVars
<1>4. CASE SubscriptionReturns
  BY <1>4 DEF SubscriptionReturns, FlagTypes, daemonVars, socketVars, listVars
<1>5. CASE LoopEnds
  BY <1>5 DEF LoopEnds, FlagTypes, daemonVars, socketVars, callVars, listVars
<1>6. CASE LoopChecks
  BY <1>6 DEF LoopChecks, FlagTypes, daemonVars, listVars
<1>7. CASE EnterUpdates
  BY <1>7 DEF EnterUpdates, HasMove, FlagTypes, daemonVars
<1>8. CASE GetUpdates
  BY <1>8 DEF GetUpdates, FlagTypes, daemonVars, listVars
<1>9. CASE PrepareUpdates
  BY <1>9 DEF PrepareUpdates, HasMove, FlagTypes, daemonVars, socketVars, callVars
<1>10. CASE HandleEvent
  BY <1>10 DEF HandleEvent, FlagTypes, daemonVars, threadVars
<1>11. CASE SendCommand
  BY <1>11 DEF SendCommand, Begin, CallRefused, Refused, FlagTypes, daemonVars, listVars
<1>12. CASE RowIsGone
  BY <1>12 DEF RowIsGone, FlagTypes, daemonVars, socketVars, callVars, listVars
<1>13. CASE CommandReturns
  BY <1>13 DEF CommandReturns, FlagTypes, daemonVars, socketVars, listVars
<1>14. CASE Connect
  BY <1>14, ZenonT(60) DEF Connect, FlagTypes, daemonVars, socketVars, callVars, listVars
<1>15. CASE Join
  BY <1>15 DEF Join, FlagTypes, daemonVars, socketVars, callVars, listVars
<1>16. CASE ResetTerm
  BY <1>16 DEF ResetTerm, FlagTypes, daemonVars, socketVars, callVars, listVars
<1> QED BY <1>1, <1>2, <1>3, <1>4, <1>5, <1>6, <1>7, <1>8, <1>9, <1>10, <1>11, <1>12,
           <1>13, <1>14, <1>15, <1>16 DEF UpdaterStep, GuiStep

\* An answer of the user, and a slot that begins, with where they lead.
Answered == /\ at[Gui] \in {"confirm", "input", "askFile", "captcha", "dialog"}
            /\ \E next \in {"command", "idle", "reload"} : Goto(Gui, next)
            /\ UNCHANGED <<daemonVars, socketVars, callVars, listVars, batch, updating,
                           stop, told, enabled, term, missed>>
LeadsOn == \/ UNCHANGED at
          \/ \E next \in {"command", "confirm", "input", "reload"} : Goto(Gui, next)
Started == /\ at[Gui] = "idle" /\ mx = NoThread /\ Hello
           /\ \/ up /\ LeadsOn /\ UNCHANGED events
              \/ ~up /\ events' = Append(events, "clear") /\ UNCHANGED at
           /\ updating' \in {updating, FALSE}
           /\ UNCHANGED <<daemonVars, up, doubled, subscribed, queue, request, mx, sent, todo,
                 got, lmx, view, newContent, newUpdates, required, batch, stop,
                 told, enabled, term, missed>>
\* The steps of the user are these, or open a dialog for the connection.
LEMMA UserStepsAre ==
  UserStep => Answered \/ Started \/ OnConnect
<1>1. ASSUME NEW place \in {"confirm", "input", "askFile", "captcha", "dialog"},
             NEW next \in {"command", "idle", "reload"}, NEW command,
             Choose(place, next, command)
      PROVE  Answered
  BY <1>1 DEF Choose, Answered
<1>2. CASE ConfirmDelete \/ EnterText
  BY <1>1, <1>2 DEF ConfirmDelete, EnterText
<1>3. CASE ChooseFile \/ EnterCaptcha
  BY <1>1, <1>3 DEF ChooseFile, EnterCaptcha
<1>4. CASE DialogAccepted \/ DialogCancelled
  BY <1>1, <1>4 DEF DialogAccepted, DialogCancelled
<1>5. \A command : \A place \in {"command", "confirm", "input", "reload"} :
        /\ WithSelection(command, place) => LeadsOn
        /\ WithId(command, place) => LeadsOn
        /\ Without(command, place) => LeadsOn
  BY DEF WithSelection, WithId, Without, LeadsOn
<1>6. UNCHANGED at => LeadsOn
  BY DEF LeadsOn
<1>7. \A command : OnSelection(command) \/ OnConfirmed(command) => Started
  <2> TAKE command
  <2>1. CASE OnSelection(command)
    BY <1>5, <2>1 DEF OnSelection, StartSlot, Started
  <2>2. CASE OnConfirmed(command)
    BY <1>5, <2>2 DEF OnConfirmed, StartSlot, Started
  <2> QED BY <2>1, <2>2
<1>8. CASE \/ OnActivate \/ OnDeactivate \/ OnEnterCaptcha
           \/ OnPriorityUp \/ OnPriorityDown \/ OnPriorityTop
           \/ OnPriorityBottom \/ OnDelete \/ OnDeleteFile
  BY <1>7, <1>8 DEF OnActivate, OnDeactivate, OnEnterCaptcha, OnPriorityUp,
     OnPriorityDown, OnPriorityTop, OnPriorityBottom, OnDelete, OnDeleteFile
<1>9. CASE OnSetName \/ OnSetUrl
  <2>1. ASSUME NEW command, OnNamed(command) PROVE Started
    BY <1>5, <1>6, <2>1 DEF OnNamed, StartSlot, Started
  <2> QED BY <1>9, <2>1 DEF OnSetName, OnSetUrl
<1>10. CASE OnSetPassword \/ OnCopy
  BY <1>5, <1>6, <1>10 DEF OnSetPassword, OnCopy, StartSlot, Started
<1>11. CASE OnDeleteFinished
  BY <1>5, <1>11 DEF OnDeleteFinished, StartSlot, Started
<1>12. CASE OnAdd \/ OnConfigure
  BY <1>5, <1>12 DEF OnAdd, OnConfigure, StartSlot, Started
<1>13. CASE OnPaste \/ OnLoadContainer
  BY <1>5, <1>13 DEF OnPaste, OnLoadContainer, StartSlot, Started
<1>14. CASE OnDownloadingActivate \/ OnDownloadingDeactivate
  BY <1>5, <1>14 DEF OnDownloadingActivate, OnDownloadingDeactivate, StartSlot, Started
<1> QED BY <1>2, <1>3, <1>4, <1>8, <1>9, <1>10, <1>11, <1>12, <1>13, <1>14 DEF UserStep

\* and so does every step.
LEMMA FlagsStay ==
  ASSUME FlagTypes, [Next]_vars
  PROVE  FlagTypes'
<1>1. CASE UNCHANGED vars
  BY <1>1 DEF vars, FlagTypes, daemonVars, socketVars, callVars, listVars, threadVars
<1>2. CASE UserStep
  <2>1. CASE Answered
    BY <2>1 DEF Answered, FlagTypes, daemonVars, socketVars, callVars, listVars
  <2>2. CASE Started
    BY <2>2, ZenonT(60) DEF Started, FlagTypes, daemonVars
  <2>3. CASE OnConnect
    BY <2>3 DEF OnConnect, FlagTypes, daemonVars, socketVars, callVars, listVars
  <2> QED BY <1>2, <2>1, <2>2, <2>3, UserStepsAre
<1>3. CASE SendMessage
  BY <1>3 DEF SendMessage, FlagTypes, daemonVars, callVars, listVars, threadVars
<1>4. CASE Serve
  <2>1. missed' \in BOOLEAN /\ reordered' \in BOOLEAN
    BY <1>4, PostFlags DEF Serve
  <2>2. doubled' \in BOOLEAN
    BY <1>4 DEF Serve
  <2> QED BY <1>4, <2>1, <2>2 DEF Serve, FlagTypes, callVars, listVars, threadVars
<1>5. CASE Elsewhere
  <2>1. missed' \in BOOLEAN /\ reordered' \in BOOLEAN
    BY <1>5, PostFlags DEF Elsewhere
  <2> QED BY <1>5, <2>1 DEF Elsewhere, FlagTypes, callVars, listVars, threadVars
<1>6. CASE PurgeDownload
  <2>1. missed' \in BOOLEAN
    BY <1>6, PostFlags DEF PurgeDownload
  <2> QED BY <1>6, <2>1 DEF PurgeDownload, FlagTypes, callVars, listVars, threadVars
<1>7. CASE Break
  BY <1>7 DEF Break, FlagTypes, daemonVars, callVars, listVars, threadVars
<1> QED BY <1>1, <1>2, <1>3, <1>4, <1>5, <1>6, <1>7, ProgramFlags DEF Next, HandlerStep

--------------------------------------------------------------------------------
(* Where the threads are, and what they hold there.                          *)

Listing == {"list", "listed"}
Calling == {"listed", "answered", "subscribed"}
EventKinds == {"full", "subs", "clear"}
Located == /\ at \in [Threads -> Places] /\ lmx \in Threads \cup {NoThread}
           /\ mx \in Threads \cup {NoThread}
           /\ \A t \in Threads : lmx = t <=> at[t] \in Listing
           /\ \A t \in Threads : mx = t => at[t] \in Calling

\* A thread goes on while it does not hold mx, or takes it; and takes lmx when it
\* comes to fetch a list, and gives it back when it has it.
MovesOne(t, b) ==
  /\ Goto(t, b) /\ mx # t
  /\ mx' = mx \/ (mx = NoThread /\ mx' = t /\ b \in Calling)
  /\ \/ lmx' = lmx /\ (at[t] \in Listing <=> b \in Listing)
     \/ lmx = NoThread /\ lmx' = t /\ at[t] \notin Listing /\ b \in Listing
     \/ lmx' = NoThread /\ at[t] \in Listing /\ b \notin Listing
Steps == \/ UNCHANGED <<at, lmx>> /\ mx' \in {mx, NoThread}
         \/ \E t \in Threads, b \in Places : MovesOne(t, b)
         \/ /\ at' = [at EXCEPT ![Gui] = "reload", ![Updater] = "first"]
            /\ at[Gui] = "joining" /\ at[Updater] = "ended"
            /\ UNCHANGED <<mx, lmx>>

\* Such steps keep the threads and the mutexes where they belong.
LEMMA MovesKeep ==
  ASSUME Located, Steps
  PROVE  Located'
<1> USE ThreadAssumption DEF Threads
<1>1. CASE UNCHANGED <<at, lmx>> /\ mx' \in {mx, NoThread}
  BY <1>1 DEF Located
<1>2. ASSUME NEW t \in Threads, NEW b \in Places, MovesOne(t, b) PROVE Located'
  <2>1. at' \in [Threads -> Places] /\ at'[t] = b
        /\ \A u \in Threads : u # t => at'[u] = at[u]
    BY <1>2 DEF Located, MovesOne, Goto
  <2>2. mx' \in Threads \cup {NoThread} /\ lmx' \in Threads \cup {NoThread}
    BY <1>2 DEF Located, MovesOne
  <2>3. \A u \in Threads : lmx' = u <=> at'[u] \in Listing
    BY <1>2, <2>1 DEF Located, MovesOne
  <2>4. \A u \in Threads : mx' = u => at'[u] \in Calling
    BY <1>2, <2>1 DEF Located, MovesOne
  <2> QED BY <2>1, <2>2, <2>3, <2>4 DEF Located
<1>3. CASE /\ at' = [at EXCEPT ![Gui] = "reload", ![Updater] = "first"]
           /\ at[Gui] = "joining" /\ at[Updater] = "ended"
           /\ UNCHANGED <<mx, lmx>>
  <2>1. at' \in [Threads -> Places] /\ at'[Gui] = "reload" /\ at'[Updater] = "first"
    BY <1>3 DEF Located, Places
  <2> QED BY <1>3, <2>1 DEF Located, Listing, Calling
<1> QED BY <1>1, <1>2, <1>3 DEF Steps

\* So do all steps.
LEMMA ThreadMoves ==
  ASSUME Located, CallInv, NEW t \in Threads, ThreadStep(t)
  PROVE  Steps
<1> USE ThreadAssumption DEF Steps
<1>1. CASE SendNext(t)
  BY <1>1 DEF SendNext, listVars, threadVars
<1>2. CASE Receive(t)
  BY <1>2 DEF Receive, listVars, threadVars
<1>3. CASE ReceiveNothing(t)
  BY <1>3 DEF ReceiveNothing, listVars, threadVars
<1>4. CASE PrepareFullList(t)
  <2>1. MovesOne(t, "list")
    BY <1>4 DEF PrepareFullList, MovesOne, callVars, Listing, Calling, Located
  <2> QED BY <2>1 DEF Places
<1>5. ASSUME ListReady(t), at[t] \in Listing, mx # t, mx' = mx PROVE Steps
  <2>1. PICK b \in {"loop", "subscribe", "connecting", "reset", "idle"} : Goto(t, b)
    BY <1>5 DEF ListReady
  <2>2. MovesOne(t, b)
    BY <1>5, <2>1 DEF ListReady, MovesOne, Listing
  <2> QED BY <2>1, <2>2 DEF Places
<1>6. CASE RequestList(t)
  <2>1. CASE Begin(t, GetList)
    <3>1. MovesOne(t, "listed")
      BY <1>6, <2>1 DEF RequestList, ListReady, Refused, Begin, MovesOne, Listing, Calling, Located, Threads
    <3> QED BY <3>1 DEF Places
  <2>2. CASE Refused /\ ListReady(t)
    <3>1. mx # t /\ mx' = mx /\ at[t] \in Listing
      BY <1>6, <2>2 DEF RequestList, Refused, Listing, Threads
    <3> QED BY <1>5, <2>2, <3>1
  <2> QED BY <1>6, <2>1, <2>2 DEF RequestList
<1>7. CASE ListReturns(t)
  <2>1. mx # t /\ mx' = mx /\ at[t] \in Listing /\ ListReady(t)
    BY <1>7 DEF ListReturns, Returned, Listing
  <2> QED BY <1>5, <2>1
<1> QED BY <1>1, <1>2, <1>3, <1>4, <1>6, <1>7 DEF ThreadStep

\* What the two threads do are such steps,
LEMMA ProgramMoves ==
  ASSUME Located, CallInv, UpdaterStep \/ GuiStep
  PROVE  Steps
<1> USE ThreadAssumption DEF Steps
<1>1. CASE ThreadStep(Updater) \/ ThreadStep(Gui)
  BY <1>1, ThreadMoves DEF Threads
<1>2. Gui \in Threads /\ Updater \in Threads
  BY DEF Threads
<1>3. CASE FirstCheck
  <2>1. MovesOne(Updater, "reload")
    BY <1>2, <1>3 DEF FirstCheck, MovesOne, listVars, Listing, Threads
  <2> QED BY <1>2, <2>1 DEF Places
<1>4. CASE RequestSubscription
  <2>1. MovesOne(Updater, "subscribed") \/ MovesOne(Updater, "ended")
    BY <1>2, <1>4 DEF RequestSubscription, Begin, Refused, MovesOne, listVars, Listing, Calling, Threads
  <2> QED BY <1>2, <2>1 DEF Places
<1>5. CASE SubscriptionReturns
  <2>1. MovesOne(Updater, "loop")
    BY <1>5 DEF SubscriptionReturns, Returned, MovesOne, listVars, Listing
  <2> QED BY <1>2, <2>1 DEF Places
<1>6. CASE LoopEnds
  <2>1. MovesOne(Updater, "ended")
    BY <1>2, <1>6 DEF LoopEnds, MovesOne, listVars, callVars, Listing, Calling, Located
  <2> QED BY <1>2, <2>1 DEF Places
<1>7. CASE LoopChecks
  <2>1. MovesOne(Updater, "paused") \/ MovesOne(Updater, "reload")
    BY <1>2, <1>7 DEF LoopChecks, MovesOne, listVars, Listing, Threads
  <2> QED BY <1>2, <2>1 DEF Places
<1>8. CASE EnterUpdates
  <2>1. MovesOne(Updater, "updates") \/ MovesOne(Updater, "loop")
    BY <1>2, <1>8 DEF EnterUpdates, MovesOne, Listing, Threads
  <2> QED BY <1>2, <2>1 DEF Places
<1>9. CASE GetUpdates
  <2>1. MovesOne(Updater, "prepare")
    BY <1>2, <1>9 DEF GetUpdates, MovesOne, listVars, Listing, Threads
  <2> QED BY <1>2, <2>1 DEF Places
<1>10. CASE PrepareUpdates
  <2>1. MovesOne(Updater, "list") \/ MovesOne(Updater, "loop")
    BY <1>2, <1>10 DEF PrepareUpdates, MovesOne, callVars, Listing, Calling, Located
  <2> QED BY <1>2, <2>1 DEF Places
<1>11. CASE HandleEvent
  BY <1>11 DEF HandleEvent, threadVars
<1>12. ASSUME NEW b, Goto(Gui, b), b \in Places \ Listing, mx # Gui, at[Gui] \notin Listing,
              UNCHANGED <<mx, lmx>>
       PROVE  Steps
  <2>1. MovesOne(Gui, b)
    BY <1>12 DEF MovesOne
  <2> QED BY <1>2, <1>12, <2>1
<1>13. \A c \in DOMAIN Follow : Follow[c][1] \in {"dialog", "command", "input"}
  BY DEF Follow
<1>14. ASSUME EndCommand \/ (FollowUp /\ slot.command \in DOMAIN Follow),
              mx # Gui, at[Gui] \notin Listing, UNCHANGED <<mx, lmx>>
       PROVE  Steps
  <2>1. PICK b \in {"idle", "reload", "dialog", "command", "input"} : Goto(Gui, b)
    BY <1>13, <1>14 DEF EndCommand, FollowUp
  <2>2. b \in Places \ Listing
    BY DEF Places, Listing
  <2> QED BY <1>12, <1>14, <2>1, <2>2
<1>15. CASE SendCommand
  <2>1. CASE \E id : Begin(Gui, Calls(slot.command, id)) /\ Goto(Gui, "answered")
    <3>1. MovesOne(Gui, "answered")
      BY <1>2, <1>15, <2>1 DEF SendCommand, Begin, MovesOne, listVars, Listing, Calling, Threads
    <3> QED BY <1>2, <3>1 DEF Places
  <2>2. CASE CallRefused
    <3>1. mx # Gui /\ at[Gui] \notin Listing /\ UNCHANGED <<mx, lmx>>
      BY <1>2, <1>15, <2>2 DEF SendCommand, CallRefused, Refused, listVars, Listing, Threads
    <3>2. CASE slot.command \in {"PACKAGES", "VARS", "GET"}
      <4>1. FollowUp /\ slot.command \in DOMAIN Follow
        BY <2>2, <3>2 DEF CallRefused, Follow
      <4> QED BY <1>14, <3>1, <4>1
    <3>3. CASE slot.command = "PASSWORD"
      <4>1. Goto(Gui, "crashed")
        BY <2>2, <3>3 DEF CallRefused
      <4>2. "crashed" \in Places \ Listing
        BY DEF Places, Listing
      <4> QED BY <1>12, <3>1, <4>1, <4>2
    <3>4. CASE slot.command \notin {"PACKAGES", "VARS", "GET", "PASSWORD"}
      <4>1. EndCommand
        BY <2>2, <3>4 DEF CallRefused
      <4> QED BY <1>14, <3>1, <4>1
    <3> QED BY <3>2, <3>3, <3>4
  <2> QED BY <1>15, <2>1, <2>2 DEF SendCommand
<1>16. CASE RowIsGone
  <2>1. mx # Gui /\ at[Gui] \notin Listing /\ UNCHANGED <<mx, lmx>> /\ Goto(Gui, "crashed")
    BY <1>2, <1>16 DEF RowIsGone, callVars, listVars, Listing, Located, Calling
  <2>2. "crashed" \in Places \ Listing
    BY DEF Places, Listing
  <2> QED BY <1>12, <2>1, <2>2
<1>17. CASE CommandReturns
  <2>1. mx # Gui /\ at[Gui] \notin Listing /\ UNCHANGED <<mx, lmx>>
    BY <1>17 DEF CommandReturns, Returned, listVars, Listing
  <2>2. \/ Goto(Gui, "askFile") \/ Goto(Gui, "captcha")
        \/ EndCommand \/ (FollowUp /\ slot.command \in DOMAIN Follow)
    BY <1>17 DEF CommandReturns
  <2>3. "askFile" \in Places \ Listing /\ "captcha" \in Places \ Listing
    BY DEF Places, Listing
  <2> QED BY <1>12, <1>14, <2>1, <2>2, <2>3
<1>18. CASE Connect
  <2>1. mx # Gui /\ at[Gui] \notin Listing /\ UNCHANGED <<mx, lmx>>
    BY <1>2, <1>18 DEF Connect, callVars, listVars, Listing, Threads
  <2>2. Goto(Gui, "dialog") \/ Goto(Gui, "joining")
    BY <1>18 DEF Connect
  <2>3. "dialog" \in Places \ Listing /\ "joining" \in Places \ Listing
    BY DEF Places, Listing
  <2> QED BY <1>12, <2>1, <2>2, <2>3
<1>19. CASE Join
  BY <1>19 DEF Join, callVars, listVars
<1>20. CASE ResetTerm
  <2>1. mx # Gui /\ at[Gui] \notin Listing /\ UNCHANGED <<mx, lmx>> /\ Goto(Gui, "idle")
    BY <1>2, <1>20 DEF ResetTerm, callVars, listVars, Listing, Threads
  <2>2. "idle" \in Places \ Listing
    BY DEF Places, Listing
  <2> QED BY <1>12, <2>1, <2>2
<1> QED BY <1>1, <1>3, <1>4, <1>5, <1>6, <1>7, <1>8, <1>9, <1>10, <1>11, <1>15, <1>16, <1>17,
           <1>18, <1>19, <1>20 DEF UpdaterStep, GuiStep

\* and all that happens is.
LEMMA NextMoves ==
  ASSUME Located, CallInv, [Next]_vars
  PROVE  Steps
<1> USE ThreadAssumption
<1>1. CASE UNCHANGED vars
  BY <1>1 DEF vars, callVars, listVars, threadVars, Steps
<1>2. CASE UserStep
  <2>1. Gui \in Threads
    BY DEF Threads
  <2>2. ASSUME NEW b \in {"command", "confirm", "input", "reload", "idle", "dialog"},
               Goto(Gui, b), mx # Gui, at[Gui] \notin Listing, UNCHANGED <<mx, lmx>>
        PROVE  Steps
    <3>1. MovesOne(Gui, b)
      BY <2>2 DEF MovesOne, Listing
    <3> QED BY <2>1, <3>1 DEF Steps, Places
  <2>3. CASE Answered
    <3>1. mx # Gui /\ at[Gui] \notin Listing /\ UNCHANGED <<mx, lmx>>
      BY <2>1, <2>3 DEF Answered, callVars, listVars, Located, Listing, Calling
    <3> QED BY <2>2, <2>3, <3>1 DEF Answered
  <2>4. CASE Started
    <3>1. mx # Gui /\ at[Gui] \notin Listing /\ UNCHANGED <<mx, lmx>>
      BY <2>1, <2>4 DEF Started, Located, Listing, Threads
    <3> QED BY <2>2, <2>4, <3>1 DEF Started, LeadsOn, Steps
  <2>5. CASE OnConnect
    <3>1. mx # Gui /\ at[Gui] \notin Listing /\ UNCHANGED <<mx, lmx>> /\ Goto(Gui, "dialog")
      BY <2>1, <2>5 DEF OnConnect, Without, callVars, listVars, Located, Listing, Calling
    <3> QED BY <2>2, <3>1
  <2> QED BY <1>2, <2>3, <2>4, <2>5, UserStepsAre
<1>3. CASE SendMessage \/ Serve \/ Elsewhere \/ PurgeDownload \/ Break
  BY <1>3 DEF SendMessage, Serve, Elsewhere, PurgeDownload, Break, callVars, listVars, threadVars, Steps
<1> QED BY <1>1, <1>2, <1>3, ProgramMoves DEF Next, HandlerStep

--------------------------------------------------------------------------------
(* The lists and the messages.                                              *)

\* What comes on the connection: a message, or an answer, with a list to "LIST".
ProperAnswer(m) == IsAnswer(m) /\ (m.command = "LIST" => m.value \in ProperLists)
ProperItems(c) == /\ IsSequence(c)
                  /\ \A i \in DOMAIN c : c[i] \in Messages \/ ProperAnswer(c[i])

ProgramTypes == list \in ProperLists /\ doomed \subseteq 0 .. MaxId /\ Ids(list) \cap doomed = {}
WindowTypes == /\ view \in ProperLists /\ newContent \in ProperLists
               /\ events \in Seq(EventKinds)
StreamTypes == /\ queue \in Seq(Messages) /\ stash \in Seq(Messages)
               /\ batch \in Seq(Messages) /\ newUpdates \in Seq(Messages)
               /\ ProperItems(channel)
               /\ \A t \in Threads : got[t].command = "LIST" /\ got[t].value # NoAnswer =>
                    got[t].value \in ProperLists
DataTypes == ProgramTypes /\ WindowTypes /\ StreamTypes

\* A message is no answer.
LEMMA MessagesAre ==
  ASSUME NEW m \in Messages
  PROVE  ~IsAnswer(m) /\ m.kind \in MessageKinds /\ m.id \in 0 .. MaxId /\ m.on \in BOOLEAN
<1>1. m.kind \in MessageKinds /\ m.id \in 0 .. MaxId /\ m.on \in BOOLEAN
  BY DEF Messages
<1> QED BY <1>1 DEF MessageKinds, Directions, IsAnswer

\* Items stay items when one is added, taken away, or all are passed over.
LEMMA ItemsAppend ==
  ASSUME NEW c, ProperItems(c), NEW m, m \in Messages \/ ProperAnswer(m)
  PROVE  ProperItems(Append(c, m))
BY AppendIsSequence DEF ProperItems

\* So do those behind the first one, and the first one is an item.
LEMMA ItemsTail ==
  ASSUME NEW c, ProperItems(c), c # <<>>
  PROVE  /\ ProperItems(Tail(c))
         /\ Head(c) \in Messages \/ ProperAnswer(Head(c))
BY TailIsSequence DEF ProperItems

\* Some after others are items if both are.
LEMMA ItemsConcat ==
  ASSUME NEW c, ProperItems(c), NEW e, ProperItems(e)
  PROVE  ProperItems(c \o e)
<1>1. IsSequence(c) /\ IsSequence(e)
  BY DEF ProperItems
<1>2. /\ IsSequence(c \o e)
      /\ \A i \in DOMAIN c : (c \o e)[i] = c[i]
      /\ \A i \in DOMAIN (c \o e) : i \notin DOMAIN c =>
           i - Len(c) \in DOMAIN e /\ (c \o e)[i] = e[i - Len(c)]
  BY <1>1, ConcatIsSequence
<1>3. PICK s : s = c \o e
  OBVIOUS
<1>4. \A i \in DOMAIN s : s[i] \in Messages \/ ProperAnswer(s[i])
  <2> TAKE i \in DOMAIN s
  <2>1. CASE i \in DOMAIN c
    BY <1>2, <1>3, <2>1 DEF ProperItems
  <2>2. CASE i \notin DOMAIN c
    <3>1. PICK k : k = i - Len(c)
      OBVIOUS
    <3>2. k \in DOMAIN e /\ s[i] = e[k]
      BY <1>2, <1>3, <2>2, <3>1
    <3> QED BY <3>2 DEF ProperItems
  <2> QED BY <2>1, <2>2
<1> QED BY <1>2, <1>3, <1>4 DEF ProperItems

\* The items before the first answer are messages, and those behind it items.
LEMMA ItemsParts ==
  ASSUME NEW c, ProperItems(c), NEW i \in DOMAIN c,
         \A j \in DOMAIN c : IsAnswer(c[j]) => i <= j
  PROVE  /\ SubSeq(c, 1, i - 1) \in Seq(Messages)
         /\ ProperItems(SubSeq(c, i + 1, Len(c)))
<1>1. PICK S : c \in Seq(S)
  BY DEF ProperItems, IsSequence
<1> DEFINE a == SubSeq(c, 1, i - 1)
           b == SubSeq(c, i + 1, Len(c))
<1>2. /\ a \in Seq(S) /\ b \in Seq(S) /\ Len(a) = i - 1 /\ Len(b) = Len(c) - i
      /\ \A k \in 1 .. i - 1 : a[k] = c[k]
      /\ \A k \in 1 .. Len(c) - i : b[k] = c[i + k]
  BY <1>1, Parts
<1>3. Len(c) \in Nat /\ DOMAIN c = 1 .. Len(c) /\ i \in 1 .. Len(c)
  BY <1>1
<1>4. DOMAIN a = 1 .. i - 1 /\ DOMAIN b = 1 .. Len(c) - i
  BY <1>1, <1>2
<1> HIDE DEF a, b
<1>5. \A k \in 1 .. Len(a) : a[k] \in Messages
  <2> TAKE k \in 1 .. Len(a)
  <2>1. k \in DOMAIN c /\ k < i /\ a[k] = c[k]
    BY <1>2, <1>3
  <2>2. ~IsAnswer(c[k])
    BY <1>3, <2>1
  <2> QED BY <2>1, <2>2 DEF ProperItems, ProperAnswer
<1>6. a \in Seq(Messages)
  <2>1. a \in Seq(S) /\ Len(a) \in Nat /\ DOMAIN a = 1 .. Len(a)
    BY <1>2
  <2> QED BY <1>5, <2>1
<1>7. \A k \in DOMAIN b : i + k \in DOMAIN c /\ b[k] = c[i + k]
  BY <1>2, <1>3, <1>4
<1>8. ProperItems(b)
  BY <1>2, <1>7 DEF ProperItems, IsSequence
<1> QED BY <1>6, <1>8 DEF a, b

\* What is kept of them are messages.
LEMMA ItemsKept ==
  ASSUME NEW c, ProperItems(c)
  PROVE  Kept(c, Messages) \in Seq(Messages)
<1>1. PICK S : c \in Seq(S)
  BY DEF ProperItems, IsSequence
<1>2. Kept(c, Messages) \in Seq(S \cap Messages)
  BY <1>1, KeptFacts
<1> QED BY <1>2

\* A check of the connection leaves the messages and the items what they are.
LEMMA HelloKeeps ==
  ASSUME stash \in Seq(Messages), ProperItems(channel), Hello
  PROVE  stash' \in Seq(Messages) /\ ProperItems(channel')
<1> DEFINE early == {i \in DOMAIN channel : IsAnswer(channel[i])}
           first == CHOOSE i \in early : \A j \in early : i <= j
<1>1. CASE up /\ early # {}
  <2>1. early \subseteq Nat
    <3>1. PICK S : channel \in Seq(S)
      BY DEF ProperItems, IsSequence
    <3> QED BY <3>1
  <2>2. \E m \in early : \A k \in early : m <= k
    BY <1>1, <2>1, LeastNatural
  <2>3. first \in early /\ \A j \in early : first <= j
    BY <2>2
  <2>4. PICK i : i = first
    OBVIOUS
  <2>5. i \in DOMAIN channel /\ \A j \in DOMAIN channel : IsAnswer(channel[j]) => i <= j
    BY <2>3, <2>4
  <2>6. /\ stash' = stash \o SubSeq(channel, 1, i - 1)
        /\ channel' = Append(SubSeq(channel, i + 1, Len(channel)), Answer("HELLO", "done"))
    BY <1>1, <2>4 DEF Hello
  <2>7. /\ SubSeq(channel, 1, i - 1) \in Seq(Messages)
        /\ ProperItems(SubSeq(channel, i + 1, Len(channel)))
    BY <2>5, ItemsParts
  <2>8. ProperAnswer(Answer("HELLO", "done"))
    BY DEF ProperAnswer, Answer, IsAnswer
  <2> QED BY <2>6, <2>7, <2>8, ItemsAppend
<1>2. CASE ~(up /\ early # {})
  <2>1. stash' = stash \o Kept(channel, Messages) /\ channel' = <<>>
    BY <1>2 DEF Hello
  <2>2. Kept(channel, Messages) \in Seq(Messages)
    BY ItemsKept
  <2>3. ProperItems(channel')
    BY <2>1, EmptyIsSequence DEF ProperItems
  <2> QED BY <2>1, <2>2, <2>3
<1> QED BY <1>1, <1>2

--------------------------------------------------------------------------------
(* Most steps leave the lists and the messages alone, but for a check of the *)
(* connection, what is thrown away, and the reloads that are asked for.      *)

Passes == \/ UNCHANGED <<stash, channel>>
          \/ UNCHANGED stash /\ channel' = <<>>
          \/ Hello
Asks == UNCHANGED events \/ \E kind \in EventKinds : events' = Append(events, kind)
Carries == /\ UNCHANGED <<list, doomed, batch, newUpdates, view>>
           /\ queue' \in {queue, <<>>}
           /\ newContent' \in {newContent, <<>>}
           /\ Passes /\ Asks
           /\ UNCHANGED got \/ \E t \in Threads : Consume(t)

\* An answer that was used up is none.
LEMMA ConsumedIsNone ==
  ASSUME DOMAIN got = Threads, NEW t \in Threads, Consume(t)
  PROVE  /\ got'[t].command = "none"
         /\ \A u \in Threads : u # t => got'[u] = got[u]
BY DEF Consume, Nothing

\* The empty list is a list.
LEMMA EmptyIsProper == <<>> \in ProperLists
BY DEF ProperLists, DownloadLists, Distinct

\* The reloads that are asked for are reloads.
LEMMA AsksTypes ==
  ASSUME events \in Seq(EventKinds), Asks
  PROVE  events' \in Seq(EventKinds)
BY DEF Asks

\* Such steps keep the types of the lists and the messages.
LEMMA CarriesKeeps ==
  ASSUME DataTypes, DOMAIN got = Threads, Carries
  PROVE  DataTypes'
<1>1. ProgramTypes'
  BY DEF Carries, DataTypes, ProgramTypes
<1>2. newContent' \in ProperLists
  BY EmptyIsProper DEF Carries, DataTypes, WindowTypes
<1>3. events' \in Seq(EventKinds)
  BY AsksTypes DEF Carries, DataTypes, WindowTypes
<1>4. view' \in ProperLists
  BY DEF Carries, DataTypes, WindowTypes
<1>5. stash' \in Seq(Messages) /\ ProperItems(channel')
  <2>1. stash \in Seq(Messages) /\ ProperItems(channel)
    BY DEF DataTypes, StreamTypes
  <2>2. CASE UNCHANGED <<stash, channel>>
    BY <2>1, <2>2
  <2>3. CASE UNCHANGED stash /\ channel' = <<>>
    BY <2>1, <2>3, EmptyIsSequence DEF ProperItems
  <2>4. CASE Hello
    BY <2>1, <2>4, HelloKeeps
  <2> QED BY <2>2, <2>3, <2>4 DEF Carries, Passes
<1>6. \A t \in Threads : got'[t].command = "LIST" /\ got'[t].value # NoAnswer =>
         got'[t].value \in ProperLists
  BY ConsumedIsNone DEF Carries, DataTypes, StreamTypes
<1>7. queue' \in Seq(Messages) /\ batch' \in Seq(Messages) /\ newUpdates' \in Seq(Messages)
  <2>1. batch' = batch /\ newUpdates' = newUpdates /\ (queue' = queue \/ queue' = <<>>)
    BY DEF Carries
  <2>2. queue' \in Seq(Messages)
    <3>1. queue \in Seq(Messages) /\ <<>> \in Seq(Messages)
      BY DEF DataTypes, StreamTypes
    <3> QED BY <2>1, <3>1
  <2> QED BY <2>1, <2>2 DEF DataTypes, StreamTypes
<1> QED BY <1>1, <1>2, <1>3, <1>4, <1>5, <1>6, <1>7 DEF DataTypes, WindowTypes, StreamTypes

\* What the threads do, but for the steps below, is that.
LEMMA ThreadCarries ==
  ASSUME NEW t \in Threads,
         SendNext(t) \/ PrepareFullList(t) \/ RequestList(t)
  PROVE  Carries
<1> USE DEF Carries, Passes, Asks, EventKinds
<1>1. CASE SendNext(t)
  BY <1>1 DEF SendNext, daemonVars, listVars, threadVars
<1>2. CASE PrepareFullList(t)
  BY <1>2 DEF PrepareFullList, daemonVars, socketVars, callVars
<1>3. CASE RequestList(t)
  <2>1. ListReady(t) => Asks
    BY DEF ListReady
  <2> QED BY <1>3, <2>1 DEF RequestList, Begin, Refused, daemonVars
<1> QED BY <1>1, <1>2, <1>3

\* So is what update_thread does outside of a list,
LEMMA UpdaterCarries ==
  ASSUME \/ FirstCheck \/ RequestSubscription \/ SubscriptionReturns
         \/ LoopEnds \/ LoopChecks \/ EnterUpdates
  PROVE  Carries
<1> USE DEF Carries, Passes, Asks, EventKinds
<1>1. CASE FirstCheck
  BY <1>1 DEF FirstCheck, daemonVars, listVars
<1>2. CASE RequestSubscription
  BY <1>2 DEF RequestSubscription, Begin, Refused, daemonVars, listVars
<1>3. CASE SubscriptionReturns
  BY <1>3 DEF SubscriptionReturns, daemonVars, socketVars, listVars, Threads
<1>4. CASE LoopEnds
  BY <1>4 DEF LoopEnds, daemonVars, socketVars, callVars, listVars
<1>5. CASE LoopChecks
  BY <1>5 DEF LoopChecks, daemonVars, listVars
<1>6. CASE EnterUpdates
  BY <1>6 DEF EnterUpdates, daemonVars
<1> QED BY <1>1, <1>2, <1>3, <1>4, <1>5, <1>6

\* what the slots do,
LEMMA GuiCarries ==
  ASSUME SendCommand \/ RowIsGone \/ CommandReturns \/ Connect \/ Join \/ ResetTerm
  PROVE  Carries
<1> USE DEF Carries, Passes, Asks, EventKinds
<1>1. CASE SendCommand
  BY <1>1 DEF SendCommand, Begin, CallRefused, Refused, daemonVars, listVars
<1>2. CASE RowIsGone
  BY <1>2 DEF RowIsGone, daemonVars, socketVars, callVars, listVars
<1>3. CASE CommandReturns
  BY <1>3 DEF CommandReturns, daemonVars, socketVars, listVars, Threads
<1>4. CASE Connect
  BY <1>4 DEF Connect, daemonVars, socketVars, callVars, listVars
<1>5. CASE Join
  BY <1>5 DEF Join, daemonVars, socketVars, callVars, listVars
<1>6. CASE ResetTerm
  BY <1>6 DEF ResetTerm, daemonVars, socketVars, callVars, listVars
<1> QED BY <1>1, <1>2, <1>3, <1>4, <1>5, <1>6

\* and what the user does, a connection that breaks, and a step that does nothing.
LEMMA OtherCarries ==
  ASSUME UserStep \/ Break \/ UNCHANGED vars
  PROVE  Carries
<1> USE DEF Carries, Passes, Asks, EventKinds
<1>1. CASE Answered
  BY <1>1 DEF Answered, daemonVars, socketVars, callVars, listVars
<1>2. CASE Started
  BY <1>2 DEF Started, daemonVars
<1>3. CASE OnConnect
  BY <1>3 DEF OnConnect, daemonVars, socketVars, callVars, listVars
<1>4. CASE Break
  BY <1>4 DEF Break, daemonVars, callVars, listVars, threadVars
<1>5. CASE UNCHANGED vars
  BY <1>5 DEF vars, daemonVars, socketVars, callVars, listVars, threadVars
<1> QED BY <1>1, <1>2, <1>3, <1>4, <1>5, UserStepsAre

--------------------------------------------------------------------------------
(* What changes the program's list.                                         *)

\* A change is announced by the message that is posted with it, but a deletion,
\* which is announced by the purge; and when a new id is one that a message under
\* way still says is deleted, the order may be lost.
Reuses(m) == \E i \in DOMAIN UnderWay : UnderWay[i].kind = "DELETE" /\ UnderWay[i].id = m.id
Announced == \E m : /\ Announces(m, list, doomed, list', doomed') /\ Post(m)
                    /\ (reordered \/ (m.kind = "NEW" /\ Reuses(m))) => reordered'
ListChanges == Announced \/ \E id \in 0 .. MaxId : DeleteDownload(id)

\* The kinds of change there are.
LEMMA ChangesAre ==
  ASSUME ProgramTypes, FlagTypes
  PROVE  /\ AddDownload => Announced
         /\ \A id : DeleteDownload(id) => ListChanges
         /\ \A id : \A on \in BOOLEAN : SwitchDownload(id, on) => Announced
         /\ \A id : \A d \in Directions : MoveDownload(id, d) => Announced
<1> USE DEF ProgramTypes
<1>1. ASSUME AddDownload PROVE Announced
  <2>1. NextId \in 0 .. MaxId /\ NextId \notin Ids(list) \cup doomed
    <3>1. list \in DownloadLists
      BY DEF ProperLists
    <3>2. NextId \in Nat /\ NextId \notin Ids(list) \cup doomed
      BY <3>1, NextIdIsNew
    <3>3. NextId <= MaxId
      BY <1>1 DEF AddDownload
    <3> QED BY <3>2, <3>3, BoundAssumption
  <2>2. PICK m : m = Message("NEW", NextId, TRUE)
    OBVIOUS
  <2>3. m.kind = "NEW" /\ m.id = NextId
    BY <2>2 DEF Message
  <2>4. list' = Append(list, Entry(NextId, TRUE)) /\ doomed' = doomed /\ Post(m)
    BY <1>1, <2>2 DEF AddDownload
  <2>5. Announces(m, list, doomed, list', doomed')
    BY <2>1, <2>2, <2>4, AddedAnnounces
  <2>6. (reordered \/ (m.kind = "NEW" /\ Reuses(m))) => reordered'
    <3>1. reordered' = (reordered \/ \E i \in DOMAIN UnderWay : /\ UnderWay[i].kind = "DELETE"
                                                             /\ UnderWay[i].id = NextId)
      BY <1>1 DEF AddDownload
    <3>2. Reuses(m) => \E i \in DOMAIN UnderWay : /\ UnderWay[i].kind = "DELETE"
                                                 /\ UnderWay[i].id = NextId
      BY <2>3 DEF Reuses
    <3> QED BY <3>1, <3>2
  <2> QED BY <2>4, <2>5, <2>6 DEF Announced
<1>2. ASSUME NEW id, DeleteDownload(id) PROVE ListChanges
  <2>1. list \in DownloadLists /\ id \in Ids(list)
    BY <1>2 DEF DeleteDownload, ProperLists
  <2>2. id \in 0 .. MaxId
    BY <2>1, ListEntries DEF Ids
  <2> QED BY <1>2, <2>2 DEF ListChanges
<1>3. ASSUME NEW id, NEW on \in BOOLEAN, SwitchDownload(id, on) PROVE Announced
  <2>1. PICK m : m = Message("UPDATE", id, on)
    OBVIOUS
  <2>2. m.kind # "NEW"
    BY <2>1 DEF Message
  <2>3. /\ list' = Switched(list, id, on) /\ doomed' = doomed /\ reordered' = reordered
        /\ Post(m) /\ Entry(id, ~on) \in ToSet(list)
    BY <1>3, <2>1 DEF SwitchDownload, ToSet
  <2>4. Announces(m, list, doomed, list', doomed')
    BY <2>1, <2>3, SwitchedAnnounces
  <2>5. (reordered \/ (m.kind = "NEW" /\ Reuses(m))) => reordered'
    BY <2>2, <2>3 DEF FlagTypes
  <2> QED BY <2>3, <2>4, <2>5 DEF Announced
<1>4. ASSUME NEW id, NEW d \in Directions, MoveDownload(id, d) PROVE Announced
  <2>1. PICK m : m = Message(d, id, TRUE)
    OBVIOUS
  <2>2. m.kind # "NEW"
    BY <2>1 DEF Message, Directions
  <2>3. /\ list' = Moved(list, id, d) /\ doomed' = doomed /\ reordered' = reordered
        /\ Post(m) /\ list # <<>> /\ CanMove(list, id, d)
    BY <1>4, <2>1 DEF MoveDownload
  <2>4. Announces(m, list, doomed, list', doomed')
    BY <2>1, <2>3, MovedAnnounces
  <2>5. (reordered \/ (m.kind = "NEW" /\ Reuses(m))) => reordered'
    BY <2>2, <2>3 DEF FlagTypes
  <2> QED BY <2>3, <2>4, <2>5 DEF Announced
<1>5. Announced => ListChanges
  BY DEF ListChanges
<1> QED BY <1>1, <1>2, <1>3, <1>4, <1>5

\* A command changes the list like that or not at all, and so do others,
LEMMA CommandChanges ==
  ASSUME ProgramTypes, FlagTypes, NEW r, CarryOut(r)
  PROVE  ListChanges \/ UNCHANGED <<list, doomed, reordered, queue, missed>>
<1>1. CASE r.command = "ADD" /\ AddDownload
  BY <1>1, ChangesAre DEF ListChanges
<1>2. CASE r.command = "DEL" /\ DeleteDownload(r.id)
  BY <1>2, ChangesAre
<1>3. CASE SwitchDownload(r.id, TRUE) \/ SwitchDownload(r.id, FALSE)
  BY <1>3, ChangesAre DEF ListChanges
<1>4. CASE r.command \in Directions /\ MoveDownload(r.id, r.command)
  BY <1>4, ChangesAre DEF ListChanges
<1>5. CASE UNCHANGED <<daemonVars, queue, missed>>
  BY <1>5 DEF daemonVars
<1> QED BY <1>1, <1>2, <1>3, <1>4, <1>5 DEF CarryOut

\* and downloads that are destroyed.
LEMMA OthersChange ==
  ASSUME ProgramTypes, FlagTypes, Elsewhere \/ PurgeDownload
  PROVE  ListChanges
<1>1. CASE Elsewhere
  BY <1>1, ChangesAre DEF Elsewhere, ListChanges
<1>2. CASE PurgeDownload
  <2>1. PICK id \in doomed : /\ doomed' = doomed \ {id} /\ UNCHANGED <<list, reordered>>
                             /\ Post(Message("DELETE", id, TRUE))
    BY <1>2 DEF PurgeDownload
  <2>2. PICK m : m = Message("DELETE", id, TRUE)
    OBVIOUS
  <2>3. m.kind # "NEW" /\ Post(m)
    BY <2>1, <2>2 DEF Message
  <2>4. id \in 0 .. MaxId
    BY DEF ProgramTypes
  <2>5. Announces(m, list, doomed, list', doomed')
    BY <2>1, <2>2, <2>4, PurgedAnnounces DEF ProgramTypes
  <2>6. (reordered \/ (m.kind = "NEW" /\ Reuses(m))) => reordered'
    BY <2>1, <2>3 DEF FlagTypes
  <2> QED BY <2>3, <2>5, <2>6 DEF Announced, ListChanges
<1> QED BY <1>1, <1>2

\* It stays what it should be, and what is posted are messages.
LEMMA ChangedTypes ==
  ASSUME ProgramTypes, queue \in Seq(Messages),
         ListChanges \/ UNCHANGED <<list, doomed, reordered, queue, missed>>
  PROVE  ProgramTypes' /\ queue' \in Seq(Messages)
<1>1. CASE Announced
  <2>1. PICK m : Announces(m, list, doomed, list', doomed') /\ Post(m)
    BY <1>1 DEF Announced
  <2>2. m \in Messages /\ list' \in ProperLists /\ Ids(list') \cap doomed' = {}
        /\ doomed' = DoomedThen(doomed, m)
    BY <2>1 DEF Announces
  <2>3. doomed' \subseteq 0 .. MaxId
    BY <2>2 DEF DoomedThen, ProgramTypes
  <2>4. queue' \in Seq(Messages)
    BY <2>1, <2>2 DEF Post
  <2>5. Ids(list)' = Ids(list')
    BY DEF Ids
  <2> QED BY <2>2, <2>3, <2>4, <2>5 DEF ProgramTypes
<1>2. ASSUME NEW id \in 0 .. MaxId, DeleteDownload(id)
      PROVE  ProgramTypes' /\ queue' \in Seq(Messages)
  <2>1. list' = Removed(list, id) /\ doomed' = doomed \cup {id} /\ queue' = queue
    BY <1>2 DEF DeleteDownload
  <2>2. Removed(list, id) \in ProperLists /\ Ids(Removed(list, id)) \cap (doomed \cup {id}) = {}
    BY DeletedIsGood, EmptySeq DEF ProgramTypes
  <2> QED BY <2>1, <2>2 DEF ProgramTypes, Ids
<1>3. CASE UNCHANGED <<list, doomed, reordered, queue, missed>>
  BY <1>3 DEF ProgramTypes, Ids
<1> QED BY <1>1, <1>2, <1>3 DEF ListChanges

--------------------------------------------------------------------------------
(* The steps that deal with the lists and the messages.                      *)

\* The answers of the handler are answers, to LIST with the list.
LEMMA AnswersAreProper ==
  ASSUME ProgramTypes, NEW r, NEW a \in AnswersTo(r)
  PROVE  ProperItems(a)
<1>1. \A command, v : (command = "LIST" => v \in ProperLists) =>
         ProperAnswer(Answer(command, v))
  BY DEF ProperAnswer, Answer, IsAnswer
<1>2. \A m : ProperAnswer(m) => ProperItems(<<m>>)
  <2> SUFFICES ASSUME NEW m, ProperAnswer(m) PROVE ProperItems(<<m>>)
    OBVIOUS
  <2>1. PICK c : c = <<m>>
    OBVIOUS
  <2>2. c \in Seq({m}) /\ \A i \in DOMAIN c : c[i] = m
    BY <2>1
  <2> QED BY <2>1, <2>2 DEF ProperItems, IsSequence
<1>3. CASE r.command = "LIST"
  <2>1. a = <<Answer("LIST", list)>>
    BY <1>3 DEF AnswersTo
  <2> QED BY <1>1, <1>2, <2>1 DEF ProgramTypes
<1>4. CASE r.command = "CAPTCHA"
  <2>1. \/ a = <<Answer("CAPTCHA", "none")>>
        \/ a = <<Answer("CAPTCHA", "image"), Answer("CAPTCHA", "none")>>
    BY <1>4 DEF AnswersTo
  <2>2. ProperAnswer(Answer("CAPTCHA", "none")) /\ ProperAnswer(Answer("CAPTCHA", "image"))
    BY <1>1
  <2>3. ProperItems(<<Answer("CAPTCHA", "image"), Answer("CAPTCHA", "none")>>)
    <3>1. PICK m, n : m = Answer("CAPTCHA", "image") /\ n = Answer("CAPTCHA", "none")
      OBVIOUS
    <3>2. PICK c : c = <<m, n>>
      OBVIOUS
    <3>3. c \in Seq({m, n}) /\ \A i \in DOMAIN c : c[i] = m \/ c[i] = n
      BY <3>2
    <3>4. ProperItems(c)
      BY <2>2, <3>1, <3>3 DEF ProperItems, IsSequence
    <3> QED BY <3>1, <3>2, <3>4
  <2> QED BY <1>2, <2>1, <2>2, <2>3
<1>5. CASE r.command \notin {"LIST", "CAPTCHA"}
  <2>1. \E v : a = <<Answer(r.command, v)>>
    BY <1>5 DEF AnswersTo
  <2> QED BY <1>1, <1>2, <1>5, <2>1
<1> QED BY <1>3, <1>4, <1>5

\* What the handler does keeps the types,
LEMMA HandlerKeeps ==
  ASSUME DataTypes, FlagTypes, SendMessage \/ Serve \/ Elsewhere \/ PurgeDownload
  PROVE  DataTypes'
<1>0. ProgramTypes /\ WindowTypes /\ StreamTypes /\ queue \in Seq(Messages) /\ ProperItems(channel)
  BY DEF DataTypes, StreamTypes
<1>1. /\ UNCHANGED <<view, newContent, events, stash, batch, newUpdates, got>>
  BY DEF SendMessage, Serve, Elsewhere, PurgeDownload, callVars, listVars, threadVars
<1>2. WindowTypes'
  BY <1>0, <1>1 DEF WindowTypes
<1>3. ProgramTypes' /\ queue' \in Seq(Messages) /\ ProperItems(channel')
  <2>2. CASE SendMessage
    <3>1. /\ queue # <<>> /\ queue' = Tail(queue) /\ channel' = Append(channel, Head(queue))
          /\ UNCHANGED <<list, doomed>>
      BY <2>2 DEF SendMessage, daemonVars
    <3>2. Head(queue) \in Messages /\ Tail(queue) \in Seq(Messages)
      BY <1>0, <3>1
    <3>3. ProperItems(channel')
      BY <1>0, <3>1, <3>2, ItemsAppend
    <3> QED BY <1>0, <3>1, <3>2, <3>3 DEF ProgramTypes, Ids
  <2>3. CASE Serve
    <3>1. PICK a \in AnswersTo(request) : channel' = channel \o a
      BY <2>3 DEF Serve
    <3>2. ProperItems(channel')
      BY <1>0, <3>1, AnswersAreProper, ItemsConcat
    <3>3. ListChanges \/ UNCHANGED <<list, doomed, reordered, queue, missed>>
      BY <1>0, <2>3, CommandChanges DEF Serve
    <3> QED BY <1>0, <3>2, <3>3, ChangedTypes
  <2>4. CASE Elsewhere \/ PurgeDownload
    <3>1. ListChanges /\ channel' = channel
      BY <1>0, <2>4, OthersChange DEF Elsewhere, PurgeDownload
    <3> QED BY <1>0, <3>1, ChangedTypes
  <2> QED BY <2>2, <2>3, <2>4
<1> QED BY <1>0, <1>1, <1>2, <1>3 DEF DataTypes, StreamTypes

\* and what a thread receives,
LEMMA ReceiveKeeps ==
  ASSUME DataTypes, DOMAIN got = Threads, NEW t \in Threads, Receive(t) \/ ReceiveNothing(t)
  PROVE  DataTypes'
<1>0. ProgramTypes /\ WindowTypes /\ StreamTypes /\ stash \in Seq(Messages) /\ ProperItems(channel)
  BY DEF DataTypes, StreamTypes
<1>1. UNCHANGED <<list, doomed, view, newContent, events, queue, batch, newUpdates>>
  BY DEF Receive, ReceiveNothing, daemonVars, listVars, threadVars, socketVars
<1>2. ProgramTypes' /\ WindowTypes'
  BY <1>0, <1>1 DEF ProgramTypes, WindowTypes, Ids
<1>3. /\ stash' \in Seq(Messages) /\ ProperItems(channel')
      /\ \A u \in Threads : got'[u].command = "LIST" /\ got'[u].value # NoAnswer =>
           got'[u].value \in ProperLists
  <2>1. CASE Receive(t)
    <3>1. channel # <<>> /\ channel' = Tail(channel)
      BY <2>1 DEF Receive
    <3>2. PICK m : m = Head(channel)
      OBVIOUS
    <3>3. ProperItems(channel') /\ (m \in Messages \/ ProperAnswer(m))
      BY <1>0, <3>1, <3>2, ItemsTail
    <3>4. CASE ~IsAnswer(m)
      <4>1. stash' = Append(stash, m) /\ UNCHANGED got
        BY <2>1, <3>2, <3>4 DEF Receive
      <4>2. m \in Messages
        BY <3>3, <3>4 DEF ProperAnswer
      <4>3. stash' \in Seq(Messages)
        BY <1>0, <4>1, <4>2
      <4> QED BY <1>0, <3>3, <4>1, <4>3 DEF StreamTypes
    <3>5. CASE IsAnswer(m)
      <4>1. UNCHANGED stash
        BY <2>1, <3>2, <3>5 DEF Receive
      <4>2. got' = [got EXCEPT ![t] = [sent |-> Head(todo).command, command |-> m.command,
                                       value |-> m.value, doubted |-> doubled]]
        BY <2>1, <3>2, <3>5 DEF Receive
      <4>3. ProperAnswer(m)
        BY <3>3, <3>5, MessagesAre
      <4>4. got'[t].command = m.command /\ got'[t].value = m.value
            /\ \A u \in Threads : u # t => got'[u] = got[u]
        BY <4>2
      <4> QED BY <1>0, <3>3, <4>1, <4>3, <4>4 DEF StreamTypes, ProperAnswer
    <3> QED BY <3>4, <3>5
  <2>2. CASE ReceiveNothing(t)
    <3>1. UNCHANGED <<stash, channel>>
      BY <2>2 DEF ReceiveNothing, socketVars
    <3>2. got'[t].value = NoAnswer /\ \A u \in Threads : u # t => got'[u] = got[u]
      BY <2>2 DEF ReceiveNothing
    <3> QED BY <1>0, <3>1, <3>2 DEF StreamTypes
  <2> QED BY <2>1, <2>2
<1>4. queue' \in Seq(Messages) /\ batch' \in Seq(Messages) /\ newUpdates' \in Seq(Messages)
  BY <1>0, <1>1 DEF StreamTypes
<1> QED BY <1>2, <1>3, <1>4 DEF DataTypes, StreamTypes

\* a list that is there, or not,
LEMMA ListKeeps ==
  ASSUME DataTypes, DOMAIN got = Threads, NEW t \in Threads, ListReturns(t)
  PROVE  DataTypes'
<1>0. ProgramTypes /\ WindowTypes /\ StreamTypes /\ stash \in Seq(Messages) /\ ProperItems(channel)
  BY DEF DataTypes, StreamTypes
<1>1. UNCHANGED <<list, doomed, view, stash, channel, queue, batch, newUpdates>>
  BY DEF ListReturns, daemonVars, socketVars
<1>2. newContent' \in ProperLists
  <2>1. newContent' = ListIn(got[t])
    BY DEF ListReturns
  <2> QED BY <1>0, <2>1, EmptyIsProper DEF ListIn, StreamTypes
<1>3. events' \in Seq(EventKinds)
  <2>1. Asks
    BY DEF ListReturns, ListReady, Asks, EventKinds
  <2> QED BY <1>0, <2>1, AsksTypes DEF WindowTypes
<1>4. Consume(t)
  BY DEF ListReturns
<1>5. \A u \in Threads : got'[u].command = "LIST" /\ got'[u].value # NoAnswer =>
         got'[u].value \in ProperLists
  BY <1>0, <1>4, ConsumedIsNone DEF StreamTypes
<1>6. ProgramTypes'
  BY <1>0, <1>1 DEF ProgramTypes, Ids
<1>7. view' \in ProperLists
  BY <1>0, <1>1 DEF WindowTypes
<1>8. /\ queue' \in Seq(Messages) /\ batch' \in Seq(Messages) /\ newUpdates' \in Seq(Messages)
      /\ stash' \in Seq(Messages) /\ ProperItems(channel')
  BY <1>0, <1>1 DEF StreamTypes
<1> QED BY <1>2, <1>3, <1>5, <1>6, <1>7, <1>8 DEF DataTypes, WindowTypes, StreamTypes

\* the messages that are fetched and made the next batch, and what the window
\* shows of it.
LEMMA UpdatesKeep ==
  ASSUME DataTypes, GetUpdates \/ PrepareUpdates \/ HandleEvent
  PROVE  DataTypes'
<1>0. ProgramTypes /\ WindowTypes /\ StreamTypes /\ stash \in Seq(Messages) /\ ProperItems(channel)
  BY DEF DataTypes, StreamTypes
<1>1. UNCHANGED <<list, doomed, queue>>
  BY DEF GetUpdates, PrepareUpdates, HandleEvent, daemonVars, socketVars
<1>2. ProgramTypes' /\ queue' \in Seq(Messages)
  BY <1>0, <1>1 DEF ProgramTypes, Ids, StreamTypes
<1>3. CASE GetUpdates
  <2>1. UNCHANGED <<view, newContent, events, newUpdates, got>>
    BY <1>3 DEF GetUpdates, listVars
  <2>2. batch' \in Seq(Messages) /\ stash' \in Seq(Messages) /\ ProperItems(channel')
    <3>1. Kept(channel, Messages) \in Seq(Messages)
      BY <1>0, ItemsKept
    <3>2. stash \o Kept(channel, Messages) \in Seq(Messages)
      BY <1>0, <3>1
    <3>3. Latest(stash \o Kept(channel, Messages)) \in Seq(Messages)
      BY <3>2, LatestThins
    <3>4. CASE term /\ batch' = <<>> /\ UNCHANGED <<stash, channel>>
      BY <1>0, <3>4
    <3>5. CASE batch' = Latest(stash \o Kept(channel, Messages)) /\ stash' = <<>> /\ channel' = <<>>
      <4>1. ProperItems(channel')
        BY <3>5, EmptyIsSequence DEF ProperItems
      <4> QED BY <3>3, <3>5, <4>1
    <3> QED BY <1>3, <3>4, <3>5 DEF GetUpdates
  <2>3. WindowTypes'
    BY <1>0, <2>1 DEF WindowTypes
  <2>4. newUpdates' \in Seq(Messages)
    BY <1>0, <2>1 DEF StreamTypes
  <2> QED BY <1>0, <1>2, <2>1, <2>2, <2>3, <2>4 DEF DataTypes, StreamTypes
<1>4. CASE PrepareUpdates
  <2>1. UNCHANGED <<view, got, stash, channel>> /\ newUpdates' = batch /\ batch' = <<>>
        /\ newContent' \in {newContent, <<>>} /\ Asks
    BY <1>4 DEF PrepareUpdates, callVars, socketVars, Asks, EventKinds
  <2>2. batch \in Seq(Messages) /\ <<>> \in Seq(Messages)
    BY <1>0 DEF StreamTypes
  <2>3. newUpdates' \in Seq(Messages) /\ batch' \in Seq(Messages)
    BY <2>1, <2>2
  <2>4. events' \in Seq(EventKinds)
    BY <1>0, <2>1, AsksTypes DEF WindowTypes
  <2>5. WindowTypes'
    BY <1>0, <2>1, <2>4, EmptyIsProper DEF WindowTypes
  <2>6. stash' \in Seq(Messages) /\ ProperItems(channel')
    BY <1>0, <2>1
  <2> QED BY <1>0, <1>2, <2>1, <2>3, <2>5, <2>6 DEF DataTypes, StreamTypes
<1>5. CASE HandleEvent
  <2>1. UNCHANGED <<newContent, newUpdates, got, batch>> /\ Hello
        /\ events # <<>> /\ events' = Tail(events)
    BY <1>5 DEF HandleEvent, threadVars
  <2>2. view' \in {<<>>, AppliedAll(view, newUpdates), newContent}
    BY <1>5 DEF HandleEvent
  <2>3. AppliedAll(view, newUpdates) \in ProperLists
    BY <1>0, AppliedIsProper DEF WindowTypes, StreamTypes
  <2>4. events' \in Seq(EventKinds)
    BY <1>0, <2>1 DEF WindowTypes
  <2>5. WindowTypes'
    BY <1>0, <2>1, <2>2, <2>3, <2>4, EmptyIsProper DEF WindowTypes
  <2>6. stash' \in Seq(Messages) /\ ProperItems(channel')
    BY <1>0, <2>1, HelloKeeps
  <2>7. batch' \in Seq(Messages) /\ newUpdates' \in Seq(Messages)
    BY <1>0, <2>1 DEF StreamTypes
  <2> QED BY <1>0, <1>2, <2>1, <2>5, <2>6, <2>7 DEF DataTypes, StreamTypes
<1> QED BY <1>3, <1>4, <1>5

\* So does every step.
LEMMA DataStays ==
  ASSUME DataTypes, FlagTypes, DOMAIN got = Threads, [Next]_vars
  PROVE  DataTypes'
<1>1. ASSUME NEW t \in Threads, ThreadStep(t) PROVE DataTypes'
  BY <1>1, ThreadCarries, CarriesKeeps, ReceiveKeeps, ListKeeps DEF ThreadStep
<1>2. CASE UpdaterStep
  BY <1>1, <1>2, UpdaterCarries, CarriesKeeps, UpdatesKeep DEF UpdaterStep, Threads
<1>3. CASE GuiStep
  BY <1>1, <1>3, GuiCarries, CarriesKeeps, UpdatesKeep DEF GuiStep, Threads
<1>4. CASE UserStep \/ Break \/ UNCHANGED vars
  BY <1>4, OtherCarries, CarriesKeeps
<1>5. CASE HandlerStep \/ Elsewhere \/ PurgeDownload
  BY <1>5, HandlerKeeps DEF HandlerStep
<1> QED BY <1>2, <1>3, <1>4, <1>5 DEF Next

\* All of it together.
TypeInv == CallInv /\ FlagTypes /\ Located /\ DataTypes

\* It holds at first,
LEMMA TypesInitially == Init => TypeInv
<1> SUFFICES ASSUME Init PROVE TypeInv
  OBVIOUS
<1>1. CallInv
  BY CallInitially
<1>2. FlagTypes
  BY DEF Init, FlagTypes
<1>3. Located
  BY ThreadAssumption DEF Init, Located, Places, Threads, Listing, Calling
<1>4. ProgramTypes
  BY ListAssumption DEF Init, ProgramTypes, ProperLists, DownloadLists, Distinct
<1>5. WindowTypes
  BY EmptyIsProper DEF Init, WindowTypes
<1>6. StreamTypes
  <2>1. ProperItems(channel)
    BY EmptyIsSequence DEF Init, ProperItems
  <2>2. \A t \in Threads : got[t].value = NoAnswer
    BY DEF Init, Nothing
  <2> QED BY <2>1, <2>2 DEF Init, StreamTypes
<1> QED BY <1>1, <1>2, <1>3, <1>4, <1>5, <1>6 DEF TypeInv, DataTypes

\* every step keeps it,
LEMMA TypesStay ==
  ASSUME TypeInv, [Next]_vars
  PROVE  TypeInv'
<1>1. CallInv'
  BY NextIsCallStep, CallStepPreserves DEF TypeInv
<1>2. FlagTypes'
  BY FlagsStay DEF TypeInv
<1>3. Located'
  BY NextMoves, MovesKeep DEF TypeInv
<1>4. DataTypes'
  <2>1. DOMAIN got = Threads
    BY DEF TypeInv, CallInv, CallTypes
  <2> QED BY <2>1, DataStays DEF TypeInv
<1> QED BY <1>1, <1>2, <1>3, <1>4 DEF TypeInv

\* and so it always holds.
LEMMA TypesInvariant == Spec => []TypeInv
<1>1. TypeInv /\ [Next]_vars => TypeInv'
  BY TypesStay
<1> QED BY TypesInitially, <1>1, PTL DEF Spec

\* The state has the types it should have, mx is taken exactly as long as a call
\* has requests left, lmx exactly while a list is fetched, and mx only in calls.
THEOREM ClientTypes == Spec => []TypeOK
<1>1. TypeInv => TypeOK
  <2> SUFFICES ASSUME TypeInv PROVE TypeOK
    OBVIOUS
  <2>1. /\ list \in DownloadLists /\ view \in DownloadLists /\ newContent \in DownloadLists
        /\ doomed \subseteq 0..MaxId
    BY DEF TypeInv, DataTypes, ProgramTypes, WindowTypes, ProperLists
  <2>2. {up, subscribed, sent, required, term, updating, stop, told, enabled,
         missed, reordered, doubled} \subseteq BOOLEAN
    BY DEF TypeInv, FlagTypes
  <2>3. /\ queue \in Seq(Messages) /\ stash \in Seq(Messages)
        /\ batch \in Seq(Messages) /\ newUpdates \in Seq(Messages)
    BY DEF TypeInv, DataTypes, StreamTypes
  <2>4. \A i \in DOMAIN channel : IsAnswer(channel[i]) \/ channel[i] \in Messages
    BY DEF TypeInv, DataTypes, StreamTypes, ProperItems, ProperAnswer
  <2>5. mx = NoThread <=> todo = <<>>
    BY DEF TypeInv, CallInv, OwnerCalls
  <2>6. mx = NoThread => ~sent
    BY DEF TypeInv, CallInv, OwnerCalls
  <2>7. events \in Seq({"full", "subs", "clear"})
    BY DEF TypeInv, DataTypes, WindowTypes, EventKinds
  <2>8. /\ mx \in Threads \cup {NoThread} /\ lmx \in Threads \cup {NoThread}
        /\ at \in [Threads -> Places]
        /\ \A t \in Threads : lmx = t <=> at[t] \in {"list", "listed"}
        /\ \A t \in Threads : mx = t => at[t] \in {"listed", "answered", "subscribed"}
    BY DEF TypeInv, Located, Listing, Calling
  <2> QED BY <2>1, <2>2, <2>3, <2>4, <2>5, <2>6, <2>7, <2>8 DEF TypeOK
<1> QED BY <1>1, TypesInvariant, PTL

--------------------------------------------------------------------------------
(* What is on its way to the window: the batch that was fetched, what was put *)
(* aside, the messages on the connection, and those the handler still has.   *)

\* It does not matter in which order messages are joined.
LEMMA Joining == \A u, v, w \in Seq(Messages) : (u \o v) \o w = u \o (v \o w)
BY ConcatAssociative

Line(b, s, c, q) == b \o (s \o (Kept(c, Messages) \o q))

\* It is messages.
LEMMA LineTypes ==
  ASSUME NEW b \in Seq(Messages), NEW s \in Seq(Messages), NEW c, ProperItems(c),
         NEW q \in Seq(Messages)
  PROVE  /\ Kept(c, Messages) \in Seq(Messages)
         /\ Kept(c, Messages) \o q \in Seq(Messages)
         /\ s \o (Kept(c, Messages) \o q) \in Seq(Messages)
         /\ Line(b, s, c, q) \in Seq(Messages)
<1>1. Kept(c, Messages) \in Seq(Messages)
  BY ItemsKept
<1>2. PICK k : k = Kept(c, Messages)
  OBVIOUS
<1>3. k \o q \in Seq(Messages)
  BY <1>1, <1>2, ConcatProperties
<1>4. s \o (k \o q) \in Seq(Messages)
  BY <1>3, ConcatProperties
<1>5. b \o (s \o (k \o q)) \in Seq(Messages)
  BY <1>4, ConcatProperties
<1> QED BY <1>1, <1>2, <1>3, <1>4, <1>5 DEF Line

\* What is kept of items when one comes or goes.
LEMMA KeptItems ==
  ASSUME NEW c, ProperItems(c)
  PROVE  /\ Kept(<<>>, Messages) = <<>>
         /\ \A m \in Messages : Kept(Append(c, m), Messages) = Append(Kept(c, Messages), m)
         /\ \A a : IsAnswer(a) => Kept(c \o <<a>>, Messages) = Kept(c, Messages)
         /\ c # <<>> /\ Head(c) \in Messages =>
              Kept(c, Messages) = <<Head(c)>> \o Kept(Tail(c), Messages)
         /\ c # <<>> /\ IsAnswer(Head(c)) => Kept(c, Messages) = Kept(Tail(c), Messages)
<1>1. PICK S : c \in Seq(S)
  BY DEF ProperItems, IsSequence
<1>2. Kept(<<>>, Messages) = <<>>
  <2>1. PICK e : e = <<>>
    OBVIOUS
  <2>2. e \in Seq(Messages) /\ ToSet(e) = {}
    BY <2>1 DEF ToSet
  <2> QED BY <2>1, <2>2, KeptNothing
<1>3. ASSUME NEW m \in Messages
      PROVE  Kept(Append(c, m), Messages) = Append(Kept(c, Messages), m)
  <2>1. PICK T : T = S \cup Messages
    OBVIOUS
  <2>2. c \in Seq(T) /\ m \in T
    BY <1>1, <2>1
  <2> QED BY <2>2, KeptAppend
<1>4. \A a : IsAnswer(a) => a \notin Messages
  BY MessagesAre
<1>5. ASSUME NEW a, IsAnswer(a)
      PROVE  Kept(c \o <<a>>, Messages) = Kept(c, Messages)
  <2>1. PICK T : T = S \cup {a}
    OBVIOUS
  <2>2. c \in Seq(T) /\ a \in T
    BY <1>1, <2>1
  <2>3. c \o <<a>> = Append(c, a)
    BY <2>2, AppendIsConcat
  <2>4. a \notin Messages
    BY <1>4, <1>5
  <2> QED BY <2>2, <2>3, <2>4, KeptAppend
<1>6. ASSUME c # <<>>
      PROVE  Kept(c, Messages) = Kept(<<Head(c)>>, Messages) \o Kept(Tail(c), Messages)
  <2>1. PICK h, t, o : h = Head(c) /\ t = Tail(c) /\ o = <<Head(c)>>
    OBVIOUS
  <2>2. h \in S /\ t \in Seq(S) /\ o = <<h>> /\ o \in Seq(S)
    BY <1>1, <1>6, <2>1
  <2>3. c = o \o t
    BY <1>1, <1>6, <2>1
  <2>4. Kept(o \o t, Messages) = Kept(o, Messages) \o Kept(t, Messages)
    <3>1. o \in Seq(S) /\ t \in Seq(S)
      BY <2>2
    <3> QED BY <3>1, KeptConcat
  <2> QED BY <2>1, <2>3, <2>4
<1>7. \A e : Kept(<<e>>, Messages) = IF e \in Messages THEN <<e>> ELSE <<>>
  <2> TAKE e
  <2>1. e \in {e}
    OBVIOUS
  <2> QED BY <2>1, KeptOne
<1>8. ASSUME c # <<>>, Head(c) \in Messages
      PROVE  Kept(c, Messages) = <<Head(c)>> \o Kept(Tail(c), Messages)
  BY <1>6, <1>7, <1>8
<1>9. ASSUME c # <<>>, IsAnswer(Head(c))
      PROVE  Kept(c, Messages) = Kept(Tail(c), Messages)
  <2>1. ProperItems(Tail(c))
    BY <1>9, ItemsTail
  <2>2. Kept(Tail(c), Messages) \in Seq(Messages)
    BY <2>1, ItemsKept
  <2>3. Kept(c, Messages) = <<>> \o Kept(Tail(c), Messages)
    BY <1>4, <1>6, <1>7, <1>9
  <2> QED BY <2>2, <2>3, ConcatEmptySeq
<1> QED BY <1>2, <1>3, <1>5, <1>8, <1>9

\* A check of the connection that puts the messages aside leaves them in the line.
LEMMA LineClears ==
  ASSUME NEW b \in Seq(Messages), NEW s \in Seq(Messages), NEW c, ProperItems(c),
         NEW q \in Seq(Messages)
  PROVE  Line(b, s \o Kept(c, Messages), <<>>, q) = Line(b, s, c, q)
<1>1. PICK k : k = Kept(c, Messages)
  OBVIOUS
<1>2. k \in Seq(Messages)
  BY <1>1, LineTypes
<1>3. (s \o k) \o q = s \o (k \o q)
  BY <1>2, ConcatAssociative
<1>4. <<>> \o q = q
  BY ConcatEmptySeq
<1> QED BY <1>1, <1>3, <1>4, KeptItems DEF Line

\* A message that the handler sends stays in the line,
LEMMA LineSends ==
  ASSUME NEW b \in Seq(Messages), NEW s \in Seq(Messages), NEW c, ProperItems(c),
         NEW q \in Seq(Messages), q # <<>>
  PROVE  Line(b, s, Append(c, Head(q)), Tail(q)) = Line(b, s, c, q)
<1>1. PICK k, h, t, o : k = Kept(c, Messages) /\ h = Head(q) /\ t = Tail(q) /\ o = <<Head(q)>>
  OBVIOUS
<1>2. k \in Seq(Messages)
  BY <1>1, LineTypes
<1>3. h \in Messages /\ t \in Seq(Messages)
  BY <1>1
<1>4. o \in Seq(Messages) /\ q = o \o t
  BY <1>1, <1>3
<1>5. Append(k, h) = k \o o
  BY <1>1, <1>2, <1>3, AppendIsConcat
<1>6. (k \o o) \o t = k \o q
  BY <1>2, <1>3, <1>4, ConcatAssociative
<1>7. Kept(Append(c, h), Messages) = Append(k, h)
  BY <1>1, <1>3, KeptItems
<1> QED BY <1>1, <1>5, <1>6, <1>7 DEF Line

\* one that is received stays in it too, and an answer never was;
LEMMA LineReceives ==
  ASSUME NEW b \in Seq(Messages), NEW s \in Seq(Messages), NEW c, ProperItems(c), c # <<>>,
         NEW q \in Seq(Messages)
  PROVE  /\ Head(c) \in Messages =>
              Line(b, Append(s, Head(c)), Tail(c), q) = Line(b, s, c, q)
         /\ IsAnswer(Head(c)) => Line(b, s, Tail(c), q) = Line(b, s, c, q)
<1>1. PICK k, h, o : k = Kept(Tail(c), Messages) /\ h = Head(c) /\ o = <<Head(c)>>
  OBVIOUS
<1>2. k \in Seq(Messages)
  BY <1>1, ItemsTail, ItemsKept
<1>3. ASSUME h \in Messages
      PROVE  Line(b, Append(s, h), Tail(c), q) = Line(b, s, c, q)
  <2>1. o \in Seq(Messages)
    BY <1>1, <1>3
  <2>2. Append(s, h) = s \o o
    BY <1>1, <1>3, AppendIsConcat
  <2>3. PICK w : w = k \o q
    OBVIOUS
  <2>4. w \in Seq(Messages)
    BY <1>2, <2>3, ConcatProperties
  <2>5. (s \o o) \o w = s \o (o \o w)
    BY <2>1, <2>4, ConcatAssociative, SMTT(30)
  <2>7. (o \o k) \o q = o \o (k \o q)
    BY <1>2, <2>1, ConcatAssociative, SMTT(30)
  <2>6. Kept(c, Messages) = o \o k
    BY <1>1, <1>3, KeptItems
  <2> QED BY <1>1, <2>2, <2>3, <2>5, <2>6, <2>7 DEF Line
<1>4. IsAnswer(h) => Line(b, s, Tail(c), q) = Line(b, s, c, q)
  BY <1>1, KeptItems DEF Line
<1> QED BY <1>1, <1>3, <1>4

\* what is posted comes behind it.
LEMMA LinePosts ==
  ASSUME NEW b \in Seq(Messages), NEW s \in Seq(Messages), NEW c, ProperItems(c),
         NEW q \in Seq(Messages), NEW m \in Messages
  PROVE  Line(b, s, c, Append(q, m)) = Append(Line(b, s, c, q), m)
<1>1. PICK k : k = Kept(c, Messages)
  OBVIOUS
<1>2. PICK o : o = <<m>>
  OBVIOUS
<1>3. k \in Seq(Messages)
  BY <1>1, LineTypes
<1>4. o \in Seq(Messages)
  BY <1>2
<1>5. PICK x, y, z : x = k \o q /\ y = s \o x /\ z = b \o y
  OBVIOUS
<1>6. x \in Seq(Messages)
  BY <1>3, <1>5, ConcatProperties
<1>7. y \in Seq(Messages)
  BY <1>5, <1>6, ConcatProperties
<1>8. z \in Seq(Messages)
  BY <1>5, <1>7, ConcatProperties
<1>9. (k \o q) \o o = k \o (q \o o)
  BY <1>3, <1>4, Joining, ZenonT(60)
<1>10. (s \o x) \o o = s \o (x \o o)
  BY <1>4, <1>6, Joining, ZenonT(60)
<1>11. (b \o y) \o o = b \o (y \o o)
  BY <1>4, <1>7, Joining, ZenonT(60)
<1>12. Append(q, m) = q \o o
  BY <1>2, AppendIsConcat
<1>13. Append(z, m) = z \o o
  BY <1>2, <1>8, AppendIsConcat
<1> QED BY <1>1, <1>5, <1>9, <1>10, <1>11, <1>12, <1>13 DEF Line

--------------------------------------------------------------------------------
(* What makes the window show the list, as long as nothing was missed and no *)
(* command was answered twice.                                              *)

Sure == ~missed /\ ~doubled
Coming == Line(batch, stash, channel, queue)
InStore == newUpdates \o Coming

\* A list, with what is still applied to it, leads to the program's.
Right(v, p) == Good(v, p, list, doomed, reordered)

\* The reloads that wait make the window show the list that was fetched, or apply
\* the batch to what is shown.
Loads == events # <<>> /\ (required \/ Contains(events, "full"))
Applies == events # <<>> /\ ~required /\ Last(events) = "subs"
Base == IF Loads THEN newContent ELSE view
Todo == IF Applies THEN InStore ELSE Coming

Shown == lmx = NoThread /\ at[Updater] \notin {"first", "reload"} => Right(Base, Todo)

\* The list that a thread waits for, or has just received.
ListedOne(t) ==
  \/ /\ mx = t /\ todo = GetList
     /\ \A i \in DOMAIN channel : IsAnswer(channel[i]) => Right(channel[i].value, Coming)
  \/ mx # t /\ got[t].command = "LIST" /\ got[t].value # NoAnswer /\ Right(got[t].value, Coming)
Listed == \A t \in Threads : at[t] = "listed" => ListedOne(t)

\* The connection stands, the first list is fetched before the subscription, and
\* afterwards one is only fetched for a batch with a move in it.
SureFacts ==
  /\ up /\ ~Contains(events, "clear")
  /\ at[Updater] \in {"first", "reload"} => ~enabled
  /\ at[Updater] \in Listing /\ enabled => required
  /\ at[Updater] # "prepare" => batch = <<>>
  /\ required <=> HasMove(newUpdates)

AllTold == Told(InStore, list, doomed, reordered)
ViewInv == Sure => SureFacts /\ AllTold /\ Shown /\ Listed

\* All that is on its way are messages.
LEMMA ComingTypes ==
  ASSUME DataTypes
  PROVE  Coming \in Seq(Messages) /\ InStore \in Seq(Messages)
<1>1. /\ queue \in Seq(Messages) /\ stash \in Seq(Messages) /\ ProperItems(channel)
      /\ batch \in Seq(Messages) /\ newUpdates \in Seq(Messages)
  BY DEF DataTypes, StreamTypes
<1>2. Coming \in Seq(Messages)
  BY <1>1, LineTypes DEF Coming
<1> QED BY <1>1, <1>2, ConcatProperties DEF InStore

\* A step that leaves what is on its way and the reloads as they are, and where
\* update_thread may go in it.
Still == UNCHANGED <<list, doomed, reordered, newUpdates, newContent, view, required, events,
                     lmx, up, missed, doubled>> /\ Coming' = Coming
Roaming == {"subscribe", "subscribed", "loop", "paused", "updates", "ended"}
Roams ==
  /\ \/ at'[Updater] = at[Updater] /\ enabled' = enabled
     \/ at[Updater] \in Roaming /\ at'[Updater] \in Roaming
     \/ at[Updater] \in Roaming /\ at'[Updater] = "first" /\ ~enabled'
     \/ at[Updater] = "first" /\ at'[Updater] = "reload" /\ enabled' = enabled
  /\ batch' = batch

\* What was told, what the reloads will show, and what is known of them stay.
LEMMA StillKeeps ==
  ASSUME SureFacts, AllTold, Shown, Still, Roams
  PROVE  SureFacts' /\ AllTold' /\ Shown'
<1>1. AllTold'
  BY DEF Still, AllTold, InStore
<1>2. SureFacts'
  <2>1. (at'[Updater] \in {"first", "reload"} => ~enabled')
    BY DEF SureFacts, Roams, Roaming
  <2>2. at'[Updater] \in Listing /\ enabled' => required'
    BY DEF SureFacts, Still, Roams, Roaming, Listing
  <2>3. at'[Updater] # "prepare" => batch' = <<>>
    BY DEF SureFacts, Roams, Roaming
  <2>4. up' /\ ~Contains(events', "clear") /\ (required' <=> HasMove(newUpdates'))
    BY DEF SureFacts, Still
  <2> QED BY <2>1, <2>2, <2>3, <2>4 DEF SureFacts
<1>3. Shown'
  <2>1. at'[Updater] \notin {"first", "reload"} => at[Updater] \notin {"first", "reload"}
    BY DEF Roams, Roaming
  <2>2. Right(Base, Todo)' <=> Right(Base, Todo)
    BY DEF Still, Right, Base, Todo, InStore, Loads, Applies
  <2> QED BY <2>1, <2>2 DEF Shown, Still
<1> QED BY <1>1, <1>2, <1>3

\* A step that leaves the answers as they are, and who waits for a list.
Waiting == /\ \A t \in Threads : at'[t] = "listed" =>
                /\ at[t] = "listed" /\ (mx' = t <=> mx = t) /\ got'[t] = got[t]
                /\ mx = t => todo' = todo
           /\ \A i \in DOMAIN channel' : IsAnswer(channel'[i]) =>
                \E j \in DOMAIN channel : channel[j] = channel'[i]

\* A list that is fetched stays good while what it is waited for with does.
LEMMA WaitingKeeps ==
  ASSUME Listed, UNCHANGED <<list, doomed, reordered>>, Coming' = Coming, Waiting
  PROVE  Listed'
<1> SUFFICES ASSUME NEW t \in Threads, at'[t] = "listed" PROVE ListedOne(t)'
  BY DEF Listed
<1>1. /\ at[t] = "listed" /\ (mx' = t <=> mx = t) /\ got'[t] = got[t]
      /\ mx = t => todo' = todo
  BY DEF Waiting
<1>2. \A v : Right(v, Coming)' <=> Right(v, Coming)
  BY DEF Right
<1>3. \A v : Right(v, Coming) => Good(v, Coming', list', doomed', reordered')
  BY DEF Right
<1>4. ListedOne(t)
  BY <1>1 DEF Listed
<1>5. CASE mx = t
  <2>1. \A i \in DOMAIN channel : IsAnswer(channel[i]) => Right(channel[i].value, Coming)
    BY <1>4, <1>5 DEF ListedOne
  <2>2. \A i \in DOMAIN channel' : IsAnswer(channel'[i]) =>
          Good(channel'[i].value, Coming', list', doomed', reordered')
    BY <1>3, <2>1 DEF Waiting
  <2>3. mx' = t /\ todo' = GetList
    BY <1>1, <1>4, <1>5 DEF ListedOne
  <2> QED BY <2>2, <2>3 DEF ListedOne, Right
<1>6. CASE mx # t
  BY <1>1, <1>3, <1>4, <1>6 DEF ListedOne, Right
<1> QED BY <1>5, <1>6

\* Most steps are such.
Steady == Still /\ Roams /\ Waiting
\* A step that leaves both alone keeps the invariant.
LEMMA SteadyKeeps ==
  ASSUME ViewInv, Sure, Steady
  PROVE  ViewInv'
<1>1. SureFacts /\ AllTold /\ Shown /\ Listed
  BY DEF ViewInv
<1>2. SureFacts' /\ AllTold' /\ Shown'
  BY <1>1, StillKeeps DEF Steady
<1>3. Listed'
  BY <1>1, WaitingKeeps DEF Steady, Still
<1> QED BY <1>2, <1>3 DEF ViewInv

--------------------------------------------------------------------------------
(* The steps that leave all that alone.                                     *)

\* A check of the connection puts aside all that is there, and nothing gets lost.
LEMMA HelloPutsAside ==
  ASSUME TypeInv, Sure, mx = NoThread, Hello, UNCHANGED <<batch, queue>>
  PROVE  channel' = <<>> /\ Coming' = Coming
<1>1. channel' = <<>>
  BY HelloClears DEF TypeInv, Sure
<1>2. /\ queue \in Seq(Messages) /\ stash \in Seq(Messages) /\ ProperItems(channel)
      /\ batch \in Seq(Messages)
  BY DEF TypeInv, DataTypes, StreamTypes
<1>3. {i \in DOMAIN channel : IsAnswer(channel[i])} = {}
  BY DEF TypeInv, CallInv, OwnerCalls, AnswersFit, Sure
<1>4. stash' = stash \o Kept(channel, Messages)
  BY <1>3 DEF Hello
<1> QED BY <1>1, <1>2, <1>4, LineClears DEF Coming

\* Who waits for a list was fetching one before, if lmx stays where it is.
LEMMA PlacesMove ==
  ASSUME TypeInv, [Next]_vars, UNCHANGED lmx, NEW t \in Threads, at'[t] = "listed"
  PROVE  at[t] \in Listing
<1>1. Located /\ Steps
  BY NextMoves DEF TypeInv
<1>2. CASE UNCHANGED at
  BY <1>2 DEF Listing
<1>3. ASSUME NEW u \in Threads, NEW b \in Places, MovesOne(u, b) PROVE at[t] \in Listing
  <2>1. at'[u] = b /\ \A w \in Threads : w # u => at'[w] = at[w]
    BY <1>1, <1>3 DEF MovesOne, Goto, Located
  <2>2. CASE t # u
    BY <2>1, <2>2 DEF Listing
  <2>3. CASE t = u
    BY <1>1, <1>3, <2>1, <2>3, ThreadAssumption DEF MovesOne, Located, Listing, Threads
  <2> QED BY <2>2, <2>3
<1>4. CASE at' = [at EXCEPT ![Gui] = "reload", ![Updater] = "first"]
  BY <1>1, <1>4, ThreadAssumption DEF Located, Threads
<1> QED BY <1>1, <1>2, <1>3, <1>4 DEF Steps

\* A thread that does something else does not disturb one that fetches a list.
LEMMA StepsBeside ==
  ASSUME TypeInv, [Next]_vars, UNCHANGED lmx, NEW t \in Threads, at[t] \notin Listing,
         \A u \in Threads : u # t => at'[u] = at[u] /\ got'[u] = got[u],
         (mx' = mx /\ todo' = todo) \/ (mx = NoThread /\ mx' = t),
         channel' \in {channel, <<>>}
  PROVE  Waiting
<1>1. ASSUME NEW u \in Threads, at'[u] = "listed"
      PROVE  /\ at[u] = "listed" /\ (mx' = u <=> mx = u) /\ got'[u] = got[u]
             /\ mx = u => todo' = todo
  <2>1. at[u] \in Listing
    BY <1>1, PlacesMove
  <2>2. u # t
    BY <2>1
  <2>3. u # NoThread
    BY ThreadAssumption DEF Threads
  <2> QED BY <1>1, <2>2, <2>3
<1>2. \A i \in DOMAIN channel' : IsAnswer(channel'[i]) =>
        \E j \in DOMAIN channel : channel[j] = channel'[i]
  <2>1. DOMAIN <<>> = {}
    OBVIOUS
  <2> QED BY <2>1
<1> QED BY <1>1, <1>2 DEF Waiting

\* What update_thread does outside of a list,
LEMMA UpdaterSteady ==
  ASSUME TypeInv, [Next]_vars, Sure, SureFacts,
         \/ FirstCheck \/ RequestSubscription \/ SubscriptionReturns
         \/ LoopEnds \/ LoopChecks \/ EnterUpdates
  PROVE  Steady
<1>1. up /\ at \in [Threads -> Places] /\ Gui # Updater /\ Gui \in Threads /\ Updater \in Threads
  BY ThreadAssumption DEF SureFacts, TypeInv, Located, Threads
<1>2. DOMAIN got = Threads
  BY DEF TypeInv, CallInv, CallTypes
<1>3. \A b : Goto(Updater, b) => at'[Updater] = b /\ at'[Gui] = at[Gui]
  BY <1>1 DEF Goto
<1>4. ASSUME Still, Roams, at[Updater] \notin Listing, at'[Gui] = at[Gui], got'[Gui] = got[Gui],
             (mx' = mx /\ todo' = todo) \/ (mx = NoThread /\ mx' = Updater),
             channel' \in {channel, <<>>}
      PROVE  Steady
  <2>1. \A u \in Threads : u # Updater => at'[u] = at[u] /\ got'[u] = got[u]
    BY <1>4 DEF Threads
  <2>2. UNCHANGED lmx
    BY <1>4 DEF Still
  <2>3. Waiting
    BY <1>1, <1>4, <2>1, <2>2, StepsBeside
  <2> QED BY <1>4, <2>3 DEF Steady
<1>5. CASE FirstCheck
  <2>1. channel' = <<>> /\ Coming' = Coming
    BY <1>5, HelloPutsAside DEF FirstCheck
  <2>2. Still
    BY <1>5, <2>1 DEF FirstCheck, Still, daemonVars, listVars
  <2>3. Roams
    BY <1>3, <1>5 DEF FirstCheck, Roams
  <2> QED BY <1>3, <1>4, <1>5, <2>1, <2>2, <2>3 DEF FirstCheck, Listing
<1>6. CASE RequestSubscription
  <2>1. Begin(Updater, AddSubscription) /\ Goto(Updater, "subscribed")
    BY <1>1, <1>6 DEF RequestSubscription, Refused
  <2>2. channel' = <<>> /\ Coming' = Coming
    BY <1>6, <2>1, HelloPutsAside DEF RequestSubscription, Begin
  <2>3. Still
    BY <1>6, <2>2 DEF RequestSubscription, Still, daemonVars, listVars
  <2>4. Roams
    BY <1>3, <1>6, <2>1 DEF RequestSubscription, Roams, Roaming
  <2> QED BY <1>3, <1>4, <1>6, <2>1, <2>2, <2>3, <2>4 DEF RequestSubscription, Begin, Listing
<1>7. CASE SubscriptionReturns
  <2>1. UNCHANGED <<batch, stash, channel, queue>>
    BY <1>7 DEF SubscriptionReturns, socketVars
  <2>2. Coming' = Coming
    BY <2>1 DEF Coming
  <2>3. Still
    BY <1>7, <2>2 DEF SubscriptionReturns, Still, daemonVars, listVars, socketVars
  <2>4. Roams
    BY <1>3, <1>7 DEF SubscriptionReturns, Roams, Roaming
  <2>5. got'[Gui] = got[Gui]
    BY <1>1, <1>2, <1>7, ConsumedIsNone DEF SubscriptionReturns
  <2> QED BY <1>3, <1>4, <1>7, <2>1, <2>3, <2>4, <2>5 DEF SubscriptionReturns, Listing
<1>8. CASE LoopEnds
  <2>1. UNCHANGED <<batch, stash, channel, queue>>
    BY <1>8 DEF LoopEnds, socketVars, callVars
  <2>2. Coming' = Coming
    BY <2>1 DEF Coming
  <2>3. Still
    BY <1>8, <2>2 DEF LoopEnds, Still, daemonVars, listVars, socketVars
  <2>4. Roams
    BY <1>3, <1>8 DEF LoopEnds, Roams, Roaming
  <2> QED BY <1>3, <1>4, <1>8, <2>1, <2>3, <2>4 DEF LoopEnds, callVars, Listing
<1>9. CASE LoopChecks
  <2>1. channel' = <<>> /\ Coming' = Coming
    BY <1>9, HelloPutsAside DEF LoopChecks
  <2>2. Still
    BY <1>9, <2>1 DEF LoopChecks, Still, daemonVars, listVars
  <2>3. Roams
    BY <1>1, <1>3, <1>9 DEF LoopChecks, Roams, Roaming
  <2> QED BY <1>3, <1>4, <1>9, <2>1, <2>2, <2>3 DEF LoopChecks, Listing
<1>10. CASE EnterUpdates
  <2>1. channel' = <<>> /\ Coming' = Coming
    BY <1>10, HelloPutsAside DEF EnterUpdates
  <2>2. Still
    BY <1>1, <1>10, <2>1 DEF EnterUpdates, Still, daemonVars
  <2>3. Roams
    BY <1>1, <1>3, <1>10 DEF EnterUpdates, Roams, Roaming
  <2> QED BY <1>1, <1>3, <1>4, <1>10, <2>1, <2>2, <2>3 DEF EnterUpdates, Listing
<1> QED BY <1>5, <1>6, <1>7, <1>8, <1>9, <1>10

\* the slots,
LEMMA GuiSteady ==
  ASSUME TypeInv, [Next]_vars, Sure, SureFacts, Sure',
         SendCommand \/ RowIsGone \/ CommandReturns \/ Connect \/ Join \/ ResetTerm
  PROVE  Steady
<1>1. up /\ at \in [Threads -> Places] /\ Gui # Updater /\ Gui \in Threads /\ Updater \in Threads
  BY ThreadAssumption DEF SureFacts, TypeInv, Located, Threads
<1>2. DOMAIN got = Threads
  BY DEF TypeInv, CallInv, CallTypes
<1>3. \A b : Goto(Gui, b) => at'[Updater] = at[Updater]
  BY <1>1 DEF Goto
<1>4. ASSUME Still, UNCHANGED <<enabled, batch>>, at[Gui] \notin Listing,
             at'[Updater] = at[Updater], got'[Updater] = got[Updater],
             (mx' = mx /\ todo' = todo) \/ (mx = NoThread /\ mx' = Gui),
             channel' \in {channel, <<>>}
      PROVE  Steady
  <2>1. \A u \in Threads : u # Gui => at'[u] = at[u] /\ got'[u] = got[u]
    BY <1>4 DEF Threads
  <2>2. UNCHANGED lmx
    BY <1>4 DEF Still
  <2>3. Waiting
    BY <1>1, <1>4, <2>1, <2>2, StepsBeside
  <2>4. Roams
    BY <1>4 DEF Roams
  <2> QED BY <1>4, <2>3, <2>4 DEF Steady
<1>6. EndCommand => at'[Updater] = at[Updater]
  BY <1>3 DEF EndCommand
<1>7. FollowUp => at'[Updater] = at[Updater]
  BY <1>3 DEF FollowUp
<1>8. CASE SendCommand
  <2>1. PICK id : Begin(Gui, Calls(slot.command, id)) /\ Goto(Gui, "answered")
    BY <1>1, <1>8 DEF SendCommand, CallRefused, Refused
  <2>2. channel' = <<>> /\ Coming' = Coming
    BY <1>8, <2>1, HelloPutsAside DEF SendCommand, Begin
  <2>3. Still
    BY <1>8, <2>2 DEF SendCommand, Still, daemonVars, listVars
  <2> QED BY <1>3, <1>4, <1>8, <2>1, <2>2, <2>3 DEF SendCommand, Begin, Listing
<1>9. CASE RowIsGone
  <2>1. UNCHANGED <<batch, stash, channel, queue>>
    BY <1>9 DEF RowIsGone, socketVars, callVars
  <2>2. Coming' = Coming
    BY <2>1 DEF Coming
  <2>3. Still
    BY <1>9, <2>2 DEF RowIsGone, Still, daemonVars, listVars, socketVars
  <2> QED BY <1>3, <1>4, <1>9, <2>1, <2>3 DEF RowIsGone, callVars, Listing
<1>10. CASE CommandReturns
  <2>1. UNCHANGED <<batch, stash, channel, queue>>
    BY <1>10 DEF CommandReturns, socketVars
  <2>2. Coming' = Coming
    BY <2>1 DEF Coming
  <2>3. Still
    BY <1>10, <2>2 DEF CommandReturns, Still, daemonVars, listVars, socketVars
  <2>4. got'[Updater] = got[Updater]
    BY <1>1, <1>2, <1>10, ConsumedIsNone DEF CommandReturns
  <2>5. at'[Updater] = at[Updater]
    BY <1>3, <1>6, <1>7, <1>10 DEF CommandReturns
  <2> QED BY <1>4, <1>10, <2>1, <2>3, <2>4, <2>5 DEF CommandReturns, Listing
<1>11. CASE Connect
  <2>1. Goto(Gui, "dialog") /\ UNCHANGED <<socketVars, stop, missed>>
    BY <1>11 DEF Connect, Sure
  <2>2. UNCHANGED <<batch, stash, channel, queue>>
    BY <1>11, <2>1 DEF Connect, socketVars, callVars
  <2>3. Coming' = Coming
    BY <2>2 DEF Coming
  <2>4. Still
    BY <1>11, <2>1, <2>3 DEF Connect, Still, daemonVars, listVars, socketVars
  <2> QED BY <1>3, <1>4, <1>11, <2>1, <2>2, <2>4 DEF Connect, callVars, Listing
<1>12. CASE Join
  <2>1. UNCHANGED <<batch, stash, channel, queue>>
    BY <1>12 DEF Join, socketVars, callVars
  <2>2. Coming' = Coming
    BY <2>1 DEF Coming
  <2>3. Still
    BY <1>12, <2>2 DEF Join, Still, daemonVars, listVars, socketVars
  <2>4. at'[Gui] = "reload" /\ at'[Updater] = "first"
    BY <1>1, <1>12 DEF Join
  <2>5. Roams
    BY <1>12, <2>1, <2>4 DEF Join, Roams, Roaming
  <2>6. Waiting
    BY <1>12, <2>1, <2>4 DEF Join, Waiting, Threads
  <2> QED BY <2>3, <2>5, <2>6 DEF Steady
<1>13. CASE ResetTerm
  <2>1. UNCHANGED <<batch, stash, channel, queue>>
    BY <1>13 DEF ResetTerm, socketVars, callVars
  <2>2. Coming' = Coming
    BY <2>1 DEF Coming
  <2>3. Still
    BY <1>13, <2>2 DEF ResetTerm, Still, daemonVars, listVars, socketVars
  <2> QED BY <1>3, <1>4, <1>13, <2>1, <2>3 DEF ResetTerm, callVars, Listing
<1> QED BY <1>8, <1>9, <1>10, <1>11, <1>12, <1>13

\* the user,
LEMMA UserSteady ==
  ASSUME TypeInv, [Next]_vars, Sure, SureFacts, UserStep
  PROVE  Steady
<1>1. up /\ at \in [Threads -> Places] /\ Gui # Updater /\ Gui \in Threads /\ Updater \in Threads
  BY ThreadAssumption DEF SureFacts, TypeInv, Located, Threads
<1>2. \A b : Goto(Gui, b) => at'[Updater] = at[Updater]
  BY <1>1 DEF Goto
<1>3. ASSUME Still, UNCHANGED <<enabled, batch, got, mx, todo>>, at[Gui] \notin Listing,
             at'[Updater] = at[Updater], channel' \in {channel, <<>>}
      PROVE  Steady
  <2>1. \A u \in Threads : u # Gui => at'[u] = at[u] /\ got'[u] = got[u]
    BY <1>3 DEF Threads
  <2>2. UNCHANGED lmx
    BY <1>3 DEF Still
  <2>3. Waiting
    BY <1>1, <1>3, <2>1, <2>2, StepsBeside
  <2>4. Roams
    BY <1>3 DEF Roams
  <2> QED BY <1>3, <2>3, <2>4 DEF Steady
<1>4. CASE Answered
  <2>1. UNCHANGED <<batch, stash, channel, queue>>
    BY <1>4 DEF Answered, socketVars, callVars
  <2>2. Coming' = Coming
    BY <2>1 DEF Coming
  <2>3. Still
    BY <1>4, <2>2 DEF Answered, Still, daemonVars, listVars, socketVars
  <2> QED BY <1>2, <1>3, <1>4, <2>1, <2>3 DEF Answered, callVars, Listing
<1>5. CASE Started
  <2>1. up /\ LeadsOn /\ UNCHANGED events
    BY <1>1, <1>5 DEF Started
  <2>2. channel' = <<>> /\ Coming' = Coming
    BY <1>5, HelloPutsAside DEF Started
  <2>3. Still
    BY <1>5, <2>1, <2>2 DEF Started, Still, daemonVars
  <2>4. at'[Updater] = at[Updater]
    BY <1>2, <2>1 DEF LeadsOn
  <2> QED BY <1>3, <1>5, <2>2, <2>3, <2>4 DEF Started, Listing
<1>6. CASE OnConnect
  <2>1. UNCHANGED <<batch, stash, channel, queue>>
    BY <1>6 DEF OnConnect, socketVars, callVars
  <2>2. Coming' = Coming
    BY <2>1 DEF Coming
  <2>3. Still
    BY <1>6, <2>2 DEF OnConnect, Still, daemonVars, listVars, socketVars
  <2>4. at'[Updater] = at[Updater]
    BY <1>2, <1>6 DEF OnConnect, Without
  <2> QED BY <1>3, <1>6, <2>1, <2>3, <2>4 DEF OnConnect, callVars, Listing
<1> QED BY <1>4, <1>5, <1>6, UserStepsAre

\* the handler when it sends a message, and a thread that sends its next request.
LEMMA SendingSteady ==
  ASSUME TypeInv, [Next]_vars, Sure, SureFacts,
         SendMessage \/ (\E t \in Threads : SendNext(t)) \/ UNCHANGED vars
  PROVE  Steady
<1>1. /\ queue \in Seq(Messages) /\ stash \in Seq(Messages) /\ ProperItems(channel)
      /\ batch \in Seq(Messages)
  BY DEF TypeInv, DataTypes, StreamTypes
<1>2. CASE SendMessage
  <2>1. Coming' = Coming
    BY <1>1, <1>2, LineSends DEF SendMessage, Coming, callVars, threadVars
  <2>2. Still
    BY <1>2, <2>1 DEF SendMessage, Still, daemonVars, listVars
  <2>3. Roams
    BY <1>2 DEF SendMessage, Roams, threadVars
  <2>4. \A i \in DOMAIN channel' : IsAnswer(channel'[i]) =>
          \E j \in DOMAIN channel : channel[j] = channel'[i]
    <3>1. Head(queue) \in Messages
      BY <1>1, <1>2 DEF SendMessage
    <3>2. ~IsAnswer(Head(queue))
      BY <3>1, MessagesAre
    <3>3. IsSequence(channel) /\ channel' = Append(channel, Head(queue))
      BY <1>1, <1>2 DEF SendMessage, ProperItems
    <3> QED BY <3>2, <3>3, AppendIsSequence
  <2>5. Waiting
    BY <1>2, <2>4 DEF SendMessage, Waiting, callVars, threadVars
  <2> QED BY <2>2, <2>3, <2>5 DEF Steady
<1>3. ASSUME NEW t \in Threads, SendNext(t) PROVE Steady
  <2>1. UNCHANGED <<batch, stash, channel, queue>>
    BY <1>3 DEF SendNext, threadVars
  <2>2. Coming' = Coming
    BY <2>1 DEF Coming
  <2>3. Still
    BY <1>3, <2>2 DEF SendNext, Still, daemonVars, listVars
  <2>4. Roams
    BY <1>3 DEF SendNext, Roams, threadVars
  <2>5. Waiting
    BY <1>3 DEF SendNext, Waiting, threadVars
  <2> QED BY <2>3, <2>4, <2>5 DEF Steady
<1>4. CASE UNCHANGED vars
  <2>1. UNCHANGED <<batch, stash, channel, queue>>
    BY <1>4 DEF vars, threadVars, socketVars, callVars
  <2>2. Coming' = Coming
    BY <2>1 DEF Coming
  <2>3. Still
    BY <1>4, <2>2 DEF vars, Still, daemonVars, listVars, socketVars
  <2>4. Roams
    BY <1>4 DEF vars, Roams, threadVars
  <2>5. Waiting
    BY <1>4 DEF vars, Waiting, threadVars, socketVars, callVars
  <2> QED BY <2>3, <2>4, <2>5 DEF Steady
<1> QED BY <1>2, <1>3, <1>4

--------------------------------------------------------------------------------
(* The steps that fetch a list.                                              *)

\* The answer to LIST is the list that it was carried out on.
LEMMA ReceiveView ==
  ASSUME TypeInv, Sure, ViewInv, NEW t \in Threads, Receive(t)
  PROVE  ViewInv'
<1>1. SureFacts /\ AllTold /\ Shown /\ Listed
  BY DEF ViewInv
<1>2. /\ queue \in Seq(Messages) /\ stash \in Seq(Messages) /\ ProperItems(channel)
      /\ batch \in Seq(Messages) /\ DOMAIN got = Threads
  BY DEF TypeInv, DataTypes, StreamTypes, CallInv, CallTypes
<1>3. /\ mx = t /\ sent /\ channel # <<>> /\ channel' = Tail(channel)
      /\ UNCHANGED <<list, doomed, reordered, newUpdates, newContent, view, required, events,
                     lmx, up, missed, doubled, at, enabled, batch, queue>>
  BY DEF Receive, daemonVars, listVars, threadVars
<1>4. PICK m : m = Head(channel)
  OBVIOUS
<1>5. /\ IsSequence(channel) /\ 1 \in DOMAIN channel /\ m = channel[1]
      /\ m \in Messages \/ ProperAnswer(m)
  BY <1>2, <1>3, <1>4, TailIsSequence, ItemsTail DEF ProperItems
<1>6. \A i \in DOMAIN channel' : i + 1 \in DOMAIN channel /\ channel[i + 1] = channel'[i]
  BY <1>3, <1>5, TailIsSequence
<1>7. Coming' = Coming
  <2>1. CASE IsAnswer(m)
    <3>1. UNCHANGED stash
      BY <1>4, <2>1 DEF Receive
    <3> QED BY <1>2, <1>3, <1>4, <2>1, <3>1, LineReceives DEF Coming
  <2>2. CASE ~IsAnswer(m)
    <3>1. stash' = Append(stash, m) /\ m \in Messages
      BY <1>4, <1>5, <2>2 DEF Receive, ProperAnswer
    <3> QED BY <1>2, <1>3, <1>4, <3>1, LineReceives DEF Coming
  <2> QED BY <2>1, <2>2
<1>8. SureFacts' /\ AllTold' /\ Shown'
  <2>1. Still
    BY <1>3, <1>7 DEF Still
  <2>2. Roams
    BY <1>3 DEF Roams
  <2> QED BY <1>1, <2>1, <2>2, StillKeeps
<1>9. Listed'
  <2>1. CASE ~IsAnswer(m)
    <3>1. UNCHANGED <<mx, todo, got>>
      BY <1>4, <2>1 DEF Receive
    <3>2. Waiting
      BY <1>3, <1>6, <3>1 DEF Waiting
    <3> QED BY <1>1, <1>3, <1>7, <3>2, WaitingKeeps
  <2>2. CASE IsAnswer(m)
    <3>1. /\ got'[t].command = m.command /\ got'[t].value = m.value
          /\ \A u \in Threads : u # t => got'[u] = got[u]
          /\ todo' = AfterAnswer(todo, m.value)
          /\ mx' = IF AfterAnswer(todo, m.value) = <<>> THEN NoThread ELSE t
      BY <1>2, <1>4, <2>2 DEF Receive
    <3> SUFFICES ASSUME NEW u \in Threads, at'[u] = "listed" PROVE ListedOne(u)'
      BY DEF Listed
    <3>2. at[u] = "listed" /\ ListedOne(u)
      BY <1>1, <1>3 DEF Listed
    <3>3. u # NoThread
      BY ThreadAssumption DEF Threads
    <3>4. CASE u = t
      <4>1. todo = GetList /\ Right(m.value, Coming)
        BY <1>3, <1>5, <2>2, <3>2, <3>4 DEF ListedOne
      <4>2. AfterAnswer(todo, m.value) = <<>>
        BY <4>1 DEF AfterAnswer, GetList, Request
      <4>3. m.command = "LIST"
        <5>1. m.command = Head(todo).command
          BY <1>5, <2>2 DEF TypeInv, CallInv, AnswersFit, Sure
        <5> QED BY <4>1, <5>1 DEF GetList, Request
      <4>4. m.value # NoAnswer
        <5>1. ProperAnswer(m)
          BY <1>5, <2>2, MessagesAre
        <5>2. m.value \in DownloadLists
          BY <4>3, <5>1 DEF ProperAnswer, ProperLists
        <5> QED BY <5>2, AnswerAssumption DEF DownloadLists
      <4>5. mx' # u
        BY <3>1, <3>3, <4>2
      <4>6. Good(got'[u].value, Coming', list', doomed', reordered')
        BY <1>3, <1>7, <3>1, <3>4, <4>1 DEF Right
      <4> QED BY <3>1, <3>4, <4>3, <4>4, <4>5, <4>6 DEF ListedOne, Right
    <3>5. CASE u # t
      <4>1. mx # u /\ mx' # u /\ got'[u] = got[u]
        BY <1>3, <3>1, <3>3, <3>5
      <4>2. Good(got[u].value, Coming', list', doomed', reordered')
        BY <1>3, <1>7, <3>2, <4>1 DEF ListedOne, Right
      <4> QED BY <3>2, <4>1, <4>2 DEF ListedOne, Right
    <3> QED BY <3>4, <3>5
  <2> QED BY <2>1, <2>2
<1> QED BY <1>8, <1>9 DEF ViewInv

\* While one is fetched, nothing has to be shown.
LEMMA FetchingView ==
  ASSUME TypeInv, TypeInv', [Next]_vars, Sure, ViewInv, NEW t \in Threads,
         PrepareFullList(t) \/ RequestList(t)
  PROVE  ViewInv'
<1>1. SureFacts /\ AllTold /\ Shown /\ Listed
  BY DEF ViewInv
<1>2. up /\ at \in [Threads -> Places] /\ NoThread \notin Threads /\ Updater \in Threads
  BY <1>1, ThreadAssumption DEF SureFacts, TypeInv, Located, Threads
<1>3. \A b : Goto(t, b) => at'[t] = b /\ \A u \in Threads : u # t => at'[u] = at[u]
  BY <1>2 DEF Goto
<1>4. CASE PrepareFullList(t)
  <2>1. /\ at[t] = "reload" /\ at'[t] = "list" /\ lmx = NoThread /\ lmx' = t
        /\ \A u \in Threads : u # t => at'[u] = at[u]
    BY <1>3, <1>4 DEF PrepareFullList
  <2>2. UNCHANGED <<list, doomed, reordered, newUpdates, required, events, up, missed, doubled,
                    enabled, batch, stash, channel, queue>>
    BY <1>4 DEF PrepareFullList, daemonVars, socketVars, callVars
  <2>3. Coming' = Coming
    BY <2>2 DEF Coming
  <2>4. AllTold'
    BY <1>1, <2>2, <2>3 DEF AllTold, InStore
  <2>5. Shown'
    BY <1>2, <2>1 DEF Shown
  <2>6. SureFacts'
    <3>1. at'[Updater] = at[Updater] \/ (at[Updater] = "reload" /\ at'[Updater] = "list")
      BY <1>2, <2>1
    <3> QED BY <1>1, <2>2, <3>1 DEF SureFacts, Listing
  <2>7. Listed'
    <3>1. \A u \in Threads : at'[u] # "listed"
      <4> TAKE u \in Threads
      <4>1. lmx # u
        BY <1>2, <2>1
      <4>2. at[u] \notin Listing
        BY <4>1 DEF TypeInv, Located
      <4> QED BY <2>1, <4>2 DEF Listing
    <3> QED BY <3>1 DEF Listed
  <2> QED BY <2>4, <2>5, <2>6, <2>7 DEF ViewInv
<1>5. CASE RequestList(t)
  <2>1. /\ Begin(t, GetList) /\ at'[t] = "listed" /\ at[t] = "list"
        /\ \A u \in Threads : u # t => at'[u] = at[u]
        /\ UNCHANGED <<lmx, events>>
    BY <1>2, <1>3, <1>5 DEF RequestList, Refused
  <2>2. UNCHANGED <<list, doomed, reordered, newUpdates, required, up, missed, doubled,
                    enabled, batch, queue>>
    BY <1>5 DEF RequestList, daemonVars
  <2>3. channel' = <<>> /\ Coming' = Coming /\ mx' = t /\ todo' = GetList
    BY <2>1, <2>2, HelloPutsAside DEF Begin
  <2>4. AllTold'
    BY <1>1, <2>2, <2>3 DEF AllTold, InStore
  <2>5. lmx = t
    BY <2>1 DEF TypeInv, Located, Listing
  <2>6. Shown'
    BY <1>2, <2>1, <2>5 DEF Shown
  <2>7. SureFacts'
    <3>1. at'[Updater] = at[Updater] \/ (at[Updater] = "list" /\ at'[Updater] = "listed")
      BY <1>2, <2>1
    <3> QED BY <1>1, <2>1, <2>2, <3>1 DEF SureFacts, Listing
  <2>8. Listed'
    <3> SUFFICES ASSUME NEW u \in Threads, at'[u] = "listed" PROVE ListedOne(u)'
      BY DEF Listed
    <3>1. u = t
      <4>1. at'[u] \in Listing
        BY DEF Listing
      <4>2. lmx' = u
        BY <4>1 DEF TypeInv, Located
      <4> QED BY <2>1, <2>5, <4>2
    <3>2. DOMAIN channel' = {}
      BY <2>3
    <3> QED BY <2>3, <3>1, <3>2 DEF ListedOne
  <2> QED BY <2>4, <2>6, <2>7, <2>8 DEF ViewInv
<1> QED BY <1>4, <1>5

\* A reload that is asked for waits behind the others.
LEMMA AskedFor ==
  ASSUME NEW S, NEW s \in Seq(S), NEW e \in S
  PROVE  /\ Append(s, e) # <<>> /\ Last(Append(s, e)) = e
         /\ \A k : Contains(Append(s, e), k) <=> Contains(s, k) \/ k = e
<1>1. PICK r, n : r = Append(s, e) /\ n = Len(s)
  OBVIOUS
<1>2. /\ r \in Seq(S) /\ n \in Nat /\ Len(r) = n + 1 /\ r[n + 1] = e
      /\ \A i \in 1 .. n : r[i] = s[i]
  BY <1>1
<1>3. r # <<>> /\ Last(r) = e
  BY <1>2 DEF Last
<1>4. ASSUME NEW k PROVE Contains(r, k) <=> Contains(s, k) \/ k = e
  <2>1. Contains(r, k) <=> \E i \in 1 .. n + 1 : r[i] = k
    BY <1>2 DEF Contains
  <2>2. Contains(s, k) <=> \E i \in 1 .. n : s[i] = k
    BY <1>1 DEF Contains
  <2> QED BY <1>2, <2>1, <2>2
<1> QED BY <1>1, <1>3, <1>4

\* The list that is there is the one to show, and no batch is applied to it that
\* is older.
LEMMA ListReturnsView ==
  ASSUME TypeInv, TypeInv', [Next]_vars, Sure, ViewInv, NEW t \in Threads, ListReturns(t)
  PROVE  ViewInv'
<1>1. SureFacts /\ AllTold /\ Shown /\ Listed
  BY DEF ViewInv
<1>2. /\ at \in [Threads -> Places] /\ NoThread \notin Threads /\ Updater \in Threads
      /\ Gui \in Threads /\ DOMAIN got = Threads /\ events \in Seq(EventKinds)
  BY ThreadAssumption DEF TypeInv, Located, Threads, CallInv, CallTypes, DataTypes, WindowTypes
<1>3. /\ at[t] = "listed" /\ mx # t /\ newContent' = ListIn(got[t]) /\ ListReady(t)
      /\ UNCHANGED <<list, doomed, reordered, newUpdates, required, up, missed, doubled, view,
                     enabled, batch, stash, channel, queue>>
  BY DEF ListReturns, Returned, daemonVars, socketVars
<1>4. Coming' = Coming
  BY <1>3 DEF Coming
<1>5. PICK v : v = got[t].value
  OBVIOUS
<1>6. newContent' = v /\ Right(v, Coming)
  <2>1. ListedOne(t)
    BY <1>1, <1>3 DEF Listed
  <2> QED BY <1>3, <1>5, <2>1 DEF ListedOne, ListIn
<1>7. PICK b : /\ Goto(t, b)
               /\ b \in {"loop", "subscribe", "connecting", "reset", "idle"}
               /\ t = Updater => b \in {"loop", "subscribe"}
  BY <1>3 DEF ListReady
<1>8. at'[t] = b /\ \A u \in Threads : u # t => at'[u] = at[u]
  BY <1>2, <1>7 DEF Goto
<1>9. PICK kind \in {"full", "subs"} : /\ events' = Append(events, kind)
                                       /\ kind = "subs" => t = Updater /\ enabled
  BY <1>3 DEF ListReady
<1>10. kind = "subs" => required
  <2>1. at[t] \in Listing
    BY <1>3 DEF Listing
  <2> QED BY <1>1, <1>9, <2>1 DEF SureFacts
<1>11. /\ events' # <<>> /\ Last(events') = kind
       /\ \A k : Contains(events', k) <=> Contains(events, k) \/ k = kind
  <2>1. kind \in EventKinds
    BY DEF EventKinds
  <2> QED BY <1>2, <1>9, <2>1, AskedFor
<1>12. Loads' /\ ~Applies'
  BY <1>3, <1>9, <1>10, <1>11 DEF Loads, Applies
<1>13. Shown'
  <2>1. Good(newContent', Coming', list', doomed', reordered')
    BY <1>3, <1>4, <1>6 DEF Right
  <2> QED BY <1>12, <2>1 DEF Shown, Base, Todo, Right
<1>14. AllTold'
  BY <1>1, <1>3, <1>4 DEF AllTold, InStore
<1>15. SureFacts'
  <2>1. ~Contains(events', "clear")
    BY <1>1, <1>9, <1>11 DEF SureFacts
  <2>2. at'[Updater] = at[Updater] \/ (at[Updater] = "listed" /\ at'[Updater] \in {"loop", "subscribe"})
    BY <1>2, <1>3, <1>7, <1>8
  <2> QED BY <1>1, <1>3, <2>1, <2>2 DEF SureFacts, Listing
<1>16. Listed'
  <2>1. \A u \in Threads : at'[u] # "listed"
    <3> TAKE u \in Threads
    <3>1. CASE u = t
      BY <1>7, <1>8, <3>1
    <3>2. CASE u # t
      <4>1. at[t] \in Listing
        BY <1>3 DEF Listing
      <4>2. lmx # u
        BY <3>2, <4>1 DEF TypeInv, Located
      <4>3. at[u] \notin Listing
        BY <4>2 DEF TypeInv, Located
      <4> QED BY <1>8, <3>2, <4>3 DEF Listing
    <3> QED BY <3>1, <3>2
  <2> QED BY <2>1 DEF Listed
<1> QED BY <1>13, <1>14, <1>15, <1>16 DEF ViewInv

--------------------------------------------------------------------------------
(* The steps that deal with a batch.                                         *)

\* What a sequence contains and ends with, and what is behind its first element.
LEMMA HeadAndRest ==
  ASSUME NEW S, NEW s \in Seq(S), s # <<>>
  PROVE  /\ Head(s) \in S /\ Tail(s) \in Seq(S)
         /\ \A k : Contains(s, k) <=> k = Head(s) \/ Contains(Tail(s), k)
         /\ Tail(s) # <<>> => Last(Tail(s)) = Last(s)
         /\ Tail(s) = <<>> => Last(s) = Head(s)
         /\ Contains(s, Last(s))
<1>1. PICK r, n : r = Tail(s) /\ n = Len(s)
  OBVIOUS
<1>2. /\ r \in Seq(S) /\ n \in Nat /\ n > 0 /\ Len(r) = n - 1 /\ Head(s) = s[1] /\ s[1] \in S
      /\ \A i \in 1 .. n - 1 : r[i] = s[i + 1]
  BY <1>1
<1>3. \A k : Contains(s, k) <=> k = Head(s) \/ Contains(r, k)
  <2> TAKE k
  <2>1. Contains(s, k) <=> \E i \in 1 .. n : s[i] = k
    BY <1>1 DEF Contains
  <2>2. Contains(r, k) <=> \E i \in 1 .. n - 1 : r[i] = k
    BY <1>2 DEF Contains
  <2>3. ASSUME NEW i \in 1 .. n, s[i] = k PROVE k = s[1] \/ \E j \in 1 .. n - 1 : r[j] = k
    <3>1. CASE i = 1
      BY <2>3, <3>1
    <3>2. CASE i # 1
      <4>1. PICK j : j = i - 1
        OBVIOUS
      <4>2. j \in 1 .. n - 1 /\ j + 1 = i
        BY <1>2, <3>2, <4>1
      <4> QED BY <1>2, <2>3, <4>2
    <3> QED BY <3>1, <3>2
  <2>4. ASSUME NEW j \in 1 .. n - 1, r[j] = k PROVE \E i \in 1 .. n : s[i] = k
    <3>1. j + 1 \in 1 .. n /\ s[j + 1] = k
      BY <1>2, <2>4
    <3> QED BY <3>1
  <2>5. 1 \in 1 .. n
    BY <1>2
  <2> QED BY <1>2, <2>1, <2>2, <2>3, <2>4, <2>5
<1>4. r # <<>> => Last(r) = Last(s)
  <2>1. ASSUME r # <<>> PROVE Last(r) = Last(s)
    <3>1. n - 1 \in 1 .. n - 1
      BY <1>2, <2>1
    <3>2. r[n - 1] = s[n]
      BY <1>2, <3>1
    <3> QED BY <1>1, <1>2, <3>2 DEF Last
  <2> QED BY <2>1
<1>5. r = <<>> => Last(s) = Head(s)
  <2>1. ASSUME r = <<>> PROVE Last(s) = Head(s)
    <3>1. Len(r) = 0
      BY <2>1
    <3>2. n = 1
      BY <1>2, <3>1
    <3> QED BY <1>1, <1>2, <3>2 DEF Last
  <2> QED BY <2>1
<1>6. Contains(s, Last(s))
  <2>1. n \in 1 .. n /\ Last(s) = s[n]
    BY <1>1, <1>2 DEF Last
  <2> QED BY <1>1, <2>1 DEF Contains
<1> QED BY <1>1, <1>2, <1>3, <1>4, <1>5, <1>6

\* A reload shows the list that was fetched, or applies the batch, which is then
\* still as good when another reload applies it again.
LEMMA HandleEventView ==
  ASSUME TypeInv, Sure, ViewInv, HandleEvent
  PROVE  ViewInv'
<1>1. SureFacts /\ AllTold /\ Shown /\ Listed
  BY DEF ViewInv
<1>2. /\ list \in ProperLists /\ view \in ProperLists /\ newUpdates \in Seq(Messages)
      /\ Ids(list) \cap doomed = {} /\ events \in Seq(EventKinds)
      /\ Coming \in Seq(Messages)
  BY ComingTypes DEF TypeInv, DataTypes, ProgramTypes, WindowTypes, StreamTypes
<1>3. /\ events # <<>> /\ events' = Tail(events) /\ Hello
      /\ lmx = NoThread /\ mx = NoThread /\ up
      /\ UNCHANGED <<list, doomed, reordered, newUpdates, newContent, required, up, missed, doubled,
                     enabled, batch, queue, lmx, at, mx, todo, got>>
  BY <1>1 DEF HandleEvent, daemonVars, threadVars, SureFacts
<1>4. channel' = <<>> /\ Coming' = Coming
  BY <1>3, HelloPutsAside
<1>5. PICK h, rest : h = Head(events) /\ rest = Tail(events)
  OBVIOUS
<1>6. /\ h \in EventKinds /\ rest \in Seq(EventKinds)
      /\ \A k : Contains(events, k) <=> k = h \/ Contains(rest, k)
      /\ rest # <<>> => Last(rest) = Last(events)
      /\ rest = <<>> => Last(events) = h
      /\ Contains(events, Last(events))
  BY <1>2, <1>3, <1>5, HeadAndRest
<1>7. h # "clear" /\ events' = rest
  BY <1>1, <1>3, <1>5, <1>6 DEF SureFacts
<1>8. view' = IF h = "subs" /\ ~required THEN AppliedAll(view, newUpdates) ELSE newContent
  BY <1>3, <1>5, <1>7 DEF HandleEvent
<1>9. AllTold'
  BY <1>1, <1>3, <1>4 DEF AllTold, InStore
<1>10. SureFacts'
  BY <1>1, <1>3, <1>6, <1>7 DEF SureFacts
<1>11. Listed'
  <2>1. Waiting
    <3>1. DOMAIN channel' = {}
      BY <1>4
    <3> QED BY <1>3, <3>1 DEF Waiting
  <2> QED BY <1>1, <1>3, <1>4, <2>1, WaitingKeeps
<1>12. Loads' <=> rest # <<>> /\ (required \/ Contains(rest, "full"))
  BY <1>3, <1>7 DEF Loads
<1>13. Applies' <=> rest # <<>> /\ ~required /\ Last(rest) = "subs"
  BY <1>3, <1>7 DEF Applies
<1>14. Todo' = (IF Applies' THEN InStore ELSE Coming) /\ Base' = (IF Loads' THEN newContent ELSE view')
  BY <1>3, <1>4 DEF Todo, Base, InStore
<1>15. ASSUME NEW p, NEW v, Right(v, p) PROVE Good(v, p, list', doomed', reordered')
  BY <1>3, <1>15 DEF Right
<1>16. SUFFICES ASSUME at[Updater] \notin {"first", "reload"}, Right(Base, Todo)
                PROVE  Right(Base', Todo')
  <2>1. SUFFICES ASSUME at'[Updater] \notin {"first", "reload"}
                 PROVE  Good(Base', Todo', list', doomed', reordered')
    BY <1>9, <1>10, <1>11 DEF ViewInv, Shown, Right
  <2>2. at[Updater] \notin {"first", "reload"} /\ Right(Base, Todo)
    BY <1>1, <1>3, <2>1 DEF Shown
  <2>3. Right(Base', Todo')
    BY <1>16, <2>2
  <2> QED BY <1>15, <2>3
<1>17. CASE h = "full" \/ required
  <2>1. Loads /\ Base = newContent
    BY <1>3, <1>6, <1>17 DEF Loads, Base
  <2>2. Base' = newContent
    BY <1>8, <1>14, <1>17
  <2>3. Applies' <=> Applies
    BY <1>3, <1>6, <1>13, <1>17 DEF Applies
  <2> QED BY <1>14, <1>16, <2>1, <2>2, <2>3 DEF Todo
<1>18. CASE h = "subs" /\ ~required /\ Contains(rest, "full")
  <2>1. rest # <<>>
    BY <1>18 DEF Contains
  <2>2. Loads /\ Base = newContent /\ Base' = newContent
    BY <1>3, <1>6, <1>12, <1>14, <1>18, <2>1 DEF Loads, Base
  <2>3. Applies' <=> Applies
    BY <1>3, <1>6, <1>13, <2>1 DEF Applies
  <2> QED BY <1>14, <1>16, <2>2, <2>3 DEF Todo
<1>19. CASE h = "subs" /\ ~required /\ ~Contains(rest, "full")
  <2>1. ~Contains(events, "full")
    BY <1>6, <1>19
  <2>2. Last(events) = "subs"
    <3>1. Last(events) \in EventKinds
      BY <1>2, <1>3, <1>6 DEF Last
    <3>2. ~Contains(events, "clear")
      BY <1>1 DEF SureFacts
    <3> QED BY <1>6, <2>1, <3>1, <3>2 DEF EventKinds
  <2>3. Base = view /\ Todo = InStore
    BY <1>3, <1>19, <2>1, <2>2 DEF Loads, Base, Applies, Todo
  <2>4. ~HasMove(newUpdates)
    BY <1>1, <1>19 DEF SureFacts
  <2>5. PICK w : w = AppliedAll(view, newUpdates)
    OBVIOUS
  <2>6. w \in ProperLists
    BY <1>2, <2>5, AppliedIsProper
  <2>7. Good(w, Coming, list, doomed, reordered)
    <3>1. Told(newUpdates \o Coming, list, doomed, reordered)
      BY <1>1 DEF AllTold, InStore
    <3>2. Good(view, newUpdates \o Coming, list, doomed, reordered)
      BY <1>16, <2>3 DEF Right, InStore
    <3> QED BY <1>2, <2>4, <2>5, <3>1, <3>2, BatchIsGood
  <2>8. Good(w, newUpdates \o Coming, list, doomed, reordered)
    <3>1. Told(newUpdates \o Coming, list, doomed, reordered)
      BY <1>1 DEF AllTold, InStore
    <3> QED BY <1>2, <2>6, <2>7, <3>1, OlderIsGood
  <2>9. Base' = w
    BY <1>8, <1>12, <1>14, <1>19, <2>5
  <2> QED BY <1>14, <2>7, <2>8, <2>9 DEF Right, InStore
<1> QED BY <1>6, <1>7, <1>17, <1>18, <1>19 DEF EventKinds

\* Of the messages that are fetched, those that are left out do not matter.
LEMMA GetUpdatesView ==
  ASSUME TypeInv, TypeInv', Sure, ViewInv, GetUpdates
  PROVE  ViewInv'
<1>1. SureFacts /\ AllTold /\ Shown /\ Listed
  BY DEF ViewInv
<1>2. /\ list \in ProperLists /\ view \in ProperLists /\ newContent \in ProperLists
      /\ newUpdates \in Seq(Messages) /\ stash \in Seq(Messages) /\ queue \in Seq(Messages)
      /\ ProperItems(channel) /\ at \in [Threads -> Places]
      /\ Coming \in Seq(Messages) /\ InStore \in Seq(Messages)
      /\ Coming' \in Seq(Messages) /\ InStore' \in Seq(Messages)
  <2>1. Coming \in Seq(Messages) /\ InStore \in Seq(Messages)
    BY ComingTypes DEF TypeInv
  <2>2. Coming' \in Seq(Messages) /\ InStore' \in Seq(Messages)
    <3>1. /\ queue' \in Seq(Messages) /\ stash' \in Seq(Messages) /\ ProperItems(channel')
          /\ batch' \in Seq(Messages) /\ newUpdates' \in Seq(Messages)
      BY DEF TypeInv, DataTypes, StreamTypes
    <3>2. Coming' \in Seq(Messages)
      BY <3>1, LineTypes DEF Coming
    <3> QED BY <3>1, <3>2, ConcatProperties DEF InStore
  <2> QED BY <2>1, <2>2 DEF TypeInv, DataTypes, ProgramTypes, WindowTypes, StreamTypes, Located
<1>3. /\ at[Updater] = "updates" /\ Goto(Updater, "prepare") /\ mx = NoThread
      /\ UNCHANGED <<list, doomed, reordered, newUpdates, newContent, view, required, events, lmx,
                     up, missed, doubled, enabled, queue, mx, todo, got>>
  BY DEF GetUpdates, daemonVars, listVars
<1>4. Updater \in Threads /\ Gui \in Threads /\ Gui # Updater
  BY ThreadAssumption DEF Threads
<1>5. at'[Updater] = "prepare" /\ \A u \in Threads : u # Updater => at'[u] = at[u]
  BY <1>2, <1>3, <1>4 DEF Goto
<1>6. batch = <<>>
  BY <1>1, <1>3 DEF SureFacts
<1>7. Thins(Coming, Coming') \/ Coming' = Coming
  <2>1. CASE batch' = <<>> /\ UNCHANGED <<stash, channel>>
    BY <1>3, <1>6, <2>1 DEF Coming
  <2>2. CASE batch' = Latest(stash \o Kept(channel, Messages)) /\ stash' = <<>> /\ channel' = <<>>
    <3>1. PICK k, s : k = Kept(channel, Messages) /\ s = stash \o k
      OBVIOUS
    <3>2. k \in Seq(Messages)
      BY <1>2, <3>1, ItemsKept
    <3>3. s \in Seq(Messages)
      BY <1>2, <3>1, <3>2, ConcatProperties
    <3>4. Latest(s) \in Seq(Messages) /\ Thins(s, Latest(s))
      BY <3>3, LatestThins
    <3>5. PICK b : b = Latest(s)
      OBVIOUS
    <3>6. b \in Seq(Messages) /\ Thins(s, b)
      BY <3>4, <3>5
    <3>7. Thins(s \o queue, b \o queue)
      BY <1>2, <3>3, <3>6, ThinsBetween
    <3>8. Coming = s \o queue
      <4>1. (stash \o k) \o queue = stash \o (k \o queue)
        <5>1. stash \in Seq(Messages) /\ k \in Seq(Messages) /\ queue \in Seq(Messages)
          BY <1>2, <3>2
        <5> QED BY <5>1, Joining
      <4>2. stash \o (k \o queue) \in Seq(Messages)
        BY <1>2, <3>1, LineTypes
      <4>3. <<>> \o (stash \o (k \o queue)) = stash \o (k \o queue)
        BY <4>2, ConcatEmptySeq
      <4> QED BY <1>6, <3>1, <4>1, <4>3 DEF Coming, Line
    <3>9. Coming' = b \o queue
      <4>1. Kept(<<>>, Messages) = <<>>
        BY <1>2, KeptItems
      <4>2. <<>> \o queue = queue
        BY <1>2, ConcatEmptySeq
      <4> QED BY <1>3, <2>2, <3>1, <3>5, <4>1, <4>2 DEF Coming, Line
    <3> QED BY <3>7, <3>8, <3>9
  <2> QED BY <2>1, <2>2 DEF GetUpdates
<1>8. Thins(InStore, InStore') \/ InStore' = InStore
  BY <1>2, <1>3, <1>7, ThinsBetween DEF InStore
<1>9. \A v \in ProperLists : /\ Right(v, Coming) => Right(v, Coming')
                             /\ Right(v, InStore) => Right(v, InStore')
  BY <1>2, <1>7, <1>8, ThinIsGood DEF Right
<1>10. AllTold'
  <2>1. Told(InStore', list, doomed, reordered)
    BY <1>1, <1>2, <1>8, ThinIsGood DEF AllTold
  <2> QED BY <1>3, <2>1 DEF AllTold
<1>11. SureFacts'
  BY <1>1, <1>3, <1>5 DEF SureFacts, Listing
<1>12. Shown'
  <2>1. Base \in ProperLists
    BY <1>2 DEF Base
  <2>2. Base' = Base /\ (Applies' <=> Applies)
    BY <1>3 DEF Base, Loads, Applies
  <2>3. lmx = NoThread => Right(Base, Todo)
    BY <1>1, <1>3 DEF Shown
  <2>4. lmx = NoThread => Right(Base', Todo')
    BY <1>9, <2>1, <2>2, <2>3 DEF Todo
  <2>5. Right(Base', Todo') => Right(Base, Todo)'
    BY <1>3 DEF Right
  <2> QED BY <1>3, <2>4, <2>5 DEF Shown
<1>13. Listed'
  <2> SUFFICES ASSUME NEW u \in Threads, at'[u] = "listed" PROVE ListedOne(u)'
    BY DEF Listed
  <2>1. u # Updater /\ at[u] = "listed" /\ ListedOne(u)
    BY <1>1, <1>5 DEF Listed
  <2>2. mx # u
    BY <1>3, ThreadAssumption DEF Threads
  <2>3. got[u].command = "LIST" /\ got[u].value # NoAnswer /\ Right(got[u].value, Coming)
    BY <2>1, <2>2 DEF ListedOne
  <2>4. got[u].value \in ProperLists
    BY <2>3 DEF TypeInv, DataTypes, StreamTypes
  <2>5. Right(got[u].value, Coming')
    BY <1>9, <2>3, <2>4
  <2>6. Good(got'[u].value, Coming', list', doomed', reordered')
    BY <1>3, <2>5 DEF Right
  <2> QED BY <1>3, <2>2, <2>3, <2>6 DEF ListedOne, Right
<1> QED BY <1>10, <1>11, <1>12, <1>13 DEF ViewInv

\* A batch that takes the place of one that no reload applies any more, or of none.
LEMMA PrepareUpdatesView ==
  ASSUME TypeInv, TypeInv', Sure, ViewInv, Sure', PrepareUpdates
  PROVE  ViewInv'
<1>1. SureFacts /\ AllTold /\ Shown /\ Listed
  BY DEF ViewInv
<1>2. /\ newUpdates \in Seq(Messages) /\ stash \in Seq(Messages) /\ queue \in Seq(Messages)
      /\ batch \in Seq(Messages) /\ ProperItems(channel) /\ at \in [Threads -> Places]
      /\ events \in Seq(EventKinds) /\ Coming \in Seq(Messages)
  BY ComingTypes DEF TypeInv, DataTypes, WindowTypes, StreamTypes, Located
<1>3. /\ at[Updater] = "prepare" /\ lmx = NoThread /\ newUpdates' = batch /\ batch' = <<>>
      /\ newUpdates = <<>> \/ ~Contains(events, "subs")
      /\ required' = HasMove(batch)
      /\ UNCHANGED <<list, doomed, reordered, view, up, missed, doubled, enabled, stash, channel, queue>>
  <2>1. missed' = (missed \/ (newUpdates # <<>> /\ Contains(events, "subs")))
    BY DEF PrepareUpdates
  <2>2. ~missed /\ ~missed'
    BY DEF Sure
  <2>3. newUpdates = <<>> \/ ~Contains(events, "subs")
    BY <2>1, <2>2
  <2>4. missed' = missed
    BY <2>2 DEF TypeInv, FlagTypes
  <2> QED BY <2>3, <2>4 DEF PrepareUpdates, daemonVars, callVars, socketVars
<1>4. Updater \in Threads /\ NoThread \notin Threads
  BY ThreadAssumption DEF Threads
<1>5. InStore' = Coming
  <2>1. PICK r : r = stash \o (Kept(channel, Messages) \o queue)
    OBVIOUS
  <2>2. r \in Seq(Messages)
    BY <1>2, <2>1, LineTypes
  <2>3. <<>> \o r = r
    BY <2>2, ConcatEmptySeq
  <2> QED BY <1>3, <2>1, <2>3 DEF InStore, Coming, Line
<1>6. AllTold'
  <2>1. Told(Coming, list, doomed, reordered)
    BY <1>1, <1>2, SuffixTold DEF AllTold, InStore
  <2> QED BY <1>3, <1>5, <2>1 DEF AllTold
<1>7. Listed'
  <2>1. \A u \in Threads : at'[u] # "listed"
    <3> TAKE u \in Threads
    <3>1. at[u] # "listed"
      BY <1>3, <1>4 DEF TypeInv, Located, Listing
    <3>2. Goto(Updater, "list") \/ Goto(Updater, "loop")
      BY DEF PrepareUpdates
    <3> QED BY <1>2, <3>1, <3>2 DEF Goto
  <2> QED BY <2>1 DEF Listed
<1>8. CASE HasMove(batch)
  <2>1. lmx' = Updater /\ Goto(Updater, "list") /\ UNCHANGED events
    BY <1>8 DEF PrepareUpdates
  <2>2. at'[Updater] = "list"
    BY <1>2, <1>4, <2>1 DEF Goto
  <2>3. SureFacts'
    BY <1>1, <1>3, <1>8, <2>1, <2>2 DEF SureFacts
  <2>4. Shown'
    BY <1>4, <2>1 DEF Shown
  <2> QED BY <1>6, <1>7, <2>3, <2>4 DEF ViewInv
<1>9. CASE ~HasMove(batch)
  <2>1. /\ events' = Append(events, "subs") /\ Goto(Updater, "loop") /\ UNCHANGED <<lmx, newContent>>
        /\ ~required'
    BY <1>3, <1>9 DEF PrepareUpdates
  <2>2. at'[Updater] = "loop"
    BY <1>2, <1>4, <2>1 DEF Goto
  <2>3. /\ events' # <<>> /\ Last(events') = "subs"
        /\ \A k : Contains(events', k) <=> Contains(events, k) \/ k = "subs"
    <3>1. "subs" \in EventKinds
      BY DEF EventKinds
    <3> QED BY <1>2, <2>1, <3>1, AskedFor
  <2>4. SureFacts'
    BY <1>1, <1>3, <1>9, <2>2, <2>3 DEF SureFacts, Listing
  <2>5. Todo' = Coming
    BY <1>5, <2>1, <2>3 DEF Todo, Applies
  <2>6. Base' = IF Contains(events, "full") THEN newContent ELSE view
    BY <1>3, <2>1, <2>3 DEF Base, Loads
  <2>7. Right(Base, Todo)
    BY <1>1, <1>3 DEF Shown
  <2>8. newUpdates = <<>> => InStore = Coming /\ ~required
    <3>1. <<>> \o Coming = Coming
      BY <1>2, ConcatEmptySeq
    <3>2. ~HasMove(<<>>)
      BY DEF HasMove
    <3> QED BY <1>1, <3>1, <3>2 DEF InStore, SureFacts
  <2>9. ASSUME events # <<>>, ~Contains(events, "full")
        PROVE  Contains(events, "subs") /\ Last(events) = "subs" /\ newUpdates = <<>>
    <3>1. Contains(events, Last(events)) /\ Last(events) \in EventKinds
      <4>1. Contains(events, Last(events))
        BY <1>2, <2>9, HeadAndRest
      <4>2. Last(events) \in EventKinds
        BY <1>2, <2>9 DEF Last
      <4> QED BY <4>1, <4>2
    <3>2. ~Contains(events, "clear")
      BY <1>1 DEF SureFacts
    <3>3. Last(events) = "subs"
      BY <2>9, <3>1, <3>2 DEF EventKinds
    <3> QED BY <1>3, <3>1, <3>3
  <2>10. Contains(events, "full") => events # <<>>
    BY DEF Contains
  <2>11. Applies => Contains(events, "subs")
    <3>1. events # <<>> => Contains(events, Last(events))
      BY <1>2, HeadAndRest
    <3> QED BY <3>1 DEF Applies
  <2>12. Todo = Coming
    BY <1>3, <2>8, <2>11 DEF Todo
  <2>13. Base = IF Contains(events, "full") THEN newContent ELSE view
    BY <2>8, <2>9, <2>10 DEF Base, Loads
  <2>14. Shown'
    <3>1. Good(Base', Todo', list', doomed', reordered')
      BY <1>3, <2>5, <2>6, <2>7, <2>12, <2>13 DEF Right
    <3> QED BY <3>1 DEF Shown, Right
  <2> QED BY <1>6, <1>7, <2>4, <2>14 DEF ViewInv
<1> QED BY <1>8, <1>9

--------------------------------------------------------------------------------
(* The steps of the program.                                                 *)

\* A download that a message on its way says is deleted is one under way.
LEMMA DeletedIsUnderWay ==
  ASSUME TypeInv, NEW m, m.kind = "NEW", Has("DELETE", InStore, m.id)
  PROVE  Reuses(m)
<1>1. /\ queue \in Seq(Messages) /\ stash \in Seq(Messages) /\ batch \in Seq(Messages)
      /\ newUpdates \in Seq(Messages) /\ ProperItems(channel)
  BY DEF TypeInv, DataTypes, StreamTypes
<1>2. PICK S : channel \in Seq(S)
  BY <1>1 DEF ProperItems, IsSequence
<1>3. PICK T : T = S \cup Messages
  OBVIOUS
<1>4. /\ queue \in Seq(T) /\ stash \in Seq(T) /\ batch \in Seq(T)
      /\ newUpdates \in Seq(T) /\ channel \in Seq(T)
  BY <1>1, <1>2, <1>3
<1>5. PICK k : k = Kept(channel, Messages)
  OBVIOUS
<1>6. k \in Seq(T) /\ ToSet(k) \subseteq ToSet(channel)
  <2>1. ToSet(k) = ToSet(channel) \cap Messages /\ k \in Seq(T \cap Messages)
    BY <1>4, <1>5, KeptFacts
  <2> QED BY <2>1
<1>7. \A a, b \in Seq(T) : a \o b \in Seq(T) /\ ToSet(a \o b) = ToSet(a) \cup ToSet(b)
  BY ConcatFacts
<1>8. ToSet(InStore) \subseteq ToSet(newUpdates) \cup ToSet(batch) \cup ToSet(stash)
                               \cup ToSet(channel) \cup ToSet(queue)
  <2>1. PICK x, y, z : x = k \o queue /\ y = stash \o x /\ z = batch \o y
    OBVIOUS
  <2>2. x \in Seq(T) /\ ToSet(x) = ToSet(k) \cup ToSet(queue)
    BY <1>4, <1>6, <1>7, <2>1
  <2>3. y \in Seq(T) /\ ToSet(y) = ToSet(stash) \cup ToSet(x)
    BY <1>4, <1>7, <2>1, <2>2
  <2>4. z \in Seq(T) /\ ToSet(z) = ToSet(batch) \cup ToSet(y)
    BY <1>4, <1>7, <2>1, <2>3
  <2>5. ToSet(newUpdates \o z) = ToSet(newUpdates) \cup ToSet(z)
    BY <1>4, <1>7, <2>4
  <2>6. InStore = newUpdates \o z
    BY <1>5, <2>1 DEF InStore, Coming, Line
  <2> QED BY <1>6, <2>2, <2>3, <2>4, <2>5, <2>6
<1>9. ToSet(UnderWay) = ToSet(queue) \cup ToSet(channel) \cup ToSet(stash)
                               \cup ToSet(batch) \cup ToSet(newUpdates)
  <2>1. PICK x, y, z : x = queue \o channel /\ y = x \o stash /\ z = y \o batch
    OBVIOUS
  <2>2. x \in Seq(T) /\ ToSet(x) = ToSet(queue) \cup ToSet(channel)
    BY <1>4, <1>7, <2>1
  <2>3. y \in Seq(T) /\ ToSet(y) = ToSet(x) \cup ToSet(stash)
    BY <1>4, <1>7, <2>1, <2>2
  <2>4. z \in Seq(T) /\ ToSet(z) = ToSet(y) \cup ToSet(batch)
    BY <1>4, <1>7, <2>1, <2>3
  <2>5. ToSet(z \o newUpdates) = ToSet(z) \cup ToSet(newUpdates)
    BY <1>4, <1>7, <2>4
  <2>6. UnderWay = z \o newUpdates
    BY <2>1 DEF UnderWay
  <2> QED BY <2>2, <2>3, <2>4, <2>5, <2>6
<1>10. PICK i \in DOMAIN InStore : InStore[i].id = m.id /\ InStore[i].kind = "DELETE"
  BY DEF Has, TellsOf
<1>11. InStore[i] \in ToSet(UnderWay)
  BY <1>8, <1>9 DEF ToSet
<1>12. PICK j \in DOMAIN UnderWay : UnderWay[j] = InStore[i]
  BY <1>11 DEF ToSet
<1> QED BY <1>10, <1>12 DEF Reuses

\* What was good for the list before a change is good for the one after it, with
\* what is posted; and so is what was told.
LEMMA ChangeIsGood ==
  ASSUME TypeInv, TypeInv', Sure', AllTold,
         ListChanges \/ UNCHANGED <<list, doomed, reordered, queue, missed>>,
         UNCHANGED <<batch, stash, newUpdates>>,
         Kept(channel', Messages) = Kept(channel, Messages)
  PROVE  /\ AllTold'
         /\ \A v \in ProperLists :
              /\ Right(v, Coming) => Good(v, Coming', list', doomed', reordered')
              /\ Right(v, InStore) => Good(v, InStore', list', doomed', reordered')
<1>1. /\ queue \in Seq(Messages) /\ stash \in Seq(Messages) /\ batch \in Seq(Messages)
      /\ newUpdates \in Seq(Messages) /\ ProperItems(channel)
      /\ list \in ProperLists /\ Ids(list) \cap doomed = {}
      /\ reordered \in BOOLEAN /\ reordered' \in BOOLEAN
  BY DEF TypeInv, DataTypes, StreamTypes, ProgramTypes, FlagTypes
<1>2. Coming \in Seq(Messages) /\ InStore \in Seq(Messages)
  BY ComingTypes DEF TypeInv
<1>3. Told(InStore, list, doomed, reordered) /\ Told(Coming, list, doomed, reordered)
  <2>1. Told(InStore, list, doomed, reordered)
    BY DEF AllTold
  <2> QED BY <1>1, <1>2, <2>1, SuffixTold DEF InStore
<1>4. Coming' = Line(batch, stash, channel, queue')
  BY DEF Coming, Line
<1>5. CASE UNCHANGED <<list, doomed, reordered, queue, missed>>
  <2>1. Coming' = Coming /\ InStore' = InStore
    BY <1>4, <1>5 DEF Coming, InStore
  <2> QED BY <1>3, <1>5, <2>1 DEF AllTold, Right
<1>6. ASSUME NEW id \in 0 .. MaxId, DeleteDownload(id)
      PROVE  /\ AllTold'
             /\ \A v \in ProperLists :
                  /\ Right(v, Coming) => Good(v, Coming', list', doomed', reordered')
                  /\ Right(v, InStore) => Good(v, InStore', list', doomed', reordered')
  <2>1. /\ list' = Removed(list, id) /\ doomed' = doomed \cup {id}
        /\ queue' = queue /\ reordered' = reordered
    BY <1>6 DEF DeleteDownload
  <2>2. Coming' = Coming /\ InStore' = InStore
    BY <1>4, <2>1 DEF Coming, InStore
  <2>3. ASSUME NEW p \in Seq(Messages)
        PROVE  /\ Told(p, list, doomed, reordered) => Told(p, list', doomed', reordered')
               /\ \A v \in ProperLists :
                    Right(v, p) => Good(v, p, list', doomed', reordered')
    BY <1>1, <2>1, DeletedIsGood DEF Right
  <2> QED BY <1>2, <1>3, <2>2, <2>3 DEF AllTold
<1>7. CASE Announced
  <2>1. PICK m : /\ Announces(m, list, doomed, list', doomed') /\ Post(m)
                 /\ (reordered \/ (m.kind = "NEW" /\ Reuses(m))) => reordered'
    BY <1>7 DEF Announced
  <2>2. m \in Messages /\ queue' = Append(queue, m)
    <3>1. subscribed
      BY <2>1 DEF Post, Sure
    <3> QED BY <2>1, <3>1 DEF Post, Announces
  <2>3. Coming' = Append(Coming, m)
    <3>1. m \in Messages
      BY <2>2
    <3>2. PICK b, s, c, q : b = batch /\ s = stash /\ c = channel /\ q = queue
      OBVIOUS
    <3>3. /\ b \in Seq(Messages) /\ s \in Seq(Messages) /\ ProperItems(c)
          /\ q \in Seq(Messages)
      BY <1>1, <3>2
    <3>4. Line(b, s, c, Append(q, m)) = Append(Line(b, s, c, q), m)
      BY <3>1, <3>3, LinePosts
    <3> QED BY <1>4, <2>2, <3>2, <3>4 DEF Coming
  <2>4. InStore' = Append(InStore, m)
    <3>1. PICK o : o = <<m>>
      OBVIOUS
    <3>2. o \in Seq(Messages) /\ \A p \in Seq(Messages) : Append(p, m) = p \o o
      BY <2>2, <3>1, AppendIsConcat
    <3>3. PICK p, n : p = Coming /\ n = newUpdates
      OBVIOUS
    <3>4. p \in Seq(Messages) /\ n \in Seq(Messages)
      BY <1>1, <1>2, <3>3
    <3>5. (n \o p) \o o = n \o (p \o o)
      <4>1. o \in Seq(Messages)
        BY <3>2
      <4> QED BY <3>4, <4>1, Joining
    <3>6. InStore' = n \o (p \o o)
      BY <2>3, <3>2, <3>3, <3>4 DEF InStore
    <3>7. n \o p \in Seq(Messages) /\ InStore = n \o p
      BY <1>2, <3>3 DEF InStore
    <3> QED BY <3>2, <3>5, <3>6, <3>7
  <2>5. m.kind = "NEW" => reordered' \/ (~Has("DELETE", InStore, m.id) /\ ~Has("DELETE", Coming, m.id))
    <3>1. Has("DELETE", Coming, m.id) => Has("DELETE", InStore, m.id)
      BY <1>1, <1>2, HasOfTwo DEF InStore
    <3> QED BY <2>1, <3>1, DeletedIsUnderWay
  <2>6. reordered => reordered'
    BY <2>1
  <2>7. /\ Told(InStore', list', doomed', reordered')
        /\ \A v \in ProperLists : Right(v, InStore) => Good(v, InStore', list', doomed', reordered')
    BY <1>1, <1>2, <1>3, <2>1, <2>4, <2>5, <2>6, AnnouncedIsGood DEF Right
  <2>8. \A v \in ProperLists : Right(v, Coming) => Good(v, Coming', list', doomed', reordered')
    BY <1>1, <1>2, <1>3, <2>1, <2>3, <2>5, <2>6, AnnouncedIsGood DEF Right
  <2> QED BY <2>7, <2>8 DEF AllTold
<1> QED BY <1>5, <1>6, <1>7 DEF ListChanges

\* An answer is no message, and the one to LIST is the list as it is.
LEMMA AnswerIsBehind ==
  ASSUME TypeInv, Sure', Serve
  PROVE  /\ Kept(channel', Messages) = Kept(channel, Messages)
         /\ sent /\ request = Head(todo) /\ ~doubled
         /\ request = Request("LIST", NoId) => \A i \in DOMAIN channel' :
              IsAnswer(channel'[i]) => channel'[i].value = list
<1>1. PICK a \in AnswersTo(request) : /\ channel' = channel \o a
                                      /\ doubled' = (doubled \/ Len(a) > 1)
  BY DEF Serve
<1>2. doubled \in BOOLEAN /\ ~doubled'
  BY DEF TypeInv, CallInv, CallTypes, Sure
<1>3. PICK v : a = <<Answer(request.command, v)>>
  BY <1>1, <1>2, Answers
<1>4. PICK m : m = Answer(request.command, v)
  OBVIOUS
<1>5. IsAnswer(m) /\ m.value = v
  BY <1>4 DEF IsAnswer, Answer
<1>6. Kept(channel', Messages) = Kept(channel, Messages)
  <2>1. ProperItems(channel)
    BY DEF TypeInv, DataTypes, StreamTypes
  <2> QED BY <1>1, <1>3, <1>4, <1>5, <2>1, KeptItems
<1>7. /\ ~doubled
      /\ \A i \in DOMAIN channel' : IsAnswer(channel'[i]) => i = Len(channel) + 1
  BY <1>2, ServeAnswers DEF TypeInv
<1>8. sent /\ request = Head(todo)
  BY <1>7 DEF TypeInv, CallInv, AnswersFit, Serve
<1>9. ASSUME request = Request("LIST", NoId), NEW i \in DOMAIN channel', IsAnswer(channel'[i])
      PROVE  channel'[i].value = list
  <2>1. a = <<Answer("LIST", list)>>
    BY <1>9 DEF AnswersTo, Request
  <2>2. Answer(request.command, v) = Answer("LIST", list)
    BY <1>3, <2>1
  <2>3. v = list
    BY <2>2 DEF Answer
  <2>4. i = Len(channel) + 1
    BY <1>7, <1>9
  <2>5. IsSequence(channel) /\ IsSequence(a) /\ Len(a) = 1
    <3>1. a \in Seq({m}) /\ Len(a) = 1
      BY <1>3, <1>4
    <3> QED BY <1>7, <3>1 DEF TypeInv, CallInv, AnswersFit, IsSequence
  <2>6. Len(channel) + 1 \notin DOMAIN channel
    BY <2>5 DEF IsSequence
  <2>7. channel'[i] = a[i - Len(channel)] /\ Len(channel) \in Nat
    <3>1. i \in DOMAIN (channel \o a) /\ i \notin DOMAIN channel
      BY <1>1, <1>9, <2>4, <2>6
    <3> QED BY <1>1, <2>5, <3>1, ConcatIsSequence
  <2>8. i - Len(channel) = 1
    BY <2>4, <2>7
  <2> QED BY <1>3, <1>4, <1>5, <2>3, <2>7, <2>8
<1> QED BY <1>6, <1>7, <1>8, <1>9

\* What the program does with its list leaves what the window shows as good as it
\* was, and so it leaves a list that is fetched.
LEMMA HandlerView ==
  ASSUME TypeInv, TypeInv', Sure, Sure', ViewInv, Serve \/ Elsewhere \/ PurgeDownload
  PROVE  ViewInv'
<1>1. SureFacts /\ AllTold /\ Shown /\ Listed
  BY DEF ViewInv
<1>2. /\ UNCHANGED <<stash, batch, newUpdates, newContent, view, required, events, lmx, up>>
      /\ UNCHANGED <<at, enabled, mx, todo, got, sent>>
  BY DEF Serve, Elsewhere, PurgeDownload, callVars, listVars, threadVars
<1>3. ListChanges \/ UNCHANGED <<list, doomed, reordered, queue, missed>>
  <2>1. ProgramTypes /\ FlagTypes
    BY DEF TypeInv, DataTypes
  <2> QED BY <2>1, CommandChanges, OthersChange DEF Serve
<1>4. Kept(channel', Messages) = Kept(channel, Messages)
  <2>1. CASE Serve
    BY <2>1, AnswerIsBehind
  <2>2. CASE Elsewhere \/ PurgeDownload
    BY <2>2 DEF Elsewhere, PurgeDownload
  <2> QED BY <2>1, <2>2
<1>5. /\ AllTold'
      /\ \A v \in ProperLists :
           /\ Right(v, Coming) => Good(v, Coming', list', doomed', reordered')
           /\ Right(v, InStore) => Good(v, InStore', list', doomed', reordered')
  BY <1>1, <1>2, <1>3, <1>4, ChangeIsGood
<1>6. SureFacts'
  BY <1>1, <1>2 DEF SureFacts
<1>7. Shown'
  <2> SUFFICES ASSUME (lmx = NoThread /\ at[Updater] \notin {"first", "reload"})'
               PROVE  Right(Base, Todo)'
    BY DEF Shown
  <2>1. Right(Base, Todo)
    BY <1>1, <1>2 DEF Shown
  <2>2. Base \in ProperLists
    BY DEF Base, TypeInv, DataTypes, WindowTypes
  <2>3. Base' = Base /\ Loads' = Loads /\ Applies' = Applies
    BY <1>2 DEF Base, Loads, Applies
  <2>4. CASE Applies
    BY <1>5, <2>1, <2>2, <2>3, <2>4 DEF Todo, Right
  <2>5. CASE ~Applies
    BY <1>5, <2>1, <2>2, <2>3, <2>5 DEF Todo, Right
  <2> QED BY <2>4, <2>5
<1>8. Listed'
  <2> SUFFICES ASSUME NEW t \in Threads, at'[t] = "listed" PROVE ListedOne(t)'
    BY DEF Listed
  <2>1. ListedOne(t)
    BY <1>1, <1>2 DEF Listed
  <2>2. CASE mx # t
    <3>1. got[t].command = "LIST" /\ got[t].value # NoAnswer /\ Right(got[t].value, Coming)
      BY <2>1, <2>2 DEF ListedOne
    <3>2. got[t].value \in ProperLists
      BY <3>1 DEF TypeInv, DataTypes, StreamTypes
    <3>3. Good(got[t].value, Coming', list', doomed', reordered')
      BY <1>5, <3>1, <3>2
    <3> QED BY <1>2, <2>2, <3>1, <3>3 DEF ListedOne, Right
  <2>3. CASE mx = t
    <3>1. todo = GetList
      BY <2>1, <2>3 DEF ListedOne
    <3>2. Head(todo) = Request("LIST", NoId)
      BY <3>1 DEF GetList
    <3>3. ASSUME NEW i \in DOMAIN channel', IsAnswer(channel'[i])
          PROVE  Good(channel'[i].value, Coming', list', doomed', reordered')
      <4>1. CASE Elsewhere \/ PurgeDownload
        <5>1. channel' = channel
          BY <4>1 DEF Elsewhere, PurgeDownload
        <5>2. Right(channel[i].value, Coming)
          BY <2>1, <2>3, <3>3, <5>1 DEF ListedOne
        <5>3. channel[i].command = "LIST"
          BY <3>2, <3>3, <5>1 DEF TypeInv, CallInv, AnswersFit, Sure, Request
        <5>4. channel[i] \in Messages \/ ProperAnswer(channel[i])
          BY <3>3, <5>1 DEF TypeInv, DataTypes, StreamTypes, ProperItems
        <5>5. channel[i].value \in ProperLists
          BY <3>3, <5>1, <5>3, <5>4, MessagesAre DEF ProperAnswer
        <5> QED BY <1>5, <5>1, <5>2, <5>5
      <4>2. CASE Serve
        <5>1. request = Request("LIST", NoId)
          BY <3>2, <4>2, AnswerIsBehind
        <5>2. channel'[i].value = list
          BY <3>3, <4>2, <5>1, AnswerIsBehind
        <5>3. UNCHANGED <<list, doomed, reordered, queue>>
          BY <4>2, <5>1 DEF Serve, CarryOut, Request, Directions, daemonVars
        <5>4. Coming' = Coming
          BY <1>2, <1>4, <5>3 DEF Coming, Line
        <5>5. Good(list, Coming, list, doomed, reordered)
          <6>1. /\ Coming \in Seq(Messages) /\ list \in ProperLists
                /\ Ids(list) \cap doomed = {}
            BY ComingTypes DEF TypeInv, DataTypes, ProgramTypes
          <6>2. Told(Coming, list, doomed, reordered)
            <7>1. newUpdates \in Seq(Messages)
              BY DEF TypeInv, DataTypes, StreamTypes
            <7> QED BY <1>1, <6>1, <7>1, SuffixTold DEF AllTold, InStore
          <6>3. Good(list, <<>>, list, doomed, reordered)
            BY <6>1, ListIsGood
          <6>4. PICK e : e = <<>>
            OBVIOUS
          <6>5. e \in Seq(Messages) /\ Coming \o e = Coming
            BY <6>1, <6>4, ConcatEmptySeq
          <6>6. Good(list, Coming \o e, list, doomed, reordered)
            BY <6>1, <6>2, <6>3, <6>4, <6>5, OlderIsGood
          <6> QED BY <6>5, <6>6
        <5> QED BY <5>2, <5>3, <5>4, <5>5
      <4> QED BY <4>1, <4>2
    <3> QED BY <1>2, <2>3, <3>1, <3>3 DEF ListedOne, Right
  <2> QED BY <2>2, <2>3
<1> QED BY <1>5, <1>6, <1>7, <1>8 DEF ViewInv

--------------------------------------------------------------------------------
(* All steps together.                                                       *)

\* What was missed stays missed, and a command answered twice spoils what is
\* received until the connection is made anew, by which something is missed.
Unsure == (missed => missed') /\ (doubled => doubled' \/ missed')

\* No step makes good what was missed.
LEMMA UnsureStays ==
  ASSUME FlagTypes, [Next]_vars
  PROVE  Unsure
<1>1. UNCHANGED <<missed, doubled>> => Unsure
  BY DEF Unsure
<1>2. ASSUME NEW t \in Threads, ThreadStep(t) PROVE Unsure
  <2>1. UNCHANGED <<missed, doubled>>
    BY <1>2 DEF ThreadStep, SendNext, Receive, ReceiveNothing, PrepareFullList, RequestList,
       ListReturns, socketVars
  <2> QED BY <1>1, <2>1
<1>3. CASE UpdaterStep
  <2>1. CASE PrepareUpdates
    BY <2>1 DEF PrepareUpdates, Unsure, FlagTypes, socketVars
  <2>2. CASE \/ FirstCheck \/ RequestSubscription \/ SubscriptionReturns
             \/ LoopEnds \/ LoopChecks \/ EnterUpdates \/ GetUpdates
    BY <1>1, <2>2 DEF FirstCheck, RequestSubscription, SubscriptionReturns, LoopEnds,
       LoopChecks, EnterUpdates, GetUpdates, socketVars
  <2> QED BY <1>2, <1>3, <2>1, <2>2 DEF UpdaterStep, Threads
<1>4. CASE GuiStep
  <2>1. CASE Connect
    BY <2>1 DEF Connect, Unsure, socketVars
  <2>2. CASE HandleEvent \/ SendCommand \/ RowIsGone \/ CommandReturns \/ Join \/ ResetTerm
    BY <1>1, <2>2 DEF HandleEvent, SendCommand, RowIsGone, CommandReturns, Join, ResetTerm,
       socketVars
  <2> QED BY <1>2, <1>4, <2>1, <2>2 DEF GuiStep, Threads
<1>5. CASE UserStep
  <2>1. UNCHANGED <<missed, doubled>>
    BY <1>5, UserStepsAre DEF Answered, Started, OnConnect, socketVars
  <2> QED BY <1>1, <2>1
<1>6. \A m : Post(m) => (missed => missed')
  BY DEF Post, FlagTypes
<1>7. CASE SendMessage \/ Break \/ UNCHANGED vars
  BY <1>7 DEF SendMessage, Break, Unsure, vars, socketVars
<1>8. CASE Serve
  <2>1. missed => missed'
    BY <1>6, <1>8 DEF Serve, CarryOut, AddDownload, DeleteDownload, SwitchDownload, MoveDownload
  <2>2. doubled => doubled'
    BY <1>8 DEF Serve, FlagTypes
  <2> QED BY <2>1, <2>2 DEF Unsure
<1>9. CASE Elsewhere
  <2>1. missed => missed'
    BY <1>6, <1>9 DEF Elsewhere, AddDownload, DeleteDownload, SwitchDownload, MoveDownload
  <2> QED BY <1>9, <2>1 DEF Elsewhere, Unsure
<1>10. CASE PurgeDownload
  <2>1. missed => missed'
    BY <1>6, <1>10 DEF PurgeDownload
  <2> QED BY <1>10, <2>1 DEF PurgeDownload, Unsure
<1> QED BY <1>3, <1>4, <1>5, <1>7, <1>8, <1>9, <1>10 DEF Next, HandlerStep

\* At first nothing is shown, and nothing on its way.
LEMMA ViewInitially == Init => ViewInv
<1> SUFFICES ASSUME Init PROVE ViewInv
  OBVIOUS
<1>1. Kept(channel, Messages) = <<>>
  <2>1. ProperItems(channel)
    BY TypesInitially DEF TypeInv, DataTypes, StreamTypes
  <2> QED BY <2>1, KeptItems DEF Init
<1>2. Coming = <<>> /\ InStore = <<>>
  <2>1. PICK e : e = <<>>
    OBVIOUS
  <2>2. e \in Seq(Messages) /\ e \o e = e
    BY <2>1, ConcatEmptySeq
  <2>3. queue = e /\ stash = e /\ batch = e /\ newUpdates = e /\ Kept(channel, Messages) = e
    BY <1>1, <2>1 DEF Init
  <2> QED BY <2>1, <2>2, <2>3 DEF Coming, InStore, Line
<1>3. at[Updater] = "first" /\ at[Gui] = "idle"
  BY ThreadAssumption DEF Init, Threads
<1>4. SureFacts
  <2>1. HasMove(<<>>) = FALSE
    BY DEF HasMove
  <2>2. ~Contains(events, "clear")
    BY DEF Init, Contains
  <2> QED BY <1>3, <2>1, <2>2 DEF Init, SureFacts, Listing
<1>5. AllTold
  <2>1. DOMAIN <<>> = {}
    OBVIOUS
  <2>2. \A p : DOMAIN p = {} => Streamed(p, ToSet(list), doomed) /\ Fresh(p)
    BY DEF Streamed, Fresh, InTurn, ToldLast
  <2> QED BY <1>2, <2>1, <2>2 DEF AllTold, Told
<1>6. Shown
  BY <1>3 DEF Shown
<1>7. Listed
  BY <1>3 DEF Listed, Threads
<1> QED BY <1>4, <1>5, <1>6, <1>7 DEF ViewInv

\* Every step keeps it.
LEMMA ViewStays ==
  ASSUME TypeInv, TypeInv', ViewInv, [Next]_vars
  PROVE  ViewInv'
<1> SUFFICES ASSUME Sure' PROVE ViewInv'
  BY DEF ViewInv
<1>1. Sure
  BY UnsureStays DEF TypeInv, Unsure, Sure
<1>2. SureFacts
  BY <1>1 DEF ViewInv
<1>3. Steady => ViewInv'
  BY <1>1, SteadyKeeps
<1>4. ASSUME NEW t \in Threads, ThreadStep(t) PROVE ViewInv'
  <2>1. ~ReceiveNothing(t)
    BY <1>2 DEF ReceiveNothing, SureFacts
  <2>2. CASE SendNext(t)
    BY <1>1, <1>2, <1>3, <2>2, SendingSteady
  <2>3. CASE Receive(t)
    BY <1>1, <2>3, ReceiveView
  <2>4. CASE PrepareFullList(t) \/ RequestList(t)
    BY <1>1, <2>4, FetchingView
  <2>5. CASE ListReturns(t)
    BY <1>1, <2>5, ListReturnsView
  <2> QED BY <1>4, <2>1, <2>2, <2>3, <2>4, <2>5 DEF ThreadStep
<1>5. CASE UpdaterStep
  <2>1. CASE \/ FirstCheck \/ RequestSubscription \/ SubscriptionReturns
             \/ LoopEnds \/ LoopChecks \/ EnterUpdates
    BY <1>1, <1>2, <1>3, <2>1, UpdaterSteady
  <2>2. CASE GetUpdates
    BY <1>1, <2>2, GetUpdatesView
  <2>3. CASE PrepareUpdates
    BY <1>1, <2>3, PrepareUpdatesView
  <2> QED BY <1>4, <1>5, <2>1, <2>2, <2>3 DEF UpdaterStep, Threads
<1>6. CASE GuiStep
  <2>1. CASE SendCommand \/ RowIsGone \/ CommandReturns \/ Connect \/ Join \/ ResetTerm
    BY <1>1, <1>2, <1>3, <2>1, GuiSteady
  <2>2. CASE HandleEvent
    BY <1>1, <2>2, HandleEventView
  <2> QED BY <1>4, <1>6, <2>1, <2>2 DEF GuiStep, Threads
<1>7. CASE UserStep
  BY <1>1, <1>2, <1>3, <1>7, UserSteady
<1>8. CASE SendMessage \/ UNCHANGED vars
  BY <1>1, <1>2, <1>3, <1>8, SendingSteady
<1>9. CASE Serve \/ Elsewhere \/ PurgeDownload
  BY <1>1, <1>9, HandlerView
<1>10. CASE Break
  BY <1>10 DEF Break, Sure
<1> QED BY <1>5, <1>6, <1>7, <1>8, <1>9, <1>10 DEF Next, HandlerStep

\* When nothing is on its way any more, a list that is good is the program's.
LEMMA GoodIsSame ==
  ASSUME NEW v \in ProperLists, NEW l \in ProperLists, NEW r, Good(v, <<>>, l, {}, r)
  PROVE  ToSet(v) = ToSet(l) /\ (r \/ v = l)
<1>1. v \in DownloadLists /\ l \in DownloadLists
  BY DEF ProperLists
<1>2. DOMAIN <<>> = {}
  OBVIOUS
<1>3. ToSet(v) = ToSet(l)
  <2>1. ASSUME NEW x \in 0 .. MaxId PROVE SameOf(ToSet(v), ToSet(l), x)
    <3>1. Untold(<<>>, x)
      BY <1>2 DEF Untold
    <3> QED BY <3>1 DEF Good, Leads, LeadsOf
  <2>2. ToSet(v) \subseteq Entries /\ ToSet(l) \subseteq Entries
    BY <1>1, ListEntries
  <2>3. \A e \in Entries : e = Entry(e.id, e.on) /\ e.id \in 0 .. MaxId /\ e.on \in BOOLEAN
    BY DEF Entries, Entry
  <2> QED BY <2>1, <2>2, <2>3 DEF SameOf
<1>4. ASSUME ~r PROVE v = l
  <2>1. ~HasMove(<<>>)
    BY <1>2 DEF HasMove
  <2>2. Ordered(v, <<>>, l)
    BY <1>4, <2>1 DEF Good
  <2>3. Distinct(v) /\ Distinct(l)
    BY DEF ProperLists
  <2> QED BY <1>1, <1>3, <2>2, <2>3, SameList
<1> QED BY <1>3, <1>4

\* The window shows the list once all messages have come, in spite of the lists
\* that are fetched meanwhile and of messages that are older than those.
THEOREM WindowShowsTheList == Spec => []ViewIsTheList
<1>1. TypeInv /\ ViewInv => ViewIsTheList
  <2> SUFFICES ASSUME TypeInv, ViewInv, CaughtUp, Sure
               PROVE  ToSet(view) = ToSet(list) /\ (reordered \/ view = list)
    BY DEF ViewIsTheList, Sure
  <2>1. Shown
    BY DEF ViewInv
  <2>2. Right(Base, Todo)
    BY <2>1 DEF Shown, CaughtUp
  <2>3. ~Loads /\ ~Applies
    BY DEF CaughtUp, Loads, Applies
  <2>4. Coming = <<>>
    <3>1. Kept(channel, Messages) = <<>>
      <4>1. ProperItems(channel)
        BY DEF TypeInv, DataTypes, StreamTypes
      <4> QED BY <4>1, KeptItems DEF CaughtUp
    <3>2. PICK e : e = <<>>
      OBVIOUS
    <3>3. e \in Seq(Messages) /\ e \o e = e
      BY <3>2, ConcatEmptySeq
    <3>4. queue = e /\ stash = e /\ batch = e /\ Kept(channel, Messages) = e
      BY <3>1, <3>2 DEF CaughtUp
    <3> QED BY <3>2, <3>3, <3>4 DEF Coming, Line
  <2>5. Good(view, <<>>, list, {}, reordered)
    BY <2>2, <2>3, <2>4 DEF Right, Base, Todo, CaughtUp
  <2>6. view \in ProperLists /\ list \in ProperLists
    BY DEF TypeInv, DataTypes, WindowTypes, ProgramTypes
  <2> QED BY <2>5, <2>6, GoodIsSame
<1>2. TypeInv /\ [Next]_vars => TypeInv'
  BY TypesStay
<1>3. TypeInv /\ TypeInv' /\ ViewInv /\ [Next]_vars => ViewInv'
  BY ViewStays
<1> QED BY TypesInitially, ViewInitially, <1>1, <1>2, <1>3, PTL DEF Spec

================================================================================
