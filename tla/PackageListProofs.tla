--------------------------- MODULE PackageListProofs ---------------------------
(***************************************************************************)
(* What the download list guarantees for any number of packages,           *)
(* downloads, clients and threads: ids identify, a download is in one      *)
(* place, none runs without a thread, and none is destroyed under its      *)
(* thread, whatever the commands, the plugins and the restarts.            *)
(***************************************************************************)
EXTENDS PackageList, DataFacts

All == ToSet(packages) \cup ToSet(doomed)
In(p) == ToSet(content[p])

\* The types, but for those of the text of the file, which follow from them.
ListTypes ==
  /\ packages \in Seq(Packages) /\ doomed \in Seq(Packages)
  /\ cid \in [Packages -> -1 .. MaxId]
  /\ content \in [Packages -> Seq(Downloads)]
DownloadTypes ==
  /\ id \in [Downloads -> -1 .. MaxId] /\ parent \in [Downloads -> -1 .. MaxId]
  /\ status \in [Downloads -> Status] /\ running \in [Downloads -> BOOLEAN]
  /\ threads \in [Downloads -> 0 .. MaxThreads]
  /\ unassigned \in BOOLEAN
  /\ pick \in [pkg : -1 .. MaxId, id : -1 .. MaxId]

\* A command that is being handled has an id left to deal with.
CommandTypes ==
  /\ cmd \in [Clients -> [op : AllCommands \cup {"none"}, pkg : -1 .. MaxId,
                          ids : Seq(-1 .. MaxId), sets : BOOLEAN]]
  /\ \A c \in Clients : cmd[c].op # "none" => cmd[c].ids # <<>>

\* A package is in one place of one list, and so is a download.
Layout ==
  /\ IsInjective(packages) /\ IsInjective(doomed)
  /\ ToSet(packages) \cap ToSet(doomed) = {}
  /\ \A p \in All : IsInjective(content[p])
  /\ \A p, q \in All : p # q => In(p) \cap In(q) = {}

\* Ids identify listed packages, listed downloads, and the downloads of a doomed
\* package among themselves; and a download knows the id of its package.
Identified ==
  /\ \A p \in ToSet(packages) : cid[p] \in Ids
  /\ \A p, q \in ToSet(packages) : p # q => cid[p] # cid[q]
  /\ \A d, e \in Listed : d # e /\ id[d] = id[e] => id[d] = -1
  /\ \A p \in All : \A d, e \in In(p) : d # e /\ id[d] = id[e] => id[d] = -1
  /\ \A p \in All : \A d \in In(p) : parent[d] = cid[p]

\* A thread's download has an id of its own, which the purge goes by.
ThreadsRun ==
  \A d \in Downloads : threads[d] > 0 =>
    threads[d] = 1 /\ running[d] /\ d \in Present /\ id[d] \in Ids

\* What is about to be started is not running, whatever bears its ids by then.
PickIsFree ==
  pick # NoPick =>
    pick.id \in Ids /\ \A d \in Listed : id[d] = pick.id => ~running[d]

PLInv ==
  /\ ListTypes /\ DownloadTypes /\ CommandTypes
  /\ Layout /\ Identified
  /\ RunningHasThread /\ ThreadsRun /\ PickIsFree

--------------------------------------------------------------------------------
(* What the operators of the model make of a list.                          *)

\* A rearrangement has the same elements, each of them once.
Rearranges(t, s, S) == t \in Seq(S) /\ ToSet(t) = ToSet(s) /\ IsInjective(t)

\* An exchange of two elements rearranges a list.
LEMMA SwapFacts ==
  ASSUME NEW S, NEW s \in Seq(S), IsInjective(s), NEW i \in DOMAIN s, NEW j \in DOMAIN s
  PROVE  Rearranges(SwapAt(s, i, j), s, S)
<1> DEFINE t == SwapAt(s, i, j)
           n == Len(s)
<1>1. n \in Nat /\ DOMAIN s = 1 .. n /\ \A k \in 1 .. n : s[k] \in S
  BY LenProperties
<1>2. /\ t \in [1 .. n -> S]
      /\ \A k \in 1 .. n : t[k] = s[IF k = i THEN j ELSE IF k = j THEN i ELSE k]
  BY <1>1 DEF SwapAt
<1>3. t \in Seq(S) /\ DOMAIN t = 1 .. n
  BY <1>1, <1>2, SeqDef
<1>4. IsInjective(t)
  BY <1>1, <1>2, <1>3 DEF IsInjective
<1>5. ToSet(t) \subseteq ToSet(s)
  BY <1>1, <1>2, <1>3 DEF ToSet
<1>6. ASSUME NEW k \in 1 .. n  PROVE s[k] \in ToSet(t)
  <2>1. s[k] = t[IF k = i THEN j ELSE IF k = j THEN i ELSE k]
    BY <1>1, <1>2
  <2>2. QED  BY <1>1, <1>3, <2>1 DEF ToSet
<1>7. QED  BY <1>1, <1>3, <1>4, <1>5, <1>6 DEF Rearranges, ToSet

\* So does a move to its top or its bottom,
LEMMA EndFacts ==
  ASSUME NEW S, NEW s \in Seq(S), IsInjective(s), NEW i \in DOMAIN s
  PROVE  Rearranges(ToTop(s, i), s, S) /\ Rearranges(ToBottom(s, i), s, S)
<1> DEFINE r == RemoveAt(s, i)
           e == s[i]
           f == <<e>>
<1>1. e \in S /\ e \in ToSet(s)
  BY LenProperties DEF ToSet
<1>2. r \in Seq(S) /\ ToSet(r) = ToSet(s) \ {e} /\ IsInjective(r)
  BY RemoveAtSet
<1>3. f \in Seq(S) /\ ToSet(f) = {e} /\ IsInjective(f)
  BY <1>1 DEF ToSet, IsInjective
<1>4. ToTop(s, i) = f \o r /\ ToBottom(s, i) = Append(r, e)
  BY DEF ToTop, ToBottom
<1> HIDE DEF r, e, f
<1>5. Rearranges(Append(r, e), s, S)
  <2>1. /\ Append(r, e) \in Seq(S) /\ ToSet(Append(r, e)) = ToSet(r) \cup {e}
        /\ e \notin ToSet(r) => IsInjective(Append(r, e))
    BY <1>1, <1>2, AppendFacts
  <2>2. QED  BY <1>1, <1>2, <2>1 DEF Rearranges
<1>6. Rearranges(f \o r, s, S)
  <2>1. /\ f \o r \in Seq(S) /\ ToSet(f \o r) = ToSet(f) \cup ToSet(r)
        /\ ToSet(f) \cap ToSet(r) = {} => IsInjective(f \o r)
    BY <1>2, <1>3, ConcatFacts
  <2>2. QED  BY <1>1, <1>2, <1>3, <2>1 DEF Rearranges
<1>7. QED  BY <1>4, <1>5, <1>6

\* A set of numbers up to n that is not empty has a largest member.
LEMMA Greatest ==
  ASSUME NEW n \in Nat, NEW T, T \subseteq 1 .. n, T # {}
  PROVE  \E m \in T : \A k \in T : k <= m
<1> DEFINE U == {n - k : k \in T}
<1>1. U \subseteq Nat /\ U # {}
  <2>1. \A k \in T : n - k \in Nat
    OBVIOUS
  <2>2. QED  BY <2>1
<1>2. PICK u \in U : \A k \in U : u <= k
  <2> HIDE DEF U
  <2>1. QED  BY <1>1, LeastNatural
<1>3. PICK m \in T : u = n - m
  OBVIOUS
<1>4. \A k \in T : n - m <= n - k
  BY <1>2, <1>3
<1>5. QED  BY <1>3, <1>4

\* hence every move of a download,
LEMMA MoveFacts ==
  ASSUME NEW S, NEW s \in Seq(S), IsInjective(s), NEW i \in DOMAIN s,
         NEW t \in MovesOf(s, i)
  PROVE  Rearranges(t, s, S)
<1>1. Len(s) \in Nat /\ DOMAIN s = 1 .. Len(s) /\ i \in 1 .. Len(s)
  BY LenProperties
<1>2. Rearranges(s, s, S)
  BY DEF Rearranges
<1>3. Rearranges(MovedUp(s, i), s, S)
  <2> DEFINE above == {j \in 1 .. i - 1 : status[s[j]] # "DELETED"}
             j == CHOOSE j \in above : \A k \in above : k <= j
  <2>1. CASE above = {}
    BY <1>2, <2>1 DEF MovedUp
  <2>2. CASE above # {}
    <3>1. \E m \in above : \A k \in above : k <= m
      <4>1. above \subseteq 1 .. Len(s)
        BY <1>1
      <4> HIDE DEF above
      <4>2. QED  BY <1>1, <2>2, <4>1, Greatest
    <3>2. j \in above
      <4> HIDE DEF above
      <4>1. QED  BY <3>1
    <3>3. j \in DOMAIN s /\ MovedUp(s, i) = SwapAt(s, i, j)
      BY <1>1, <2>2, <3>2 DEF MovedUp
    <3>4. QED  BY <3>3, SwapFacts
  <2>3. QED  BY <2>1, <2>2
<1>4. Rearranges(MovedDown(s, i), s, S)
  <2> DEFINE below == {j \in i + 1 .. Len(s) : status[s[j]] # "DELETED"}
             j == CHOOSE j \in below : \A k \in below : j <= k
  <2>1. CASE below = {}
    BY <1>2, <2>1 DEF MovedDown
  <2>2. CASE below # {}
    <3>1. \E m \in below : \A k \in below : m <= k
      <4>1. below \subseteq Nat
        BY <1>1
      <4> HIDE DEF below
      <4>2. QED  BY <2>2, <4>1, LeastNatural
    <3>2. j \in below
      <4> HIDE DEF below
      <4>1. QED  BY <3>1
    <3>3. j \in DOMAIN s /\ MovedDown(s, i) = SwapAt(s, i, j)
      BY <1>1, <2>2, <3>2 DEF MovedDown
    <3>4. QED  BY <3>3, SwapFacts
  <2>3. QED  BY <2>1, <2>2
<1>5. Rearranges(ToTop(s, i), s, S) /\ Rearranges(ToBottom(s, i), s, S)
  BY EndFacts
<1>6. QED  BY <1>3, <1>4, <1>5 DEF MovesOf

\* and every move of a package.
LEMMA PackageMoveFacts ==
  ASSUME packages \in Seq(Packages), IsInjective(packages), NEW i \in DOMAIN packages,
         NEW t \in PackageMovesOf(i)
  PROVE  Rearranges(t, packages, Packages)
<1>1. Len(packages) \in Nat /\ DOMAIN packages = 1 .. Len(packages)
  BY LenProperties
<1>2. \/ t = ToTop(packages, i) \/ t = ToBottom(packages, i)
      \/ i # 1 /\ t = SwapAt(packages, i, i - 1)
      \/ i # Len(packages) /\ t = SwapAt(packages, i, i + 1)
  BY DEF PackageMovesOf
<1>3. \/ t = ToTop(packages, i) \/ t = ToBottom(packages, i)
      \/ \E j \in DOMAIN packages : t = SwapAt(packages, i, j)
  <2>1. i # 1 => i - 1 \in DOMAIN packages
    BY <1>1
  <2>2. i # Len(packages) => i + 1 \in DOMAIN packages
    BY <1>1
  <2>3. QED  BY <1>2, <2>1, <2>2
<1>4. QED  BY <1>3, EndFacts, SwapFacts

\* What an id denotes is listed, and bears the id.
LEMMA LookUpFacts ==
  ASSUME packages \in Seq(Packages), NEW n
  PROVE  /\ HasPackage(n) => PackageById(n) \in ToSet(packages)
         /\ \A m, d : Denotes(n, m, d) => d \in Listed /\ id[d] = m
<1> DEFINE T == {i \in DOMAIN packages : cid[packages[i]] = n}
           i == CHOOSE i \in DOMAIN packages :
                  cid[packages[i]] = n /\ \A j \in 1 .. i - 1 : cid[packages[j]] # n
<1>1. ASSUME HasPackage(n)  PROVE PackageById(n) \in ToSet(packages)
  <2>1. DOMAIN packages = 1 .. Len(packages) /\ Len(packages) \in Nat
    BY LenProperties
  <2>2. T \subseteq Nat /\ T # {}
    BY <1>1, <2>1 DEF HasPackage, ToSet
  <2>3. PICK m \in T : \A k \in T : m <= k
    <3> HIDE DEF T
    <3>1. QED  BY <2>2, LeastNatural
  <2>4. cid[packages[m]] = n /\ \A j \in 1 .. m - 1 : cid[packages[j]] # n
    <3>1. \A j \in 1 .. m - 1 : j \in DOMAIN packages /\ ~(m <= j)
      BY <2>1, <2>3
    <3>2. QED  BY <2>3, <3>1
  <2>5. i \in DOMAIN packages
    BY <2>3, <2>4
  <2>6. PackageById(n) = packages[i]
    BY DEF PackageById
  <2>7. QED  BY <2>5, <2>6 DEF ToSet
<1>2. ASSUME NEW m, NEW d, Denotes(n, m, d)  PROVE d \in Listed /\ id[d] = m
  <2>1. PICK p \in ToSet(packages) : IsDownloadById(p, m, d)
    BY <1>1, <1>2 DEF Denotes
  <2>2. d \in ToSet(content[p]) /\ id[d] = m
    BY <2>1 DEF IsDownloadById, ToSet
  <2>3. QED  BY <2>1, <2>2 DEF Listed
<1>3. QED  BY <1>1, <1>2

CommandRecord ==
  [op : AllCommands \cup {"none"}, pkg : -1 .. MaxId, ids : Seq(-1 .. MaxId),
   sets : BOOLEAN]

\* What a handler knows of its command.
LEMMA HandlingFacts ==
  ASSUME NEW op \in AllCommands, NEW n \in -1 .. MaxId, NEW ids \in Seq(-1 .. MaxId),
         NEW b \in BOOLEAN
  PROVE  Handling(op, n, ids, b) \in CommandRecord
BY DEF Handling, CommandRecord

\* A handler that sets out has ids; one that goes on has some left.
LEMMA CommandFacts ==
  ASSUME CommandTypes, NEW c \in Clients
  PROVE  /\ \A r \in CommandRecord :
              cmd' = [cmd EXCEPT ![c] = r] /\ r.ids # <<>> => CommandTypes'
         /\ cmd[c].op # "none" /\ NextIdOf(c) => CommandTypes'
         /\ cmd[c].op # "none" /\ cmd' = [cmd EXCEPT ![c].sets = TRUE] => CommandTypes'
<1>1. cmd \in [Clients -> CommandRecord]
  BY DEF CommandTypes, CommandRecord
<1>2. \A r \in CommandRecord :
        cmd' = [cmd EXCEPT ![c] = r] /\ (r.op = "none" \/ r.ids # <<>>) => CommandTypes'
  BY <1>1 DEF CommandTypes, CommandRecord
<1>3. ASSUME cmd[c].op # "none", NextIdOf(c)  PROVE CommandTypes'
  <2>1. cmd[c].ids \in Seq(-1 .. MaxId) /\ cmd[c].ids # <<>>
    BY <1>1, <1>3 DEF CommandTypes, CommandRecord
  <2>2. CASE Len(cmd[c].ids) = 1
    <3>1. NoCommand \in CommandRecord /\ NoCommand.op = "none"
      <4>1. -1 \in -1 .. MaxId
        BY PackageListAssumption
      <4>2. <<>> \in Seq(-1 .. MaxId)
        OBVIOUS
      <4>3. QED  BY <4>1, <4>2 DEF NoCommand, CommandRecord
    <3>2. cmd' = [cmd EXCEPT ![c] = NoCommand]
      BY <1>3, <2>2 DEF NextIdOf
    <3>3. QED  BY <1>2, <3>1, <3>2
  <2>3. CASE Len(cmd[c].ids) # 1
    <3> DEFINE ids == Tail(cmd[c].ids)
    <3>1. ids \in Seq(-1 .. MaxId) /\ ids # <<>>
      <4> DEFINE q == cmd[c].ids
      <4>1. q \in Seq(-1 .. MaxId) /\ q # <<>> /\ Len(q) # 1
        BY <2>1, <2>3
      <4> HIDE DEF q
      <4>2. Tail(q) \in Seq(-1 .. MaxId) /\ Len(Tail(q)) = Len(q) - 1
        BY <4>1, HeadTailProperties
      <4>3. Len(q) - 1 # 0
        BY <4>1, LenProperties
      <4>4. Tail(q) # <<>>
        BY <4>2, <4>3
      <4>5. QED  BY <4>2, <4>4 DEF q
    <3>2. cmd[c].op \in AllCommands /\ cmd[c].pkg \in -1 .. MaxId
      BY <1>1, <1>3 DEF CommandRecord
    <3>3. cmd' = [cmd EXCEPT ![c] = Handling(cmd[c].op, cmd[c].pkg, ids, FALSE)]
      BY <1>3, <2>3 DEF NextIdOf
    <3>4. Handling(cmd[c].op, cmd[c].pkg, ids, FALSE) \in CommandRecord
      BY <3>1, <3>2, HandlingFacts
    <3>5. Handling(cmd[c].op, cmd[c].pkg, ids, FALSE).ids = ids
      BY DEF Handling
    <3>6. QED  BY <1>2, <3>1, <3>3, <3>4, <3>5
  <2>4. QED  BY <2>2, <2>3
<1>4. ASSUME cmd[c].op # "none", cmd' = [cmd EXCEPT ![c].sets = TRUE]  PROVE CommandTypes'
  BY <1>1, <1>4 DEF CommandTypes, CommandRecord
<1>5. QED  BY <1>2, <1>3, <1>4

--------------------------------------------------------------------------------
(* Steps that leave the lists and the ids alone.                            *)

\* The lists' members change with the lists only.
LEMMA SameLists ==
  ASSUME UNCHANGED lists
  PROVE  /\ All' = All /\ Listed' = Listed /\ Present' = Present
         /\ \A p : In(p)' = In(p)
BY DEF lists, All, Listed, Present, In

\* What is said of lists and ids stays true while both are left alone.
LEMMA SameIds ==
  ASSUME PLInv, UNCHANGED <<lists, id, parent>>
  PROVE  ListTypes' /\ Layout' /\ Identified'
<1>1. /\ All' = All /\ Listed' = Listed
      /\ \A p : In(p)' = In(p)
  BY SameLists
<1>2. ListTypes'
  BY DEF PLInv, ListTypes, lists
<1>3. Layout'
  BY <1>1 DEF PLInv, Layout, lists
<1>4. Identified'
  BY <1>1 DEF PLInv, Identified, lists
<1>5. QED  BY <1>2, <1>3, <1>4

\* A step of a handler that changes neither lists nor downloads.
LEMMA CommandStep ==
  ASSUME PLInv, CommandTypes', UNCHANGED <<lists, downloads, threads, unassigned, pick>>
  PROVE  PLInv'
<1>1. Listed' = Listed /\ Present' = Present
  BY SameLists
<1>2. ListTypes' /\ Layout' /\ Identified'
  BY SameIds DEF downloads
<1>3. DownloadTypes'
  BY DEF PLInv, DownloadTypes, downloads
<1>4. RunningHasThread' /\ ThreadsRun' /\ PickIsFree'
  BY <1>1 DEF PLInv, RunningHasThread, ThreadsRun, PickIsFree, downloads
<1>5. QED  BY <1>2, <1>3, <1>4 DEF PLInv

\* A handler looks a download or a package up.
LEMMA LookUpStep ==
  ASSUME PLInv, NEW c \in Clients, NEW op, LookUpDownload(c, op) \/ LookUpPackage(c, op)
  PROVE  PLInv'
<1>1. /\ CommandTypes /\ id \in [Downloads -> -1 .. MaxId] /\ cid \in [Packages -> -1 .. MaxId]
      /\ packages \in Seq(Packages) /\ content \in [Packages -> Seq(Downloads)]
  BY DEF PLInv, DownloadTypes, ListTypes
<1>2. \A p \in ToSet(packages) : p \in Packages /\ \A d \in ToSet(content[p]) : d \in Downloads
  BY <1>1, ToSetFacts, LenProperties DEF ToSet
<1>3. CASE LookUpDownload(c, op)
  <2> DEFINE b == op \in {"DL DEL", "DL MOVE"}
  <2>1. b \in BOOLEAN
    <3>1. \A S : (op \in S) \in BOOLEAN
      OBVIOUS
    <3>2. QED  BY <3>1, Zenon
  <2>2. op \in AllCommands
    BY <1>3 DEF LookUpDownload, AllCommands
  <2>3. PICK p \in ToSet(packages) : \E d \in ToSet(content[p]) :
          cmd' = [cmd EXCEPT ![c] = Handling(op, cid[p], <<id[d]>>, b)]
    BY <1>3, Zenon DEF LookUpDownload
  <2>4. PICK d \in ToSet(content[p]) :
          cmd' = [cmd EXCEPT ![c] = Handling(op, cid[p], <<id[d]>>, b)]
    BY <2>3
  <2>5. <<id[d]>> \in Seq(-1 .. MaxId) /\ <<id[d]>> # <<>> /\ cid[p] \in -1 .. MaxId
    BY <1>1, <1>2
  <2> HIDE DEF b
  <2>6. Handling(op, cid[p], <<id[d]>>, b) \in CommandRecord
    BY <2>1, <2>2, <2>5, HandlingFacts
  <2>7. Handling(op, cid[p], <<id[d]>>, b).ids = <<id[d]>>
    BY DEF Handling
  <2>8. CommandTypes'
    BY <1>1, <2>4, <2>5, <2>6, <2>7, CommandFacts
  <2>9. QED  BY <1>3, <2>8, CommandStep DEF LookUpDownload
<1>4. CASE LookUpPackage(c, op)
  <2>1. op \in AllCommands
    BY <1>4 DEF LookUpPackage, AllCommands
  <2>2. PICK p \in ToSet(packages) :
          /\ content[p] # <<>>
          /\ cmd' = [cmd EXCEPT ![c] =
                       Handling(op, cid[p], [i \in DOMAIN content[p] |-> id[content[p][i]]], FALSE)]
    BY <1>4 DEF LookUpPackage
  <2> DEFINE s == content[p]
             ids == [i \in DOMAIN s |-> id[s[i]]]
  <2>3. s \in Seq(Downloads) /\ s # <<>> /\ cid[p] \in -1 .. MaxId
    BY <1>1, <1>2, <2>2
  <2> HIDE DEF s
  <2>4. /\ Len(s) \in Nat \ {0} /\ DOMAIN s = 1 .. Len(s)
        /\ \A i \in DOMAIN s : s[i] \in Downloads
    BY <2>3, EmptySeq, LenProperties
  <2>5. ids \in [1 .. Len(s) -> -1 .. MaxId]
    BY <1>1, <2>4
  <2>6. ids \in Seq(-1 .. MaxId) /\ ids # <<>>
    <3>1. ids \in Seq(-1 .. MaxId) /\ DOMAIN ids = 1 .. Len(s)
      BY <2>4, <2>5, SeqDef
    <3>2. 1 \in DOMAIN ids /\ DOMAIN <<>> = {}
      BY <2>4, <3>1
    <3>3. QED  BY <3>1, <3>2
  <2>7. cmd' = [cmd EXCEPT ![c] = Handling(op, cid[p], ids, FALSE)]
    BY <2>2 DEF s
  <2> HIDE DEF ids
  <2>8. Handling(op, cid[p], ids, FALSE) \in CommandRecord
    BY <2>1, <2>3, <2>6, HandlingFacts
  <2>9. Handling(op, cid[p], ids, FALSE).ids = ids
    BY DEF Handling
  <2>10. CommandTypes'
    BY <1>1, <2>6, <2>7, <2>8, <2>9, CommandFacts
  <2>11. QED  BY <1>4, <2>10, CommandStep DEF LookUpPackage
<1>5. QED  BY <1>3, <1>4

\* A handler reads a status.
LEMMA ReadStatusStep ==
  ASSUME PLInv, NEW c \in Clients, ReadStatus(c)
  PROVE  PLInv'
<1>1. cmd[c].op # "none"
  BY DEF ReadStatus
<1>2. cmd' = [cmd EXCEPT ![c].sets = TRUE] \/ NextIdOf(c)
  BY DEF ReadStatus
<1>3. CommandTypes'
  BY <1>1, <1>2, CommandFacts DEF PLInv
<1>4. QED  BY <1>3, CommandStep DEF ReadStatus

\* A handler applies its command to the download it has found.
LEMMA ApplyStep ==
  ASSUME PLInv, NEW c \in Clients, Apply(c)
  PROVE  PLInv'
<1> DEFINE s == CommandStatus[cmd[c].op]
<1>1. cmd[c].op # "none" /\ s \in {"DELETED", "PENDING", "INACTIVE"}
  BY DEF Apply, CommandStatus
<1>2. CommandTypes'
  BY <1>1, CommandFacts DEF Apply, PLInv
<1>3. status' = [d \in Downloads |-> IF d \in Hit(c) THEN StatusAfter(d, s) ELSE status[d]]
  BY DEF Apply
<1> HIDE DEF s
<1>4. \A d \in Downloads : status'[d] \in {"DELETED", "PENDING", "INACTIVE", status[d]}
  BY <1>1, <1>3 DEF StatusAfter
<1>5. Listed' = Listed /\ Present' = Present
  BY SameLists DEF Apply
<1>6. ListTypes' /\ Layout' /\ Identified'
  BY SameIds DEF Apply
<1>7. DownloadTypes'
  <2>1. status' \in [Downloads -> Status]
    BY <1>3, <1>4 DEF PLInv, DownloadTypes, Status
  <2>2. QED  BY <2>1 DEF Apply, PLInv, DownloadTypes
<1>8. RunningHasThread' /\ ThreadsRun' /\ PickIsFree'
  BY <1>4, <1>5 DEF Apply, PLInv, RunningHasThread, ThreadsRun, PickIsFree
<1>9. QED  BY <1>2, <1>6, <1>7, <1>8 DEF PLInv

\* A download is picked that is not running, and nothing else bears its id.
LEMMA PickStep ==
  ASSUME PLInv, PickNext
  PROVE  PLInv'
<1>1. PICK i \in DOMAIN packages : \E j \in DOMAIN content[packages[i]] :
        /\ Startable(content[packages[i]][j])
        /\ pick' = [pkg |-> cid[packages[i]], id |-> id[content[packages[i]][j]]]
  BY DEF PickNext
<1>2. PICK j \in DOMAIN content[packages[i]] :
        /\ Startable(content[packages[i]][j])
        /\ pick' = [pkg |-> cid[packages[i]], id |-> id[content[packages[i]][j]]]
  BY <1>1
<1> DEFINE p == packages[i]
           d == content[p][j]
<1>3. p \in Packages /\ p \in ToSet(packages)
  BY LenProperties DEF PLInv, ListTypes, ToSet
<1>4. d \in Downloads /\ d \in Listed
  <2>1. content[p] \in Seq(Downloads)
    BY <1>3 DEF PLInv, ListTypes
  <2>2. d \in Downloads /\ d \in ToSet(content[p])
    BY <2>1, LenProperties DEF ToSet
  <2>3. QED  BY <1>3, <2>2 DEF Listed
<1>5. ~running[d] /\ id[d] >= 0 /\ pick' = [pkg |-> cid[p], id |-> id[d]]
  BY <1>2 DEF Startable
<1> HIDE DEF d, p
<1>6. cid[p] \in -1 .. MaxId /\ id[d] \in -1 .. MaxId
  BY <1>3, <1>4 DEF PLInv, ListTypes, DownloadTypes
<1>7. Listed' = Listed /\ Present' = Present
  BY SameLists DEF PickNext
<1>8. ListTypes' /\ Layout' /\ Identified'
  BY SameIds DEF PickNext, downloads
<1>9. DownloadTypes'
  BY <1>5, <1>6 DEF PickNext, downloads, PLInv, DownloadTypes
<1>10. CommandTypes' /\ RunningHasThread' /\ ThreadsRun'
  BY <1>7 DEF PickNext, downloads, PLInv, CommandTypes, RunningHasThread, ThreadsRun
<1>11. PickIsFree'
  <2>1. \A e \in Listed : id[e] = id[d] => e = d
    BY <1>4, <1>5 DEF PLInv, Identified
  <2>2. pick'.id = id[d] /\ id[d] \in Ids
    BY <1>5, <1>6 DEF Ids
  <2>3. QED  BY <1>5, <1>7, <2>1, <2>2 DEF PickNext, downloads, PickIsFree
<1>12. QED  BY <1>8, <1>9, <1>10, <1>11 DEF PLInv

\* What bears the picked id is not running, and so has no thread yet.
LEMMA DoDownloadStep ==
  ASSUME PLInv, DoDownload
  PROVE  PLInv'
<1>1. Listed' = Listed /\ Present' = Present
  BY SameLists DEF DoDownload
<1>2. ListTypes' /\ Layout' /\ Identified'
  BY SameIds DEF DoDownload
<1>3. CommandTypes' /\ PickIsFree'
  BY DEF DoDownload, PLInv, CommandTypes, PickIsFree
<1>4. pick' \in [pkg : -1 .. MaxId, id : -1 .. MaxId]
  BY PackageListAssumption DEF DoDownload, NoPick
<1>5. CASE UNCHANGED <<running, status, threads>>
  <2>1. DownloadTypes' /\ RunningHasThread' /\ ThreadsRun'
    BY <1>1, <1>4, <1>5 DEF DoDownload, PLInv, DownloadTypes, RunningHasThread, ThreadsRun
  <2>2. QED  BY <1>2, <1>3, <2>1 DEF PLInv
<1>6. ASSUME NEW d \in Downloads, Denotes(pick.pkg, pick.id, d), threads[d] < MaxThreads,
             running' = [running EXCEPT ![d] = TRUE],
             status' = [status EXCEPT ![d] = StatusAfter(d, "RUNNING")],
             threads' = [threads EXCEPT ![d] = @ + 1]
      PROVE PLInv'
  <2>1. d \in Listed /\ id[d] = pick.id
    BY <1>6, LookUpFacts DEF PLInv, ListTypes
  <2>2. id[d] \in Ids /\ ~running[d]
    BY <2>1 DEF DoDownload, PLInv, PickIsFree
  <2>3. threads[d] = 0
    BY <2>2 DEF PLInv, ThreadsRun, DownloadTypes
  <2>4. d \in Present
    BY <2>1 DEF Listed, Present
  <2>5. DownloadTypes'
    <3>1. threads' \in [Downloads -> 0 .. MaxThreads]
      BY <1>6, <2>3, PackageListAssumption DEF PLInv, DownloadTypes
    <3>2. status' \in [Downloads -> Status]
      BY <1>6 DEF PLInv, DownloadTypes, StatusAfter, Status
    <3>3. QED  BY <1>4, <1>6, <3>1, <3>2 DEF DoDownload, PLInv, DownloadTypes
  <2>6. threads'[d] = 1 /\ running'[d]
        /\ \A e \in Downloads \ {d} : /\ threads'[e] = threads[e] /\ running'[e] = running[e]
                                      /\ status'[e] = status[e]
    BY <1>6, <2>3 DEF PLInv, DownloadTypes
  <2>7. RunningHasThread'
    BY <2>6 DEF PLInv, RunningHasThread
  <2>8. ThreadsRun'
    BY <1>1, <2>2, <2>4, <2>6 DEF DoDownload, PLInv, ThreadsRun
  <2>9. QED  BY <1>2, <1>3, <2>5, <2>7, <2>8 DEF PLInv
<1>7. QED  BY <1>5, <1>6 DEF DoDownload

\* A download's thread ends.
LEMMA WorkerEndsStep ==
  ASSUME PLInv, NEW d \in Downloads, WorkerEnds(d)
  PROVE  PLInv'
<1>1. Listed' = Listed /\ Present' = Present
  BY SameLists DEF WorkerEnds
<1>2. ListTypes' /\ Layout' /\ Identified'
  BY SameIds DEF WorkerEnds
<1>3. CommandTypes'
  BY DEF WorkerEnds, PLInv, CommandTypes
<1>4. threads[d] = 1
  BY DEF WorkerEnds, PLInv, ThreadsRun
<1>5. PICK s \in Status \ {"RUNNING"} : status' = [status EXCEPT ![d] = s]
  BY DEF WorkerEnds, PLInv, DownloadTypes, Status
<1>6. DownloadTypes'
  <2>1. status' \in [Downloads -> Status] /\ running' \in [Downloads -> BOOLEAN]
    BY <1>5 DEF WorkerEnds, PLInv, DownloadTypes
  <2>2. threads' \in [Downloads -> 0 .. MaxThreads]
    BY <1>4, PackageListAssumption DEF WorkerEnds, PLInv, DownloadTypes
  <2>3. QED  BY <2>1, <2>2 DEF WorkerEnds, PLInv, DownloadTypes
<1>7. /\ threads'[d] = 0 /\ ~running'[d] /\ status'[d] # "RUNNING"
      /\ \A e \in Downloads \ {d} : /\ threads'[e] = threads[e] /\ running'[e] = running[e]
                                    /\ status'[e] = status[e]
  BY <1>4, <1>5 DEF WorkerEnds, PLInv, DownloadTypes
<1>8. RunningHasThread' /\ ThreadsRun'
  BY <1>1, <1>7 DEF WorkerEnds, PLInv, RunningHasThread, ThreadsRun
<1>9. PickIsFree'
  <2>1. \A e : running'[e] \in BOOLEAN /\ running'[e] => running[e]
    BY DEF WorkerEnds, PLInv, DownloadTypes
  <2>2. Listed \subseteq Downloads
    BY DEF Listed, PLInv, ListTypes, ToSet
  <2>3. \A e \in Listed : running'[e] => running[e]
    BY <1>7, <2>2
  <2>4. QED  BY <1>1, <2>3 DEF WorkerEnds, PLInv, PickIsFree
<1>10. QED  BY <1>2, <1>3, <1>6, <1>8, <1>9 DEF PLInv

--------------------------------------------------------------------------------
(* Steps that change the lists.                                             *)

\* Who is in the lists, in terms of the packages.
Membership ==
  /\ \A p : p \in All <=> p \in ToSet(packages) \/ p \in ToSet(doomed)
  /\ \A d : d \in Listed <=> \E p \in ToSet(packages) : d \in In(p)
  /\ \A d : d \in Present <=> \E p \in All : d \in In(p)

\* An element of a list is at some place of it, now ...
LEMMA MembershipHolds == Membership
BY DEF Membership, All, Listed, Present, In

\* ... and after the step.
LEMMA MembershipAfter == Membership'
BY MembershipHolds, PTL

\* Where packages and downloads can be.
LEMMA Members ==
  ASSUME PLInv
  PROVE  /\ All \subseteq Packages /\ Listed \subseteq Present /\ Present \subseteq Downloads
         /\ \A p \in Packages : content[p] \in Seq(Downloads) /\ In(p) \subseteq Downloads
<1>1. ToSet(packages) \subseteq Packages /\ ToSet(doomed) \subseteq Packages
  BY ToSetFacts DEF PLInv, ListTypes
<1>2. \A p \in Packages : content[p] \in Seq(Downloads) /\ In(p) \subseteq Downloads
  BY ToSetFacts DEF PLInv, ListTypes, In
<1>3. QED  BY <1>1, <1>2, MembershipHolds DEF Membership

\* A package is added, with the next id.
LEMMA AddPackageStep ==
  ASSUME PLInv, NEW c \in Clients, AddPackage(c)
  PROVE  PLInv'
<1>1. PICK p \in FreePackage, n \in Ids :
        /\ IsNextPackageId(n)
        /\ cid' = [cid EXCEPT ![p] = n]
        /\ content' = [content EXCEPT ![p] = <<>>]
        /\ packages' = Append(packages, p)
  BY DEF AddPackage
<1>2. p \in Packages /\ p \notin All
  BY DEF FreePackage, All
<1>3. /\ packages' \in Seq(Packages) /\ ToSet(packages') = ToSet(packages) \cup {p}
      /\ IsInjective(packages')
  BY <1>1, <1>2, AppendFacts, MembershipHolds DEF PLInv, ListTypes, Layout, Membership
<1>4. doomed' = doomed
  BY DEF AddPackage
<1>5. /\ All' = All \cup {p} /\ In(p)' = {} /\ content'[p] = <<>>
      /\ \A q \in All : In(q)' = In(q) /\ content'[q] = content[q] /\ cid'[q] = cid[q]
  <2>1. \A q \in All : content'[q] = content[q] /\ cid'[q] = cid[q]
    BY <1>1, <1>2, Members DEF PLInv, ListTypes
  <2>2. content'[p] = <<>> /\ ToSet(<<>>) = {}
    BY <1>1, <1>2 DEF PLInv, ListTypes, ToSet
  <2>3. QED  BY <1>3, <1>4, <2>1, <2>2 DEF All, In
<1>6. cid'[p] = n /\ \A q \in ToSet(packages) : cid[q] < n
  BY <1>1, <1>2 DEF PLInv, ListTypes, IsNextPackageId
<1>7. Listed' = Listed /\ Present' = Present
  <2>1. \A d : d \in Listed' <=> d \in Listed
    BY <1>3, <1>5, MembershipHolds, MembershipAfter DEF Membership
  <2>2. \A d : d \in Present' <=> d \in Present
    BY <1>5, MembershipHolds, MembershipAfter DEF Membership
  <2>3. QED  BY <2>1, <2>2
<1>8. ListTypes'
  BY <1>1, <1>2, <1>3, <1>4 DEF PLInv, ListTypes, Ids
<1>9. DownloadTypes' /\ CommandTypes'
  BY DEF AddPackage, downloads, PLInv, DownloadTypes, CommandTypes
<1>10. Layout'
  <2>1. IsInjective(content'[p])
    BY <1>5 DEF IsInjective
  <2>2. ToSet(packages)' \cap ToSet(doomed)' = {}
    BY <1>2, <1>3, <1>4, MembershipHolds DEF Membership, PLInv, Layout
  <2>3. QED  BY <1>3, <1>4, <1>5, <2>1, <2>2 DEF PLInv, Layout
<1>11. Identified'
  <2>1. \A q \in ToSet(packages)' : cid'[q] \in Ids
    BY <1>3, <1>5, <1>6, MembershipHolds DEF Membership, PLInv, Identified
  <2>2. \A q, r \in ToSet(packages)' : q # r => cid'[q] # cid'[r]
    <3>1. \A q \in ToSet(packages) : cid[q] # n
      BY <1>6 DEF PLInv, Identified, Ids
    <3>2. QED  BY <1>3, <1>5, <1>6, <3>1, MembershipHolds DEF Membership, PLInv, Identified
  <2>3. id' = id /\ parent' = parent
    BY DEF AddPackage, downloads
  <2>4. QED  BY <1>3, <1>5, <1>7, <2>1, <2>2, <2>3 DEF PLInv, Identified
<1>12. RunningHasThread' /\ ThreadsRun' /\ PickIsFree'
  BY <1>7 DEF AddPackage, downloads, PLInv, RunningHasThread, ThreadsRun, PickIsFree
<1>13. QED  BY <1>8, <1>9, <1>10, <1>11, <1>12 DEF PLInv

\* A download is added to a package, with the next id.
LEMMA AddDownloadStep ==
  ASSUME PLInv, NEW c \in Clients, AddDownload(c)
  PROVE  PLInv'
<1>1. PICK p \in ToSet(packages), d \in FreeDownload, n \in Ids :
        /\ IsNextDownloadId(n)
        /\ id' = [id EXCEPT ![d] = n]
        /\ parent' = [parent EXCEPT ![d] = cid[p]]
        /\ status' = [status EXCEPT ![d] = "PENDING"]
        /\ running' = [running EXCEPT ![d] = FALSE]
        /\ content' = [content EXCEPT ![p] = Append(@, d)]
  BY DEF AddDownload
<1>2. /\ p \in Packages /\ p \in All /\ d \in Downloads /\ d \notin Present
      /\ threads[d] = 0 /\ content[p] \in Seq(Downloads) /\ d \notin In(p)
  BY Members, MembershipHolds DEF FreeDownload, Membership
<1>3. /\ content'[p] \in Seq(Downloads) /\ In(p)' = In(p) \cup {d}
      /\ IsInjective(content'[p])
  <2>1. content'[p] = Append(content[p], d) /\ IsInjective(content[p])
    BY <1>1, <1>2 DEF PLInv, ListTypes, Layout
  <2>2. QED  BY <1>2, <2>1, AppendFacts DEF In
<1>4. packages' = packages /\ doomed' = doomed /\ cid' = cid /\ All' = All
  BY DEF AddDownload, All
<1>5. \A q \in Packages \ {p} : In(q)' = In(q) /\ content'[q] = content[q]
  BY <1>1, <1>2 DEF PLInv, ListTypes, In
<1>6. Listed' = Listed \cup {d} /\ Present' = Present \cup {d}
  <2>1. \A q \in All : In(q)' = In(q) \cup (IF q = p THEN {d} ELSE {})
    BY <1>3, <1>5, Members
  <2>2. \A q \in ToSet(packages) : q \in All
    BY MembershipHolds DEF Membership
  <2>3. QED  BY <1>1, <1>2, <1>4, <2>1, <2>2, MembershipHolds, MembershipAfter DEF Membership
<1>7. /\ id'[d] = n /\ parent'[d] = cid[p] /\ status'[d] = "PENDING" /\ ~running'[d]
      /\ \A e \in Downloads \ {d} :
           /\ id'[e] = id[e] /\ parent'[e] = parent[e]
           /\ status'[e] = status[e] /\ running'[e] = running[e]
  BY <1>1, <1>2 DEF PLInv, DownloadTypes
<1>8. \A e \in Listed : e \in Downloads \ {d} /\ id[e] < n
  BY <1>1, <1>2, Members DEF IsNextDownloadId
<1>9. ListTypes'
  BY <1>1, <1>2, <1>3, <1>4 DEF PLInv, ListTypes
<1>10. DownloadTypes' /\ CommandTypes'
  <2>1. cid[p] \in -1 .. MaxId /\ n \in -1 .. MaxId
    BY <1>2 DEF PLInv, ListTypes, Ids
  <2>2. /\ id' \in [Downloads -> -1 .. MaxId] /\ parent' \in [Downloads -> -1 .. MaxId]
        /\ status' \in [Downloads -> Status] /\ running' \in [Downloads -> BOOLEAN]
    BY <1>1, <1>2, <2>1 DEF PLInv, DownloadTypes, Status
  <2>3. QED  BY <2>2 DEF AddDownload, PLInv, DownloadTypes, CommandTypes
<1>11. Layout'
  <2>1. \A q \in All : IsInjective(content'[q])
    BY <1>3, <1>5, Members DEF PLInv, Layout
  <2>2. ASSUME NEW q \in All, NEW r \in All, q # r  PROVE In(q)' \cap In(r)' = {}
    <3>1. In(q) \cap In(r) = {} /\ d \notin In(q) /\ d \notin In(r)
      BY <1>2, <2>2, MembershipHolds DEF PLInv, Layout, Membership
    <3>2. QED  BY <1>3, <1>5, <2>2, <3>1, Members
  <2>3. QED  BY <1>4, <2>1, <2>2 DEF PLInv, Layout
<1>12. Identified'
  <2>1. \A e \in Listed : id[e] # n
    BY <1>8, Members DEF PLInv, DownloadTypes, Ids
  <2>2. \A e, f \in Listed' : e # f /\ id'[e] = id'[f] => id'[e] = -1
    BY <1>6, <1>7, <1>8, <2>1 DEF PLInv, Identified
  <2>3. ASSUME NEW q \in All, NEW e \in In(q)', NEW f \in In(q)', e # f, id'[e] = id'[f]
        PROVE  id'[e] = -1
    <3>1. CASE q = p
      BY <1>1, <1>4, <2>2, <2>3, <3>1, MembershipAfter DEF Membership
    <3>2. CASE q # p
      <4>1. q \in Packages /\ e \in In(q) /\ f \in In(q)
        BY <1>5, <2>3, <3>2, Members
      <4>2. e \in Downloads \ {d} /\ f \in Downloads \ {d}
        BY <1>2, <4>1, Members, MembershipHolds DEF Membership
      <4>3. QED  BY <1>7, <2>3, <4>1, <4>2 DEF PLInv, Identified
    <3>3. QED  BY <3>1, <3>2
  <2>4. ASSUME NEW q \in All, NEW e \in In(q)'  PROVE parent'[e] = cid[q]
    <3>1. CASE e = d
      <4>1. q = p
        BY <1>2, <1>5, <2>4, <3>1, Members, MembershipHolds DEF Membership
      <4>2. QED  BY <1>7, <3>1, <4>1
    <3>2. CASE e # d
      <4>1. e \in In(q) /\ e \in Downloads
        BY <1>3, <1>5, <2>4, <3>2, Members
      <4>2. QED  BY <1>7, <3>2, <4>1 DEF PLInv, Identified
    <3>3. QED  BY <3>1, <3>2
  <2>5. QED  BY <1>4, <2>2, <2>3, <2>4 DEF PLInv, Identified
<1>13. RunningHasThread'
  BY <1>7 DEF AddDownload, PLInv, RunningHasThread
<1>14. ThreadsRun'
  <2>1. \A e \in Downloads : threads[e] > 0 => e \in Downloads \ {d}
    BY <1>2
  <2>2. QED  BY <1>6, <1>7, <2>1 DEF AddDownload, PLInv, ThreadsRun
<1>15. PickIsFree'
  BY <1>6, <1>7, <1>8 DEF AddDownload, PLInv, PickIsFree
<1>16. QED  BY <1>9, <1>10, <1>11, <1>12, <1>13, <1>14, <1>15 DEF PLInv

\* A step that only puts members in another order.
LEMMA SameMembers ==
  ASSUME PLInv, UNCHANGED <<doomed, cid, id, parent>>,
         ToSet(packages)' = ToSet(packages), IsInjective(packages'),
         \A p \in All : In(p)' = In(p) /\ IsInjective(content'[p])
  PROVE  Listed' = Listed /\ Present' = Present /\ Layout' /\ Identified'
<1>1. All' = All
  BY DEF All
<1>2. Listed' = Listed /\ Present' = Present
  <2>1. \A d : d \in Listed' <=> d \in Listed
    BY MembershipHolds, MembershipAfter DEF Membership
  <2>2. \A d : d \in Present' <=> d \in Present
    BY <1>1, MembershipHolds, MembershipAfter DEF Membership
  <2>3. QED  BY <2>1, <2>2
<1>3. Layout'
  BY <1>1 DEF PLInv, Layout
<1>4. Identified'
  BY <1>1, <1>2 DEF PLInv, Identified
<1>5. QED  BY <1>2, <1>3, <1>4

\* A package is moved.
LEMMA MovePackageStep ==
  ASSUME PLInv, NEW c \in Clients, MovePackage(c)
  PROVE  PLInv'
<1>1. PICK i \in DOMAIN packages : packages' \in PackageMovesOf(i)
  BY DEF MovePackage
<1>2. Rearranges(packages', packages, Packages)
  BY <1>1, PackageMoveFacts DEF PLInv, ListTypes, Layout
<1>3. Listed' = Listed /\ Present' = Present /\ Layout' /\ Identified'
  <2>1. \A p \in All : In(p)' = In(p) /\ IsInjective(content'[p])
    BY DEF MovePackage, In, PLInv, Layout
  <2>2. QED  BY <1>2, <2>1, SameMembers DEF MovePackage, downloads, Rearranges
<1>4. ListTypes' /\ DownloadTypes' /\ CommandTypes'
  BY <1>2 DEF MovePackage, downloads, Rearranges, PLInv, ListTypes, DownloadTypes, CommandTypes
<1>5. RunningHasThread' /\ ThreadsRun' /\ PickIsFree'
  BY <1>3 DEF MovePackage, downloads, PLInv, RunningHasThread, ThreadsRun, PickIsFree
<1>6. QED  BY <1>3, <1>4, <1>5 DEF PLInv

\* A download is moved in its package.
LEMMA MoveStep ==
  ASSUME PLInv, NEW c \in Clients, Move(c)
  PROVE  PLInv'
<1>1. CommandTypes'
  <2>1. cmd[c].op # "none"
    BY DEF Move
  <2>2. QED  BY <2>1, CommandFacts DEF Move, PLInv
<1>2. CASE UNCHANGED content
  BY <1>1, <1>2, CommandStep DEF Move, lists
<1>3. CASE Hit(c) # {}
  <2> DEFINE p == PackageById(cmd[c].pkg)
  <2>1. PICK i \in DOMAIN content[p] : \E s \in MovesOf(content[p], i) :
                                         content' = [content EXCEPT ![p] = s]
    BY <1>3 DEF Move
  <2>2. PICK t \in MovesOf(content[p], i) : content' = [content EXCEPT ![p] = t]
    BY <2>1
  <2>3. p \in ToSet(packages)
    BY <1>3, LookUpFacts DEF Hit, Denotes, PLInv, ListTypes
  <2> HIDE DEF p
  <2>4. p \in All /\ p \in Packages /\ content[p] \in Seq(Downloads) /\ IsInjective(content[p])
    BY <2>3, Members, MembershipHolds DEF Membership, PLInv, Layout
  <2>5. Rearranges(t, content[p], Downloads)
    BY <2>2, <2>4, MoveFacts
  <2>6. ListTypes'
    BY <2>2, <2>4, <2>5 DEF Move, Rearranges, PLInv, ListTypes
  <2>7. Listed' = Listed /\ Present' = Present /\ Layout' /\ Identified'
    <3>1. \A q \in All : In(q)' = In(q) /\ IsInjective(content'[q])
      <4>1. content'[p] = t /\ \A q \in Packages \ {p} : content'[q] = content[q]
        BY <2>2, <2>4 DEF PLInv, ListTypes
      <4>2. QED  BY <2>5, <4>1, Members DEF In, Rearranges, PLInv, Layout
    <3>2. QED  BY <3>1, SameMembers DEF Move, downloads, PLInv, Layout
  <2>8. DownloadTypes'
    BY DEF Move, downloads, PLInv, DownloadTypes
  <2>9. RunningHasThread' /\ ThreadsRun' /\ PickIsFree'
    BY <2>7 DEF Move, downloads, PLInv, RunningHasThread, ThreadsRun, PickIsFree
  <2>10. QED  BY <1>1, <2>6, <2>7, <2>8, <2>9 DEF PLInv
<1>4. QED  BY <1>2, <1>3 DEF Move

\* A package is deleted: its downloads are marked, and it waits for the purge.
LEMMA DeletePackageStep ==
  ASSUME PLInv, NEW c \in Clients, DeletePackage(c)
  PROVE  PLInv'
<1>1. PICK i \in DOMAIN packages :
        /\ status' = [d \in Downloads |->
                        IF d \in ToSet(content[packages[i]]) THEN "DELETED" ELSE status[d]]
        /\ doomed' = Append(doomed, packages[i])
        /\ packages' = RemoveAt(packages, i)
  BY DEF DeletePackage
<1> DEFINE p == packages[i]
<1>2. /\ packages \in Seq(Packages) /\ doomed \in Seq(Packages) /\ IsInjective(packages)
      /\ IsInjective(doomed) /\ ToSet(packages) \cap ToSet(doomed) = {}
  BY DEF PLInv, ListTypes, Layout
<1>3. p \in Packages /\ p \in ToSet(packages) /\ p \notin ToSet(doomed)
  BY <1>2, LenProperties DEF ToSet
<1>4. /\ packages' \in Seq(Packages) /\ ToSet(packages') = ToSet(packages) \ {p}
      /\ IsInjective(packages')
  BY <1>1, <1>2, RemoveAtSet
<1>5. /\ doomed' \in Seq(Packages) /\ ToSet(doomed') = ToSet(doomed) \cup {p}
      /\ IsInjective(doomed')
  <2>1. doomed' = Append(doomed, p)
    BY <1>1
  <2> HIDE DEF p
  <2>2. QED  BY <1>2, <1>3, <2>1, AppendFacts
<1> HIDE DEF p
<1>6. /\ cid' = cid /\ content' = content /\ id' = id /\ parent' = parent
      /\ running' = running /\ threads' = threads /\ All' = All
      /\ \A q : In(q)' = In(q)
  BY <1>3, <1>4, <1>5 DEF DeletePackage, All, In
<1>7. Listed' \subseteq Listed /\ Present' = Present
  <2>1. \A d : d \in Listed' => d \in Listed
    BY <1>4, <1>6, MembershipHolds, MembershipAfter DEF Membership
  <2>2. \A d : d \in Present' <=> d \in Present
    BY <1>6, MembershipHolds, MembershipAfter DEF Membership
  <2>3. QED  BY <2>1, <2>2
<1>8. \A d \in Downloads : status'[d] \in {"DELETED", status[d]}
  BY <1>1
<1>9. ListTypes' /\ CommandTypes'
  BY <1>4, <1>5, <1>6 DEF DeletePackage, PLInv, ListTypes, CommandTypes
<1>10. DownloadTypes'
  <2>1. status' \in [Downloads -> Status]
    BY <1>1, <1>8 DEF PLInv, DownloadTypes, Status
  <2>2. QED  BY <2>1 DEF DeletePackage, PLInv, DownloadTypes
<1>11. Layout'
  <2>1. ToSet(packages') \cap ToSet(doomed') = {}
    BY <1>2, <1>4, <1>5
  <2>2. QED  BY <1>4, <1>5, <1>6, <2>1 DEF PLInv, Layout
<1>12. Identified'
  BY <1>4, <1>6, <1>7 DEF PLInv, Identified
<1>13. RunningHasThread' /\ ThreadsRun' /\ PickIsFree'
  BY <1>6, <1>7, <1>8 DEF DeletePackage, PLInv, RunningHasThread, ThreadsRun, PickIsFree
<1>14. QED  BY <1>9, <1>10, <1>11, <1>12, <1>13 DEF PLInv

\* A link put before the one it came from has no id, and is in no list yet.
LEMMA DecryptStep ==
  ASSUME PLInv, NEW d \in Downloads, Decrypt(d)
  PROVE  PLInv'
<1>1. PICK p \in All, new \in FreeDownload : \E i \in DOMAIN content[p] :
        /\ content[p][i] = d
        /\ content' = [content EXCEPT ![p] = InsertAt(@, i, new)]
        /\ id' = [id EXCEPT ![new] = -1]
        /\ parent' = [parent EXCEPT ![new] = cid[p]]
        /\ status' = [status EXCEPT ![new] = "PENDING", ![d] = "DELETED"]
        /\ running' = [running EXCEPT ![new] = FALSE]
  BY DEF Decrypt, All
<1>2. PICK i \in DOMAIN content[p] :
        /\ content[p][i] = d
        /\ content' = [content EXCEPT ![p] = InsertAt(@, i, new)]
        /\ id' = [id EXCEPT ![new] = -1]
        /\ parent' = [parent EXCEPT ![new] = cid[p]]
        /\ status' = [status EXCEPT ![new] = "PENDING", ![d] = "DELETED"]
        /\ running' = [running EXCEPT ![new] = FALSE]
  BY <1>1
<1>3. /\ p \in Packages /\ new \in Downloads /\ new \notin Present
      /\ threads[new] = 0 /\ content[p] \in Seq(Downloads) /\ new \notin In(p)
  BY Members, MembershipHolds DEF FreeDownload, Membership
<1>4. /\ content'[p] \in Seq(Downloads) /\ In(p)' = In(p) \cup {new}
      /\ IsInjective(content'[p])
  <2>1. content'[p] = InsertAt(content[p], i, new) /\ IsInjective(content[p])
    BY <1>2, <1>3 DEF PLInv, ListTypes, Layout
  <2>2. QED  BY <1>2, <1>3, <2>1, InsertAtFacts DEF In
<1>5. packages' = packages /\ doomed' = doomed /\ cid' = cid /\ All' = All
      /\ threads' = threads /\ pick' = pick
  BY DEF Decrypt, All
<1>6. \A q \in Packages \ {p} : In(q)' = In(q) /\ content'[q] = content[q]
  BY <1>2, <1>3 DEF PLInv, ListTypes, In
<1>7. Listed' \subseteq Listed \cup {new} /\ Present' = Present \cup {new}
  <2>1. \A q \in All : In(q)' = In(q) \cup (IF q = p THEN {new} ELSE {})
    BY <1>4, <1>6, Members
  <2>2. \A q \in ToSet(packages) : q \in All
    BY MembershipHolds DEF Membership
  <2>3. \A e : e \in Listed' => e \in Listed \cup {new}
    BY <1>5, <2>1, <2>2, MembershipHolds, MembershipAfter DEF Membership
  <2>4. \A e : e \in Present' <=> e \in Present \cup {new}
    BY <1>5, <2>1, MembershipHolds, MembershipAfter DEF Membership
  <2>5. QED  BY <2>3, <2>4
<1>8. /\ id'[new] = -1 /\ parent'[new] = cid[p] /\ status'[new] # "RUNNING" /\ ~running'[new]
      /\ \A e \in Downloads \ {new} :
           /\ id'[e] = id[e] /\ parent'[e] = parent[e]
           /\ status'[e] \in {"DELETED", status[e]} /\ running'[e] = running[e]
  BY <1>2, <1>3 DEF PLInv, DownloadTypes
<1>9. ListTypes'
  BY <1>2, <1>3, <1>4, <1>5 DEF PLInv, ListTypes
<1>10. DownloadTypes' /\ CommandTypes'
  <2>1. cid[p] \in -1 .. MaxId /\ -1 \in -1 .. MaxId
    BY <1>3, PackageListAssumption DEF PLInv, ListTypes
  <2>2. /\ id' \in [Downloads -> -1 .. MaxId] /\ parent' \in [Downloads -> -1 .. MaxId]
        /\ status' \in [Downloads -> Status] /\ running' \in [Downloads -> BOOLEAN]
    BY <1>2, <1>3, <2>1 DEF PLInv, DownloadTypes, Status
  <2>3. QED  BY <2>2 DEF Decrypt, PLInv, DownloadTypes, CommandTypes
<1>11. Layout'
  <2>1. \A q \in All : IsInjective(content'[q])
    BY <1>4, <1>6, Members DEF PLInv, Layout
  <2>2. ASSUME NEW q \in All, NEW r \in All, q # r  PROVE In(q)' \cap In(r)' = {}
    <3>1. In(q) \cap In(r) = {} /\ new \notin In(q) /\ new \notin In(r)
      BY <1>3, <2>2, MembershipHolds DEF PLInv, Layout, Membership
    <3>2. QED  BY <1>4, <1>6, <2>2, <3>1, Members
  <2>3. QED  BY <1>5, <2>1, <2>2 DEF PLInv, Layout
<1>12. \A q \in All : \A e \in In(q)' :
         (e = new /\ q = p) \/ (e \in In(q) /\ e \in Downloads \ {new})
  BY <1>3, <1>4, <1>6, Members, MembershipHolds DEF Membership
<1>13. Identified'
  <2>1. \A e, f \in Listed' : e # f /\ id'[e] = id'[f] => id'[e] = -1
    <3>1. \A e \in Listed' : e = new \/ (e \in Listed /\ e \in Downloads \ {new})
      BY <1>7, Members
    <3>2. QED  BY <1>8, <3>1 DEF PLInv, Identified
  <2>2. \A q \in All : \A e, f \in In(q)' : e # f /\ id'[e] = id'[f] => id'[e] = -1
    BY <1>8, <1>12 DEF PLInv, Identified
  <2>3. \A q \in All : \A e \in In(q)' : parent'[e] = cid[q]
    BY <1>8, <1>12 DEF PLInv, Identified
  <2>4. QED  BY <1>5, <2>1, <2>2, <2>3 DEF PLInv, Identified
<1>14. RunningHasThread'
  BY <1>5, <1>8 DEF PLInv, RunningHasThread
<1>15. ThreadsRun'
  <2>1. \A e \in Downloads : threads[e] > 0 => e \in Downloads \ {new}
    BY <1>3
  <2>2. QED  BY <1>5, <1>7, <1>8, <2>1 DEF PLInv, ThreadsRun
<1>16. PickIsFree'
  <2>1. \A e \in Listed' : e = new \/ (e \in Listed /\ e \in Downloads \ {new})
    BY <1>7, Members
  <2>2. QED  BY <1>5, <1>8, <2>1 DEF PLInv, PickIsFree, Ids
<1>17. QED  BY <1>9, <1>10, <1>11, <1>13, <1>14, <1>15, <1>16 DEF PLInv

--------------------------------------------------------------------------------
(* Ids for the downloads that have none.                                    *)

\* The downloads that have none get an id nobody else has.
LEMMA CorrectIdsStep ==
  ASSUME PLInv, CorrectIds
  PROVE  PLInv'
<1> DEFINE parts == [i \in DOMAIN packages |-> content[packages[i]]]
           order == FlattenSeq(parts)
           none == Kept(order, {d \in Downloads : id[d] = -1})
           pos(d) == CHOOSE i \in DOMAIN none : none[i] = d
<1>1. PICK n \in Ids :
        /\ IsNextDownloadId(n)
        /\ n + Len(none) - 1 <= MaxId
        /\ id' = [d \in Downloads |-> IF d \in ToSet(none) THEN n - 1 + pos(d) ELSE id[d]]
  BY DEF CorrectIds
<1>2. order \in Seq(Downloads) /\ ToSet(order) = Listed
  <2>1. Len(packages) \in Nat /\ DOMAIN packages = 1 .. Len(packages)
        /\ \A i \in DOMAIN packages : packages[i] \in Packages
    BY LenProperties DEF PLInv, ListTypes
  <2>2. parts \in [1 .. Len(packages) -> Seq(Downloads)] /\ DOMAIN parts = DOMAIN packages
        /\ \A i \in DOMAIN packages : parts[i] = content[packages[i]]
    BY <2>1 DEF PLInv, ListTypes
  <2>3. parts \in Seq(Seq(Downloads))
    BY <2>1, <2>2, SeqDef
  <2> HIDE DEF parts
  <2>4. /\ FlattenSeq(parts) \in Seq(Downloads)
        /\ ToSet(FlattenSeq(parts)) = UNION {ToSet(parts[i]) : i \in DOMAIN parts}
    BY <2>3, FlattenFacts
  <2>5. UNION {ToSet(parts[i]) : i \in DOMAIN parts} = Listed
    BY <2>2 DEF Listed, ToSet
  <2>6. QED  BY <2>4, <2>5
<1> HIDE DEF order
<1>3. /\ none \in Seq(Downloads)
      /\ ToSet(none) = Listed \cap {d \in Downloads : id[d] = -1}
  <2>1. none \in Seq(Downloads \cap {d \in Downloads : id[d] = -1})
    BY <1>2, KeptFacts
  <2>2. Downloads \cap {d \in Downloads : id[d] = -1} \subseteq Downloads
    OBVIOUS
  <2>3. ToSet(none) = Listed \cap {d \in Downloads : id[d] = -1}
    BY <1>2, KeptFacts
  <2>4. ToSet(none) \subseteq Downloads
    BY <2>3
  <2> HIDE DEF none
  <2>5. none \in Seq(Downloads)
    BY <2>1, <2>4, ToSetFacts
  <2>6. QED  BY <2>3, <2>5
<1> HIDE DEF none
<1>4. Len(none) \in Nat /\ DOMAIN none = 1 .. Len(none)
  BY <1>3, LenProperties
<1>5. \A d \in ToSet(none) : pos(d) \in 1 .. Len(none) /\ none[pos(d)] = d
  BY <1>4 DEF ToSet
<1> HIDE DEF pos
<1>6. \A d \in ToSet(none) : d \in Listed /\ d \in Downloads /\ id[d] = -1
  BY <1>3
<1>7. n \in Nat /\ MaxId \in Nat /\ n <= MaxId /\ \A d \in Listed : id[d] < n
  BY <1>1, PackageListAssumption DEF IsNextDownloadId, Ids
<1>8. /\ \A d \in ToSet(none) : /\ id'[d] = n - 1 + pos(d) /\ id'[d] \in Ids /\ n <= id'[d]
      /\ \A d \in Downloads \ ToSet(none) : id'[d] = id[d]
  BY <1>1, <1>4, <1>5, <1>6, <1>7 DEF Ids
<1>9. Listed' = Listed /\ Present' = Present /\ All' = All /\ \A p : In(p)' = In(p)
  BY SameLists DEF CorrectIds
<1>10. ListTypes' /\ CommandTypes' /\ Layout'
  BY <1>9 DEF CorrectIds, lists, PLInv, ListTypes, CommandTypes, Layout
<1>11. DownloadTypes'
  <2>1. \A d \in Downloads : id'[d] \in -1 .. MaxId
    BY <1>7, <1>8 DEF Ids, PLInv, DownloadTypes
  <2>2. id' \in [Downloads -> -1 .. MaxId]
    BY <1>1, <2>1
  <2>3. QED  BY <2>2 DEF CorrectIds, PLInv, DownloadTypes
<1>12. \A d, e \in Listed : d # e /\ id'[d] = id'[e] => id'[d] = -1
  <2>1. ASSUME NEW d \in Listed, NEW e \in Listed, d # e, id'[d] = id'[e]  PROVE id'[d] = -1
    <3>1. d \in Downloads /\ e \in Downloads /\ id[d] < n /\ id[e] < n
          /\ id[d] \in -1 .. MaxId /\ id[e] \in -1 .. MaxId
      BY <1>7, Members DEF PLInv, DownloadTypes
    <3>2. CASE d \in ToSet(none) /\ e \in ToSet(none)
      <4>1. pos(d) = pos(e)
        BY <1>4, <1>5, <1>7, <1>8, <2>1, <3>2
      <4>2. QED  BY <1>5, <2>1, <3>2, <4>1
    <3>3. CASE d \notin ToSet(none) /\ e \notin ToSet(none)
      BY <1>8, <2>1, <3>1, <3>3 DEF PLInv, Identified
    <3>4. CASE d \in ToSet(none) /\ e \notin ToSet(none)
      <4>1. n <= id'[d] /\ id'[d] \in Nat /\ id'[e] = id[e]
        BY <1>8, <3>1, <3>4 DEF Ids
      <4>2. QED  BY <1>7, <2>1, <3>1, <4>1
    <3>5. CASE d \notin ToSet(none) /\ e \in ToSet(none)
      <4>1. n <= id'[e] /\ id'[e] \in Nat /\ id'[d] = id[d]
        BY <1>8, <3>1, <3>5 DEF Ids
      <4>2. QED  BY <1>7, <2>1, <3>1, <4>1
    <3>6. QED  BY <3>2, <3>3, <3>4, <3>5
  <2>2. QED  BY <2>1
<1>13. Identified'
  <2>1. ASSUME NEW p \in All, NEW d \in In(p), NEW e \in In(p), d # e, id'[d] = id'[e]
        PROVE  id'[d] = -1
    <3>1. CASE p \in ToSet(packages)
      BY <1>12, <2>1, <3>1, MembershipHolds DEF Membership
    <3>2. CASE p \notin ToSet(packages)
      <4>1. d \notin Listed /\ e \notin Listed
        BY <3>2, MembershipHolds DEF Membership, PLInv, Layout
      <4>2. d \in Downloads \ ToSet(none) /\ e \in Downloads \ ToSet(none)
        BY <1>6, <4>1, Members
      <4>3. QED  BY <1>8, <2>1, <4>2 DEF PLInv, Identified
    <3>3. QED  BY <3>1, <3>2
  <2>2. packages' = packages /\ cid' = cid /\ parent' = parent
    BY DEF CorrectIds, lists
  <2>3. QED  BY <1>9, <1>12, <2>1, <2>2 DEF PLInv, Identified
<1>14. \A d \in Downloads : threads[d] > 0 => id'[d] = id[d]
  <2>1. \A d \in Downloads : threads[d] > 0 => id[d] # -1
    BY DEF PLInv, ThreadsRun, Ids
  <2>2. QED  BY <1>6, <1>8, <2>1
<1>15. RunningHasThread' /\ ThreadsRun'
  BY <1>9, <1>14 DEF CorrectIds, PLInv, RunningHasThread, ThreadsRun
<1>16. PickIsFree'
  <2>1. \A d \in Downloads : running[d] => id'[d] = id[d]
    BY <1>14 DEF PLInv, RunningHasThread
  <2>2. QED  BY <1>9, <2>1, Members DEF CorrectIds, PLInv, PickIsFree
<1>17. QED  BY <1>10, <1>11, <1>13, <1>15, <1>16 DEF PLInv

--------------------------------------------------------------------------------
(* The purge.                                                               *)

\* A download that runs and has an id of its own is not destroyed.
LEMMA SparedFacts ==
  ASSUME PLInv, NEW p \in All, NEW i \in DOMAIN content[p],
         running[content[p][i]], id[content[p][i]] \in Ids
  PROVE  Spared(content[p], i)
<1> DEFINE s == content[p]
           same == {j \in DOMAIN s : id[s[j]] = id[s[i]]}
           dead == {j \in same : status[s[j]] = "DELETED" /\ ~running[s[j]]}
           upto == {j \in same : j <= i}
<1>1. DOMAIN s = 1 .. Len(s) /\ Len(s) \in Nat /\ IsInjective(s)
      /\ \A j \in DOMAIN s : s[j] \in In(p)
  BY Members, LenProperties DEF PLInv, Layout, In, ToSet
<1>2. same = {i}
  <2>1. ASSUME NEW j \in same  PROVE j = i
    <3>1. s[j] \in In(p) /\ s[i] \in In(p) /\ id[s[j]] = id[s[i]] /\ id[s[j]] # -1
      BY <1>1 DEF Ids
    <3>2. s[j] = s[i]
      BY <3>1 DEF PLInv, Identified
    <3>3. QED  BY <1>1, <3>2 DEF IsInjective
  <2>2. QED  BY <2>1
<1>3. dead = {} /\ upto = {i}
  BY <1>1, <1>2
<1>4. Cardinality(dead) = 0 /\ Cardinality(upto) = 1
  BY <1>3, FS_EmptySet, FS_Singleton
<1>5. Cardinality(dead) < Cardinality(upto)
  BY <1>4
<1>6. QED  BY <1>5 DEF Spared

\* purge_deleted keeps the order, and every download it has no right to destroy.
LEMMA PurgedFacts ==
  ASSUME NEW s \in Seq(Downloads), IsInjective(s)
  PROVE  /\ Purged(s) \in Seq(Downloads) /\ IsInjective(Purged(s))
         /\ ToSet(Purged(s)) \subseteq ToSet(s)
         /\ \A i \in DOMAIN s : s[i] \in ToSet(Purged(s)) <=> Spared(s, i)
<1> DEFINE S == {s[i] : i \in {i \in DOMAIN s : Spared(s, i)}}
<1>1. Purged(s) = Kept(s, S)
  BY DEF Purged
<1>2. \A i \in DOMAIN s : s[i] \in S <=> Spared(s, i)
  BY DEF IsInjective
<1> HIDE DEF S
<1>3. /\ Kept(s, S) \in Seq(Downloads \cap S) /\ ToSet(Kept(s, S)) = ToSet(s) \cap S
      /\ IsInjective(Kept(s, S))
  BY KeptFacts
<1>4. ToSet(s) \subseteq Downloads
  BY ToSetFacts
<1>5. Kept(s, S) \in Seq(Downloads)
  BY <1>3, <1>4, ToSetFacts
<1>6. \A i \in DOMAIN s : s[i] \in ToSet(s)
  BY DEF ToSet
<1>7. QED  BY <1>1, <1>2, <1>3, <1>5, <1>6

\* The deleted downloads leave the list.
LEMMA PurgeStep ==
  ASSUME PLInv, PurgeDeleted
  PROVE  PLInv'
<1> DEFINE freed == {doomed[i] : i \in Emptied}
           rest == Kept(doomed, Packages \ freed)
<1>1. /\ content' = [p \in Packages |-> IF p \in Purging THEN Purged(content[p])
                                        ELSE content[p]]
      /\ doomed' = rest
      /\ cid' = [p \in Packages |-> IF p \in freed THEN -1 ELSE cid[p]]
      /\ id' = [d \in Downloads |-> IF Destroys(d) THEN -1 ELSE id[d]]
      /\ parent' = [d \in Downloads |-> IF Destroys(d) THEN -1 ELSE parent[d]]
      /\ status' = [d \in Downloads |-> IF d \in Remarked THEN "DELETED" ELSE status[d]]
      /\ packages' = packages /\ running' = running /\ threads' = threads
      /\ unassigned' = unassigned /\ pick' = pick /\ cmd' = cmd
  BY DEF PurgeDeleted, PurgeLists
<1>2. freed \subseteq ToSet(doomed) /\ Purging \subseteq All
  BY DEF Emptied, Reached, Purging, All, ToSet
<1>3. /\ \A p \in freed : CanBeDestroyed(p)
      /\ -1 \in -1 .. MaxId
  BY PackageListAssumption DEF Emptied
<1> HIDE DEF freed
<1>4. /\ rest \in Seq(Packages) /\ ToSet(rest) = ToSet(doomed) \ freed
      /\ IsInjective(rest)
  <2>1. doomed \in Seq(Packages) /\ IsInjective(doomed) /\ ToSet(doomed) \subseteq Packages
    BY ToSetFacts DEF PLInv, ListTypes, Layout
  <2>2. /\ rest \in Seq(Packages \cap (Packages \ freed))
        /\ ToSet(rest) = ToSet(doomed) \cap (Packages \ freed)
        /\ IsInjective(rest)
    BY <2>1, KeptFacts
  <2>3. ToSet(rest) \subseteq Packages
    BY <2>2
  <2> HIDE DEF rest
  <2>4. rest \in Seq(Packages)
    BY <2>2, <2>3, ToSetFacts
  <2>5. QED  BY <2>1, <2>2, <2>4
<1> HIDE DEF rest
<1>5. \A p : p \in All' <=> p \in All /\ p \notin freed
  BY <1>1, <1>2, <1>4, MembershipHolds, MembershipAfter DEF Membership, PLInv, Layout
<1>6. \A p \in All : /\ content'[p] \in Seq(Downloads) /\ IsInjective(content'[p])
                     /\ In(p)' \subseteq In(p)
  <2>1. ASSUME NEW p \in All
        PROVE  /\ content'[p] \in Seq(Downloads) /\ IsInjective(content'[p])
               /\ In(p)' \subseteq In(p)
    <3>1. p \in Packages /\ content[p] \in Seq(Downloads) /\ IsInjective(content[p])
      BY Members DEF PLInv, Layout
    <3>2. content'[p] \in {content[p], Purged(content[p])}
      BY <1>1, <3>1
    <3>3. QED  BY <3>1, <3>2, PurgedFacts DEF In
  <2>2. QED  BY <2>1
<1>7. \A p \in All' : \A d \in In(p)' : d \in Downloads /\ ~Destroys(d)
  <2>1. ASSUME NEW p \in All', NEW d \in In(p)', Destroys(d)  PROVE FALSE
    <3>1. PICK q \in Purging : \E i \in DOMAIN content[q] :
                                 content[q][i] = d /\ ~Spared(content[q], i)
      BY <2>1 DEF Destroys
    <3>2. PICK i \in DOMAIN content[q] : content[q][i] = d /\ ~Spared(content[q], i)
      BY <3>1
    <3>3. d \in In(q) /\ q \in All /\ p \in All /\ d \in In(p)
      BY <1>2, <1>5, <1>6, <2>1, <3>2 DEF In, ToSet
    <3>4. p = q
      BY <3>3 DEF PLInv, Layout
    <3>5. q \in Packages /\ content[q] \in Seq(Downloads) /\ IsInjective(content[q])
      BY <3>3, Members DEF PLInv, Layout
    <3>6. content'[q] = Purged(content[q])
      BY <1>1, <3>1, <3>5
    <3>7. d \in ToSet(Purged(content[q]))
      BY <2>1, <3>4, <3>6 DEF In
    <3>8. QED  BY <3>2, <3>5, <3>7, PurgedFacts
  <2>2. QED  BY <1>5, <1>6, <2>1, Members
<1>8. \A p \in All' : /\ cid'[p] = cid[p]
                      /\ \A d \in In(p)' : d \in In(p) /\ id'[d] = id[d] /\ parent'[d] = parent[d]
  BY <1>1, <1>5, <1>6, <1>7, Members
<1>9. Listed' \subseteq Listed /\ \A d \in Listed' : id'[d] = id[d]
  <2>1. \A d : d \in Listed' => d \in Listed /\ id'[d] = id[d]
    BY <1>1, <1>5, <1>8, MembershipHolds, MembershipAfter DEF Membership
  <2>2. QED  BY <2>1
<1>10. \A d \in Downloads : threads[d] > 0 => d \in Present' /\ id'[d] = id[d]
  <2>1. ASSUME NEW d \in Downloads, threads[d] > 0  PROVE d \in Present' /\ id'[d] = id[d]
    <3>1. running[d] /\ id[d] \in Ids /\ d \in Present
      BY <2>1 DEF PLInv, ThreadsRun
    <3>2. PICK p \in All : d \in In(p)
      BY <3>1, MembershipHolds DEF Membership
    <3>3. p \in Packages /\ content[p] \in Seq(Downloads) /\ IsInjective(content[p])
      BY <3>2, Members DEF PLInv, Layout
    <3>4. PICK i \in DOMAIN content[p] : content[p][i] = d
      BY <3>2 DEF In, ToSet
    <3>5. Spared(content[p], i)
      BY <3>1, <3>4, SparedFacts
    <3>6. p \in All'
      BY <1>3, <1>5, <3>5 DEF CanBeDestroyed
    <3>7. d \in In(p)'
      <4>1. CASE p \in Purging
        <5>1. content'[p] = Purged(content[p])
          BY <1>1, <3>3, <4>1
        <5>2. QED  BY <3>3, <3>4, <3>5, <5>1, PurgedFacts DEF In
      <4>2. CASE p \notin Purging
        BY <1>1, <3>2, <3>3, <4>2 DEF In
      <4>3. QED  BY <4>1, <4>2
    <3>8. QED  BY <1>8, <3>6, <3>7, MembershipAfter DEF Membership
  <2>2. QED  BY <2>1
<1>11. ListTypes'
  <2>1. \A p \in Packages : content'[p] \in Seq(Downloads) /\ cid'[p] \in -1 .. MaxId
    BY <1>1, <1>2, <1>3, <1>6, Members DEF PLInv, ListTypes
  <2>2. content' \in [Packages -> Seq(Downloads)] /\ cid' \in [Packages -> -1 .. MaxId]
    BY <1>1, <2>1
  <2>3. QED  BY <1>1, <1>4, <2>2 DEF PLInv, ListTypes
<1>12. DownloadTypes' /\ CommandTypes'
  <2>1. /\ id' \in [Downloads -> -1 .. MaxId] /\ parent' \in [Downloads -> -1 .. MaxId]
    BY <1>1, <1>3 DEF PLInv, DownloadTypes
  <2>2. status' \in [Downloads -> Status]
    BY <1>1 DEF PLInv, DownloadTypes, Status
  <2>3. QED  BY <1>1, <2>1, <2>2 DEF PLInv, DownloadTypes, CommandTypes
<1>13. Layout'
  <2>1. \A p \in All' : IsInjective(content'[p])
    BY <1>5, <1>6
  <2>2. \A p, q \in All' : p # q => In(p)' \cap In(q)' = {}
    BY <1>5, <1>6 DEF PLInv, Layout
  <2>3. QED  BY <1>1, <1>4, <2>1, <2>2 DEF PLInv, Layout
<1>14. Identified'
  <2>1. \A p \in ToSet(packages)' : p \in ToSet(packages) /\ cid'[p] = cid[p]
    BY <1>1, <1>8, MembershipAfter DEF Membership
  <2>2. \A d, e \in Listed' : d # e /\ id'[d] = id'[e] => id'[d] = -1
    BY <1>9 DEF PLInv, Identified
  <2>3. \A p \in All' : \A d, e \in In(p)' : d # e /\ id'[d] = id'[e] => id'[d] = -1
    BY <1>5, <1>8 DEF PLInv, Identified
  <2>4. \A p \in All' : \A d \in In(p)' : parent'[d] = cid'[p]
    BY <1>5, <1>8 DEF PLInv, Identified
  <2>5. QED  BY <2>1, <2>2, <2>3, <2>4 DEF PLInv, Identified
<1>15. RunningHasThread'
  <2>1. \A d \in Downloads : status'[d] \in {"DELETED", status[d]}
    BY <1>1
  <2>2. QED  BY <1>1, <2>1 DEF PLInv, RunningHasThread
<1>16. ThreadsRun'
  BY <1>1, <1>10 DEF PLInv, ThreadsRun
<1>17. PickIsFree'
  BY <1>1, <1>9 DEF PLInv, PickIsFree
<1>18. QED  BY <1>11, <1>12, <1>13, <1>14, <1>15, <1>16, <1>17 DEF PLInv

--------------------------------------------------------------------------------
(* The file, and a start from it.                                           *)

\* A file a start may find: no package has two entries.
FileOfPackages(file) ==
  /\ file \in FileText
  /\ \A i, j \in DOMAIN file : i # j => file[i].pkg # file[j].pkg

\* What is dumped of the list is a list file.
LEMMA TextFacts ==
  ASSUME PLInv
  PROVE  FileOfPackages(Text)
<1> DEFINE n == Len(packages)
           Line == [id : -1 .. MaxId, status : Status \ {"DELETED"}]
           Entry == [pkg : Ids, lines : Seq(Line)]
           shown(i) == Visible(content[packages[i]])
           lines(i) == [j \in DOMAIN shown(i) |->
                          [id |-> id[shown(i)[j]], status |-> status[shown(i)[j]]]]
<1>1. n \in Nat /\ DOMAIN packages = 1 .. n
      /\ \A i \in 1 .. n : packages[i] \in ToSet(packages) /\ packages[i] \in Packages
  BY LenProperties DEF PLInv, ListTypes, ToSet
<1>2. ASSUME NEW i \in 1 .. n  PROVE lines(i) \in Seq(Line)
  <2> DEFINE V == {d \in Downloads : status[d] # "DELETED"}
             s == shown(i)
  <2>1. content[packages[i]] \in Seq(Downloads)
    BY <1>1, Members
  <2>2. s = Kept(content[packages[i]], V)
    BY DEF Visible
  <2> HIDE DEF V
  <2>3. s \in Seq(Downloads \cap V)
    BY <2>1, <2>2, KeptFacts
  <2> HIDE DEF s
  <2>4. Len(s) \in Nat /\ DOMAIN s = 1 .. Len(s) /\ \A j \in 1 .. Len(s) : s[j] \in Downloads \cap V
    BY <2>3, LenProperties
  <2>5. \A j \in 1 .. Len(s) : [id |-> id[s[j]], status |-> status[s[j]]] \in Line
    BY <2>4 DEF PLInv, DownloadTypes, V
  <2>6. [j \in DOMAIN s |-> [id |-> id[s[j]], status |-> status[s[j]]]] \in [1 .. Len(s) -> Line]
    BY <2>4, <2>5
  <2> HIDE DEF Line
  <2>7. [j \in DOMAIN s |-> [id |-> id[s[j]], status |-> status[s[j]]]] \in Seq(Line)
    BY <2>4, <2>6, SeqDef
  <2>8. QED  BY <2>7 DEF s
<1>3. Text = [i \in DOMAIN packages |-> [pkg |-> cid[packages[i]], lines |-> lines(i)]]
  BY DEF Text
<1> HIDE DEF Line, lines
<1>4. \A i \in 1 .. n : [pkg |-> cid[packages[i]], lines |-> lines(i)] \in Entry
  BY <1>1, <1>2 DEF PLInv, Identified
<1> HIDE DEF Entry
<1>5. Text \in [1 .. n -> Entry] /\ \A i \in 1 .. n : Text[i].pkg = cid[packages[i]]
  BY <1>1, <1>3, <1>4
<1>6. Text \in Seq(Entry) /\ DOMAIN Text = 1 .. n
  BY <1>1, <1>5, SeqDef
<1>7. \A i, j \in 1 .. n : i # j => packages[i] # packages[j]
  BY <1>1 DEF PLInv, Layout, IsInjective
<1>8. \A i, j \in DOMAIN Text : i # j => Text[i].pkg # Text[j].pkg
  BY <1>1, <1>5, <1>6, <1>7 DEF PLInv, Identified
<1>9. QED  BY <1>6, <1>8 DEF FileOfPackages, FileText, Entry, Line

\* What a list file holds.
LEMMA FileFacts ==
  ASSUME NEW file \in FileText
  PROVE  /\ Len(file) \in Nat /\ DOMAIN file = 1 .. Len(file)
         /\ \A i \in 1 .. Len(file) :
              /\ file[i].pkg \in Ids
              /\ file[i].lines \in Seq([id : -1 .. MaxId, status : Status \ {"DELETED"}])
<1> DEFINE S == Seq([id : -1 .. MaxId, status : Status \ {"DELETED"}])
           Entry == [pkg : Ids, lines : S]
<1>1. file \in Seq(Entry)
  BY DEF FileText
<1> HIDE DEF S
<1>2. \A e \in Entry : e.pkg \in Ids /\ e.lines \in S
  OBVIOUS
<1> HIDE DEF Entry
<1>3. /\ Len(file) \in Nat /\ DOMAIN file = 1 .. Len(file)
      /\ \A i \in 1 .. Len(file) : file[i] \in Entry
  BY <1>1, LenProperties
<1>4. QED  BY <1>2, <1>3 DEF S

\* What is read of it: each download with the id of its package, none RUNNING or DELETED.
LEMMA LinesFacts ==
  ASSUME NEW file \in FileText
  PROVE  Lines(file) \in Seq([pkg : Ids, status : Status \ {"RUNNING", "DELETED"}])
<1> DEFINE Stored == [id : -1 .. MaxId, status : Status \ {"DELETED"}]
           Line == [pkg : Ids, status : Status \ {"RUNNING", "DELETED"}]
           line(i, j) == [pkg |-> file[i].pkg, status |-> Restored(file[i].lines[j].status)]
           parts == [i \in DOMAIN file |-> [j \in DOMAIN file[i].lines |-> line(i, j)]]
<1>1. /\ Len(file) \in Nat /\ DOMAIN file = 1 .. Len(file)
      /\ \A i \in 1 .. Len(file) : file[i].pkg \in Ids /\ file[i].lines \in Seq(Stored)
  BY FileFacts
<1>2. ASSUME NEW i \in 1 .. Len(file)
      PROVE  [j \in DOMAIN file[i].lines |-> line(i, j)] \in Seq(Line)
  <2> DEFINE s == file[i].lines
  <2>1. s \in Seq(Stored)
    BY <1>1
  <2> HIDE DEF s
  <2>2. Len(s) \in Nat /\ DOMAIN s = 1 .. Len(s)
    BY <2>1, LenProperties
  <2>3. \A j \in 1 .. Len(s) : line(i, j) \in Line
    BY <1>1 DEF Restored, Status
  <2> HIDE DEF line, Line
  <2>4. [j \in DOMAIN s |-> line(i, j)] \in [1 .. Len(s) -> Line]
    BY <2>2, <2>3
  <2>5. [j \in DOMAIN s |-> line(i, j)] \in Seq(Line)
    BY <2>2, <2>4, SeqDef
  <2>6. QED  BY <2>5 DEF s
<1>3. Lines(file) = FlattenSeq(parts)
  BY DEF Lines
<1> HIDE DEF line, Line
<1>4. parts \in [1 .. Len(file) -> Seq(Line)]
  BY <1>1, <1>2
<1>5. parts \in Seq(Seq(Line))
  BY <1>1, <1>4, SeqDef
<1> HIDE DEF parts
<1>6. Lines(file) \in Seq(Line)
  BY <1>3, <1>5, FlattenFacts
<1>7. QED  BY <1>6 DEF Line

\* A start gives each package the id it is stored with and each download its
\* number in the file.
LEMMA RestartStep ==
  ASSUME Restart, NEW file, FileOfPackages(file), FromFile(file)
  PROVE  PLInv'
<1> DEFINE lines == Lines(file)
           n == Len(file)
           m == Len(lines)
<1>1. PICK ps \in [DOMAIN file -> Packages], ds \in [DOMAIN lines -> Downloads] :
        LET Stored(p) == file[CHOOSE i \in DOMAIN file : ps[i] = p].pkg
            Line(d) == CHOOSE k \in DOMAIN lines : ds[k] = d
            Of(p) == Kept(ds, {d \in ToSet(ds) : lines[Line(d)].pkg = Stored(p)})
        IN  /\ IsInjective(ps) /\ IsInjective(ds) /\ Len(lines) - 1 <= MaxId
            /\ packages' = ps
            /\ cid' = [p \in Packages |-> IF p \in ToSet(ps) THEN Stored(p) ELSE -1]
            /\ content' = [p \in Packages |-> IF p \in ToSet(ps) THEN Of(p) ELSE <<>>]
            /\ id' = [d \in Downloads |-> IF d \in ToSet(ds) THEN Line(d) - 1 ELSE -1]
            /\ parent' = [d \in Downloads |->
                            IF d \in ToSet(ds) THEN lines[Line(d)].pkg ELSE -1]
            /\ status' = [d \in Downloads |->
                            IF d \in ToSet(ds) THEN lines[Line(d)].status ELSE "DELETED"]
  BY DEF FromFile
<1> DEFINE Stored(p) == file[CHOOSE i \in DOMAIN file : ps[i] = p].pkg
           Line(d) == CHOOSE k \in DOMAIN lines : ds[k] = d
           Here(p) == {d \in ToSet(ds) : lines[Line(d)].pkg = Stored(p)}
<1>2. /\ IsInjective(ps) /\ IsInjective(ds) /\ m - 1 <= MaxId
      /\ packages' = ps
      /\ cid' = [p \in Packages |-> IF p \in ToSet(ps) THEN Stored(p) ELSE -1]
      /\ content' = [p \in Packages |-> IF p \in ToSet(ps) THEN Kept(ds, Here(p)) ELSE <<>>]
      /\ id' = [d \in Downloads |-> IF d \in ToSet(ds) THEN Line(d) - 1 ELSE -1]
      /\ parent' = [d \in Downloads |-> IF d \in ToSet(ds) THEN lines[Line(d)].pkg ELSE -1]
      /\ status' = [d \in Downloads |->
                      IF d \in ToSet(ds) THEN lines[Line(d)].status ELSE "DELETED"]
  BY <1>1
<1>3. /\ n \in Nat /\ DOMAIN file = 1 .. n
      /\ \A i \in 1 .. n : file[i].pkg \in Ids
      /\ \A i, j \in 1 .. n : i # j => file[i].pkg # file[j].pkg
  BY FileFacts DEF FileOfPackages
<1>4. /\ m \in Nat /\ DOMAIN lines = 1 .. m
      /\ \A k \in 1 .. m : /\ lines[k].pkg \in Ids
                           /\ lines[k].status \in Status \ {"RUNNING", "DELETED"}
  <2> DEFINE S == [pkg : Ids, status : Status \ {"RUNNING", "DELETED"}]
  <2>1. lines \in Seq(S)
    BY LinesFacts DEF FileOfPackages
  <2>2. \A e \in S : e.pkg \in Ids /\ e.status \in Status \ {"RUNNING", "DELETED"}
    OBVIOUS
  <2> HIDE DEF lines, S
  <2>3. m \in Nat /\ DOMAIN lines = 1 .. m /\ \A k \in 1 .. m : lines[k] \in S
    BY <2>1, LenProperties
  <2>4. QED  BY <2>2, <2>3
<1> HIDE DEF lines, n, m
<1>5. ps \in Seq(Packages) /\ DOMAIN ps = 1 .. n /\ ds \in Seq(Downloads) /\ DOMAIN ds = 1 .. m
  BY <1>3, <1>4, SeqDef
<1>6. ToSet(ps) \subseteq Packages /\ ToSet(ds) \subseteq Downloads
  BY <1>5, ToSetFacts
<1>7. \A p \in ToSet(ps) : Stored(p) \in Ids
  BY <1>3, <1>5 DEF ToSet
<1>8. \A p, q \in ToSet(ps) : p # q => Stored(p) # Stored(q)
  <2> DEFINE At(p) == CHOOSE i \in DOMAIN file : ps[i] = p
  <2>1. \A p \in ToSet(ps) : At(p) \in 1 .. n /\ ps[At(p)] = p
    BY <1>3, <1>5 DEF ToSet
  <2>2. \A p : Stored(p) = file[At(p)].pkg
    OBVIOUS
  <2> HIDE DEF At, Stored
  <2>3. QED  BY <1>3, <2>1, <2>2
<1>9. \A d \in ToSet(ds) : Line(d) \in 1 .. m /\ ds[Line(d)] = d
  BY <1>4, <1>5 DEF ToSet
<1> HIDE DEF Stored, Line
<1>10. /\ doomed' = <<>> /\ running' = [d \in Downloads |-> FALSE]
       /\ threads' = [d \in Downloads |-> 0] /\ unassigned' = FALSE /\ pick' = NoPick
       /\ cmd' = [c \in Clients |-> NoCommand]
  BY DEF Restart
<1>11. ToSet(doomed') = {} /\ IsInjective(doomed') /\ doomed' \in Seq(Packages)
  BY <1>10 DEF ToSet, IsInjective
<1>12. All' = ToSet(ps)
  BY <1>2, <1>11 DEF All
<1>13. \A p \in Packages : content'[p] \in Seq(Downloads)
  <2>1. ASSUME NEW p \in Packages  PROVE content'[p] \in Seq(Downloads)
    <3>1. Kept(ds, Here(p)) \in Seq(Downloads \cap Here(p))
      BY <1>5, KeptFacts
    <3>2. ToSet(Kept(ds, Here(p))) \subseteq Downloads
      <4>1. ToSet(Kept(ds, Here(p))) = ToSet(ds) \cap Here(p)
        BY <1>5, KeptFacts
      <4>2. QED  BY <1>6, <4>1
    <3>3. Kept(ds, Here(p)) \in Seq(Downloads)
      BY <3>1, <3>2, ToSetFacts
    <3>4. CASE p \in ToSet(ps)
      BY <1>2, <3>3, <3>4
    <3>5. CASE p \notin ToSet(ps)
      BY <1>2, <3>5
    <3>6. QED  BY <3>4, <3>5
  <2>2. QED  BY <2>1
<1>14. \A p \in ToSet(ps) : /\ IsInjective(content'[p]) /\ cid'[p] = Stored(p)
                            /\ \A d : d \in In(p)' <=> d \in ToSet(ds) /\ lines[Line(d)].pkg = Stored(p)
  <2>1. ASSUME NEW p \in ToSet(ps)
        PROVE  /\ IsInjective(content'[p]) /\ cid'[p] = Stored(p)
               /\ \A d : d \in In(p)' <=> d \in ToSet(ds) /\ lines[Line(d)].pkg = Stored(p)
    <3>1. content'[p] = Kept(ds, Here(p)) /\ cid'[p] = Stored(p)
      BY <1>2, <1>6
    <3>2. /\ ToSet(Kept(ds, Here(p))) = ToSet(ds) \cap Here(p)
          /\ IsInjective(Kept(ds, Here(p)))
      BY <1>2, <1>5, KeptFacts
    <3>3. QED  BY <3>1, <3>2 DEF In
  <2>2. QED  BY <2>1
<1>15. \A d \in ToSet(ds) : id'[d] = Line(d) - 1 /\ parent'[d] = lines[Line(d)].pkg
  BY <1>2, <1>6
<1>16. ListTypes'
  <2>1. \A p \in Packages : cid'[p] \in -1 .. MaxId
    BY <1>2, <1>7, PackageListAssumption DEF Ids
  <2>2. content' \in [Packages -> Seq(Downloads)] /\ cid' \in [Packages -> -1 .. MaxId]
    BY <1>2, <1>13, <2>1
  <2>3. QED  BY <1>2, <1>5, <1>11, <2>2 DEF ListTypes
<1>17. DownloadTypes'
  <2>1. \A d \in Downloads : id'[d] \in -1 .. MaxId
    BY <1>2, <1>4, <1>9, PackageListAssumption
  <2>2. \A d \in Downloads : parent'[d] \in -1 .. MaxId /\ status'[d] \in Status \ {"RUNNING"}
    BY <1>2, <1>4, <1>9, PackageListAssumption DEF Ids, Status
  <2>3. /\ id' \in [Downloads -> -1 .. MaxId] /\ parent' \in [Downloads -> -1 .. MaxId]
        /\ status' \in [Downloads -> Status]
    BY <1>2, <2>1, <2>2
  <2>4. pick' \in [pkg : -1 .. MaxId, id : -1 .. MaxId]
    BY <1>10, PackageListAssumption DEF NoPick
  <2>5. running' \in [Downloads -> BOOLEAN] /\ threads' \in [Downloads -> 0 .. MaxThreads]
    BY <1>10, PackageListAssumption
  <2>6. QED  BY <1>10, <2>3, <2>4, <2>5 DEF DownloadTypes
<1>18. CommandTypes'
  <2>1. -1 \in -1 .. MaxId /\ <<>> \in Seq(-1 .. MaxId)
    BY PackageListAssumption
  <2>2. QED  BY <1>10, <2>1 DEF CommandTypes, NoCommand
<1>19. Layout'
  <2>1. \A p, q \in ToSet(ps) : p # q => In(p)' \cap In(q)' = {}
    BY <1>8, <1>14
  <2>2. QED  BY <1>2, <1>11, <1>12, <1>14, <2>1 DEF Layout
<1>20. Identified'
  <2>1. \A d \in Listed' : d \in ToSet(ds)
    BY <1>2, <1>14, MembershipAfter DEF Membership
  <2>2. \A d, e \in ToSet(ds) : d # e => id'[d] # id'[e]
    BY <1>4, <1>9, <1>15
  <2>3. \A p \in ToSet(packages)' : cid'[p] \in Ids
    BY <1>2, <1>7, <1>14
  <2>4. \A p, q \in ToSet(packages)' : p # q => cid'[p] # cid'[q]
    <3>1. \A p \in ToSet(packages)' : p \in ToSet(ps) /\ cid'[p] = Stored(p)
      BY <1>2, <1>14
    <3>2. QED  BY <1>8, <3>1
  <2>5. \A p \in All' : \A d \in In(p)' : d \in ToSet(ds) /\ parent'[d] = cid'[p]
    BY <1>12, <1>14, <1>15
  <2>6. QED  BY <2>1, <2>2, <2>3, <2>4, <2>5 DEF Identified
<1>21. RunningHasThread'
  <2>1. \A d \in Downloads : status'[d] # "RUNNING" /\ ~running'[d]
    BY <1>2, <1>4, <1>9, <1>10
  <2>2. QED  BY <2>1 DEF RunningHasThread
<1>22. ThreadsRun' /\ PickIsFree'
  BY <1>10 DEF ThreadsRun, PickIsFree
<1>23. QED  BY <1>16, <1>17, <1>18, <1>19, <1>20, <1>21, <1>22 DEF PLInv

--------------------------------------------------------------------------------
(* The invariant, and what follows from it.                                 *)

\* The daemon starts with what the list file gives it.
LEMMA InitHolds ==
  ASSUME Init
  PROVE  PLInv
<1>1. -1 \in -1 .. MaxId /\ <<>> \in Seq(-1 .. MaxId)
  BY PackageListAssumption
<1>2. ListTypes /\ CommandTypes
  BY <1>1 DEF Init, ListTypes, CommandTypes, NoCommand
<1>3. DownloadTypes
  <2>1. 0 \in 0 .. MaxThreads
    BY PackageListAssumption
  <2>2. id \in [Downloads -> -1 .. MaxId] /\ parent \in [Downloads -> -1 .. MaxId]
    BY <1>1 DEF Init
  <2>3. pick \in [pkg : -1 .. MaxId, id : -1 .. MaxId]
    BY <1>1 DEF Init, NoPick
  <2>4. status \in [Downloads -> Status] /\ threads \in [Downloads -> 0 .. MaxThreads]
    BY <2>1 DEF Init, Status
  <2>5. QED  BY <2>2, <2>3, <2>4 DEF Init, DownloadTypes
<1>4. ToSet(packages) = {} /\ ToSet(doomed) = {} /\ All = {} /\ Listed = {}
  BY DEF Init, ToSet, All, Listed
<1>5. Layout /\ Identified
  BY <1>4 DEF Init, Layout, Identified, IsInjective
<1>6. RunningHasThread /\ ThreadsRun /\ PickIsFree
  BY DEF Init, RunningHasThread, ThreadsRun, PickIsFree
<1>7. QED  BY <1>2, <1>3, <1>5, <1>6 DEF PLInv

\* No step breaks the invariant.
LEMMA NextKeeps ==
  ASSUME PLInv, [Next]_vars
  PROVE  PLInv'
<1>1. ASSUME NEW c \in Clients, ClientNext(c)  PROVE PLInv'
  BY <1>1, AddPackageStep, AddDownloadStep, DeletePackageStep, MovePackageStep, LookUpStep,
     ReadStatusStep, ApplyStep, MoveStep DEF ClientNext
<1>2. ASSUME NEW d \in Downloads, WorkerNext(d)  PROVE PLInv'
  BY <1>2, WorkerEndsStep, DecryptStep DEF WorkerNext
<1>3. ASSUME SchedulerNext  PROVE PLInv'
  BY <1>3, PickStep, DoDownloadStep, CorrectIdsStep DEF SchedulerNext
<1>4. ASSUME Restart  PROVE PLInv'
  <2>1. FromFile(Text) \/ FromFile(<<>>)
    BY <1>4 DEF Restart
  <2>2. FileOfPackages(<<>>)
    BY DEF FileOfPackages, FileText
  <2>3. QED  BY <1>4, <2>1, <2>2, TextFacts, RestartStep
<1>5. ASSUME UNCHANGED vars  PROVE PLInv'
  <2>1. CommandTypes'
    BY <1>5 DEF vars, PLInv, CommandTypes
  <2>2. QED  BY <1>5, <2>1, CommandStep DEF vars, lists, downloads
<1>6. QED  BY <1>1, <1>2, <1>3, <1>4, <1>5, PurgeStep DEF Next

\* The inductive invariant of the list of packages.
THEOREM PackageListInvariant == Spec => []PLInv
<1>1. Init => PLInv
  BY InitHolds
<1>2. PLInv /\ [Next]_vars => PLInv'
  BY NextKeeps
<1>3. QED  BY <1>1, <1>2, PTL DEF Spec

\* Ids identify packages and downloads, and a download knows its package, through
\* every command, purge, decrypter and restart; and the file that is saved
\* is always one the program can read.
THEOREM IdsIdentify == Spec => []WellIdentified
<1>1. PLInv => WellIdentified
  <2> SUFFICES ASSUME PLInv PROVE WellIdentified
    OBVIOUS
  <2>1. Text \in FileText
    BY TextFacts DEF FileOfPackages
  <2>2. TypeOK
    BY <2>1 DEF PLInv, ListTypes, DownloadTypes, CommandTypes, TypeOK
  <2>3. \A p \in All : \A d \in In(p) : parent[d] = cid[p]
    BY DEF PLInv, Identified
  <2>4. QED  BY <2>2, <2>3 DEF PLInv, Identified, WellIdentified, All, In
<1>2. QED  BY <1>1, PackageListInvariant, PTL

\* What counts against the limit as running has a thread that will end it.
THEOREM RunningEnds == Spec => []RunningHasThread
<1>1. PLInv => RunningHasThread
  BY DEF PLInv
<1>2. QED  BY <1>1, PackageListInvariant, PTL

\* No download is destroyed while a download_me thread works on it.
THEOREM ThreadsKeepObjects == Spec => []ThreadsHaveObjects
<1>1. PLInv => ThreadsHaveObjects
  BY DEF PLInv, ThreadsRun, ThreadsHaveObjects
<1>2. QED  BY <1>1, PackageListInvariant, PTL

--------------------------------------------------------------------------------
(* Where a move puts a download. A move exchanges two parts of the list, of  *)
(* which nothing between them is shown.                                      *)

\* A list around two of its places, before and after they are exchanged.
LEMMA SwapParts ==
  ASSUME NEW S, NEW s \in Seq(S), NEW i \in DOMAIN s, NEW j \in DOMAIN s, i < j
  PROVE  \E a, m, b \in Seq(S) :
           /\ s = a \o <<s[i]>> \o (m \o <<s[j]>> \o b)
           /\ SwapAt(s, i, j) = a \o <<s[j]>> \o (m \o <<s[i]>> \o b)
           /\ SwapAt(s, j, i) = SwapAt(s, i, j)
           /\ \A k \in 1 .. Len(m) : m[k] = s[i + k] /\ i + k \in i + 1 .. j - 1
<1> DEFINE n == Len(s)
           t == SwapAt(s, i, j)
           Rest(q) == SubSeq(q, i + 1, n)
           Before(q) == SubSeq(q, 1, i - 1)
           Middle(q) == SubSeq(Rest(q), 1, j - i - 1)
           After(q) == SubSeq(Rest(q), j - i + 1, n - i)
<1>1. /\ n \in Nat /\ DOMAIN s = 1 .. n /\ i \in 1 .. n /\ j \in 1 .. n
      /\ \A k \in 1 .. n : s[k] \in S
  BY LenProperties
<1>2. t \in Seq(S) /\ Len(t) = n /\ DOMAIN t = 1 .. n /\ t[i] = s[j] /\ t[j] = s[i]
      /\ \A k \in 1 .. n : k # i /\ k # j => t[k] = s[k]
  <2>1. /\ t \in [1 .. n -> S] /\ t[i] = s[j] /\ t[j] = s[i]
        /\ \A k \in 1 .. n : k # i /\ k # j => t[k] = s[k]
    BY <1>1 DEF SwapAt
  <2> HIDE DEF t
  <2>2. t \in Seq(S)
    BY <1>1, <2>1, SeqDef
  <2>3. Len(t) \in Nat /\ DOMAIN t = 1 .. Len(t) /\ DOMAIN t = 1 .. n
    BY <2>1, <2>2, LenProperties
  <2> QED BY <1>1, <2>1, <2>2, <2>3
<1>3. SwapAt(s, j, i) = t
  BY <1>1 DEF SwapAt
<1> HIDE DEF t
<1>4. ASSUME NEW q \in Seq(S), Len(q) = n
      PROVE  /\ Before(q) \in Seq(S) /\ Len(Before(q)) = i - 1
             /\ \A k \in 1 .. i - 1 : Before(q)[k] = q[k]
             /\ Middle(q) \in Seq(S) /\ Len(Middle(q)) = j - i - 1
             /\ \A k \in 1 .. j - i - 1 : Middle(q)[k] = q[i + k]
             /\ After(q) \in Seq(S) /\ Len(After(q)) = n - j
             /\ \A k \in 1 .. n - j : After(q)[k] = q[j + k]
             /\ q = Before(q) \o <<q[i]>> \o (Middle(q) \o <<q[j]>> \o After(q))
  <2> DEFINE r == Rest(q)
  <2>1. i \in DOMAIN q
    BY <1>1, <1>4, LenProperties
  <2>2. /\ Before(q) \in Seq(S) /\ r \in Seq(S) /\ Len(Before(q)) = i - 1 /\ Len(r) = n - i
        /\ \A k \in 1 .. i - 1 : Before(q)[k] = q[k]
        /\ \A k \in 1 .. n - i : r[k] = q[i + k]
        /\ q = Before(q) \o <<q[i]>> \o r
    <3>1. r = SubSeq(q, i + 1, Len(q)) /\ n - i = Len(q) - i
      BY <1>4
    <3>2. /\ SubSeq(q, 1, i - 1) \in Seq(S) /\ SubSeq(q, i + 1, Len(q)) \in Seq(S)
          /\ Len(SubSeq(q, 1, i - 1)) = i - 1 /\ Len(SubSeq(q, i + 1, Len(q))) = Len(q) - i
          /\ \A k \in 1 .. i - 1 : SubSeq(q, 1, i - 1)[k] = q[k]
          /\ \A k \in 1 .. Len(q) - i : SubSeq(q, i + 1, Len(q))[k] = q[i + k]
          /\ q = SubSeq(q, 1, i - 1) \o <<q[i]>> \o SubSeq(q, i + 1, Len(q))
      <4>1. PICK l : l = i
        OBVIOUS
      <4>2. l \in DOMAIN q
        BY <2>1, <4>1
      <4>3. /\ SubSeq(q, 1, l - 1) \in Seq(S) /\ SubSeq(q, l + 1, Len(q)) \in Seq(S)
            /\ Len(SubSeq(q, 1, l - 1)) = l - 1 /\ Len(SubSeq(q, l + 1, Len(q))) = Len(q) - l
            /\ \A k \in 1 .. l - 1 : SubSeq(q, 1, l - 1)[k] = q[k]
            /\ \A k \in 1 .. Len(q) - l : SubSeq(q, l + 1, Len(q))[k] = q[l + k]
            /\ q = SubSeq(q, 1, l - 1) \o <<q[l]>> \o SubSeq(q, l + 1, Len(q))
        BY <4>2, Parts, ZenonT(40)
      <4> QED BY <4>1, <4>3
    <3>3. PICK a, b : a = SubSeq(q, 1, i - 1) /\ b = SubSeq(q, i + 1, Len(q))
      OBVIOUS
    <3>4. Before(q) = a /\ r = b
      BY <3>1, <3>3
    <3> HIDE DEF r, n, Before
    <3> QED BY <3>1, <3>2, <3>3, <3>4
  <2> HIDE DEF r
  <2>3. PICK l : l = j - i
    OBVIOUS
  <2>4. l \in 1 .. n - i /\ l \in DOMAIN r /\ i + l = j /\ n - i - l = n - j
        /\ l - 1 = j - i - 1 /\ l + 1 = j - i + 1
    <3>1. \A u \in Nat : \A v, w \in 1 .. u : v < w =>
            /\ w - v \in 1 .. u - v /\ v + (w - v) = w /\ u - v - (w - v) = u - w
            /\ w - v + 1 \in Nat /\ w - v - 1 \in Nat
      OBVIOUS
    <3>2. DOMAIN r = 1 .. n - i
      BY <2>2, LenProperties
    <3> HIDE DEF n
    <3> QED BY <1>1, <2>3, <3>1, <3>2
  <2>5. /\ SubSeq(r, 1, l - 1) \in Seq(S) /\ SubSeq(r, l + 1, Len(r)) \in Seq(S)
        /\ Len(SubSeq(r, 1, l - 1)) = l - 1 /\ Len(SubSeq(r, l + 1, Len(r))) = Len(r) - l
        /\ \A k \in 1 .. l - 1 : SubSeq(r, 1, l - 1)[k] = r[k]
        /\ \A k \in 1 .. Len(r) - l : SubSeq(r, l + 1, Len(r))[k] = r[l + k]
        /\ r = SubSeq(r, 1, l - 1) \o <<r[l]>> \o SubSeq(r, l + 1, Len(r))
    BY <2>2, <2>4, Parts, ZenonT(40)
  <2>6. Middle(q) = SubSeq(r, 1, l - 1) /\ After(q) = SubSeq(r, l + 1, Len(r))
    BY <2>2, <2>4 DEF r
  <2> HIDE DEF Middle, After, Before
  <2>7. \A k \in 1 .. l - 1 : k \in 1 .. n - i
    BY <1>1, <2>4
  <2>8. \A k \in 1 .. n - j : l + k \in 1 .. n - i /\ i + (l + k) = j + k
    BY <1>1, <2>4, SMTT(30)
  <2>9. r[l] = q[j]
    BY <2>2, <2>4
  <2>10. /\ Middle(q) \in Seq(S) /\ Len(Middle(q)) = j - i - 1
         /\ \A k \in 1 .. j - i - 1 : Middle(q)[k] = q[i + k]
    BY <2>2, <2>4, <2>5, <2>6, <2>7
  <2>11. /\ After(q) \in Seq(S) /\ Len(After(q)) = n - j
         /\ \A k \in 1 .. n - j : After(q)[k] = q[j + k]
    <3>1. Len(After(q)) = n - j /\ Len(r) - l = n - j
      BY <2>2, <2>4, <2>5, <2>6
    <3>2. ASSUME NEW k \in 1 .. n - j PROVE After(q)[k] = q[j + k]
      <4>1. After(q)[k] = r[l + k]
        BY <2>5, <2>6, <3>1
      <4> QED BY <2>2, <2>8, <4>1
    <3> QED BY <2>5, <2>6, <3>1, <3>2
  <2>12. q = Before(q) \o <<q[i]>> \o (Middle(q) \o <<q[j]>> \o After(q))
    BY <2>2, <2>5, <2>6, <2>9
  <2> QED BY <2>2, <2>10, <2>11, <2>12
<1> HIDE DEF Before, Middle, After, Rest
<1>5. Before(t) = Before(s)
  <2>1. \A k \in 1 .. i - 1 : k \in 1 .. n /\ k # i /\ k # j
    BY <1>1
  <2>2. /\ Before(s) \in Seq(S) /\ Before(t) \in Seq(S) /\ Len(Before(t)) = Len(Before(s))
        /\ \A k \in 1 .. Len(Before(t)) : Before(t)[k] = Before(s)[k]
    BY <1>2, <1>4, <2>1, ZenonT(40)
  <2> QED BY <2>2, SeqEqual
<1>6. Middle(t) = Middle(s)
  <2>1. \A k \in 1 .. j - i - 1 : i + k \in 1 .. n /\ i + k # i /\ i + k # j
    BY <1>1
  <2>2. /\ Middle(s) \in Seq(S) /\ Middle(t) \in Seq(S) /\ Len(Middle(t)) = Len(Middle(s))
        /\ \A k \in 1 .. Len(Middle(t)) : Middle(t)[k] = Middle(s)[k]
    <3>1. /\ Middle(s) \in Seq(S) /\ Len(Middle(s)) = j - i - 1
          /\ \A k \in 1 .. j - i - 1 : Middle(s)[k] = s[i + k]
      BY <1>4
    <3>2. /\ Middle(t) \in Seq(S) /\ Len(Middle(t)) = j - i - 1
          /\ \A k \in 1 .. j - i - 1 : Middle(t)[k] = t[i + k]
      BY <1>2, <1>4
    <3>3. \A k \in 1 .. j - i - 1 : t[i + k] = s[i + k]
      BY <1>2, <2>1
    <3> QED BY <3>1, <3>2, <3>3
  <2> QED BY <2>2, SeqEqual
<1>7. After(t) = After(s)
  <2>1. \A k \in 1 .. n - j : j + k \in 1 .. n /\ j + k # i /\ j + k # j
    BY <1>1
  <2>2. /\ After(s) \in Seq(S) /\ After(t) \in Seq(S) /\ Len(After(t)) = Len(After(s))
        /\ \A k \in 1 .. Len(After(t)) : After(t)[k] = After(s)[k]
    <3>1. /\ After(s) \in Seq(S) /\ Len(After(s)) = n - j
          /\ \A k \in 1 .. n - j : After(s)[k] = s[j + k]
      BY <1>4
    <3>2. /\ After(t) \in Seq(S) /\ Len(After(t)) = n - j
          /\ \A k \in 1 .. n - j : After(t)[k] = t[j + k]
      BY <1>2, <1>4
    <3>3. \A k \in 1 .. n - j : t[j + k] = s[j + k]
      BY <1>2, <2>1
    <3> QED BY <3>1, <3>2, <3>3
  <2> QED BY <2>2, SeqEqual
<1>8. s = Before(s) \o <<s[i]>> \o (Middle(s) \o <<s[j]>> \o After(s))
  BY <1>4
<1>9. t = Before(s) \o <<s[j]>> \o (Middle(s) \o <<s[i]>> \o After(s))
  <2>1. t = Before(t) \o <<t[i]>> \o (Middle(t) \o <<t[j]>> \o After(t))
    BY <1>2, <1>4
  <2> QED BY <1>2, <1>5, <1>6, <1>7, <2>1
<1>10. \A k \in 1 .. Len(Middle(s)) : Middle(s)[k] = s[i + k] /\ i + k \in i + 1 .. j - 1
  <2>1. \A k \in 1 .. j - i - 1 : i + k \in i + 1 .. j - 1
    BY <1>1
  <2> QED BY <1>4, <2>1
<1>11. Before(s) \in Seq(S) /\ Middle(s) \in Seq(S) /\ After(s) \in Seq(S)
  BY <1>4
<1> QED BY <1>3, <1>8, <1>9, <1>10, <1>11 DEF t

\* What is shown, and what there is beside d, are had part by part.
LEMMA ShownParts ==
  ASSUME NEW a \in Seq(Downloads), NEW b \in Seq(Downloads)
  PROVE  /\ Visible(a) \in Seq(Downloads)
         /\ Visible(a \o b) = Visible(a) \o Visible(b)
         /\ \A d : /\ Without(a, d) \in Seq(Downloads)
                  /\ Without(a \o b, d) = Without(a, d) \o Without(b, d)
<1>1. ASSUME NEW V PROVE Kept(a, V) \in Seq(Downloads)
  <2>1. Kept(a, V) \in Seq(Downloads \cap V) /\ Downloads \cap V \subseteq Downloads
    BY KeptFacts
  <2> QED BY <2>1, SeqMonotonic
<1>2. \A V : Kept(a \o b, V) = Kept(a, V) \o Kept(b, V)
  BY KeptConcat
<1>3. Visible(a) \in Seq(Downloads) /\ Visible(a \o b) = Visible(a) \o Visible(b)
  BY <1>1, <1>2 DEF Visible
<1>4. ASSUME NEW d
      PROVE  /\ Without(a, d) \in Seq(Downloads)
             /\ Without(a \o b, d) = Without(a, d) \o Without(b, d)
  BY <1>1, <1>2 DEF Without
<1> QED BY <1>3, <1>4

\* How three parts are joined does not matter.
LEMMA ThreeParts ==
  \A q, r, t \in Seq(Downloads) : (q \o r) \o t = q \o (r \o t)
BY ConcatAssociative

\* A single download is shown unless it is DELETED.
LEMMA ShownOnes ==
  ASSUME NEW e \in Downloads
  PROVE  /\ <<e>> \in Seq(Downloads)
         /\ status[e] # "DELETED" => Visible(<<e>>) = <<e>>
         /\ status[e] = "DELETED" => Visible(<<e>>) = <<>>
         /\ Without(<<e>>, e) = <<>> /\ Without(<<>>, e) = <<>>
         /\ Without(Visible(<<e>>), e) = <<>>
<1>1. <<e>> \in Seq(Downloads) /\ <<>> \in Seq(Downloads)
  OBVIOUS
<1>2. Without(<<>>, e) = <<>>
  <2>1. ToSet(<<>>) = {}
    BY DEF ToSet
  <2> QED BY <1>1, <2>1, KeptNothing DEF Without
<1>3. Without(<<e>>, e) = <<>>
  BY KeptOne DEF Without
<1>4. /\ status[e] # "DELETED" => Visible(<<e>>) = <<e>>
      /\ status[e] = "DELETED" => Visible(<<e>>) = <<>>
  BY KeptOne DEF Visible
<1> QED BY <1>1, <1>2, <1>3, <1>4

\* A download is left out of both parts of a list.
LEMMA WithoutParts ==
  \A q, r \in Seq(Downloads) : \A d : Without(q \o r, d) = Without(q, d) \o Without(r, d)
BY ShownParts

\* Two parts of a list are a list, and nothing adds nothing.
LEMMA JoinedParts ==
  /\ \A q, r \in Seq(Downloads) : q \o r \in Seq(Downloads)
  /\ \A q \in Seq(Downloads) : q \o <<>> = q /\ <<>> \o q = q
BY ConcatProperties, ConcatEmptySeq

\* What is shown of a list is what is shown of its parts.
LEMMA VisibleParts ==
  \A q, r \in Seq(Downloads) : Visible(q \o r) = Visible(q) \o Visible(r)
BY ShownParts

\* Of what is deleted nothing is shown.
LEMMA NothingShown ==
  \A q \in Seq(Downloads) : (\A k \in DOMAIN q : status[q[k]] = "DELETED") => Visible(q) = <<>>
<1> SUFFICES ASSUME NEW q \in Seq(Downloads), \A k \in DOMAIN q : status[q[k]] = "DELETED"
             PROVE  Visible(q) = <<>>
  OBVIOUS
<1>1. ToSet(q) \cap {d \in Downloads : status[d] # "DELETED"} = {}
  BY DEF ToSet
<1> QED BY <1>1, KeptNothing DEF Visible

\* What there is beside a part that is exchanged with another.
LEMMA SwapLeaves ==
  \A A, B, X, Y \in Seq(Downloads) : \A e :
    Without(X, e) = <<>> \/ Without(Y, e) = <<>> =>
      Without(A \o X \o (Y \o B), e) = Without(A \o Y \o (X \o B), e)
<1> DEFINE L == Seq(Downloads)
           Join(q, r) == q \o r
           none == <<>>
<1>1. \A q, r \in L : \A e : /\ Join(q, r) \in L
                             /\ Without(q, e) \in L
                             /\ Without(Join(q, r), e) = Join(Without(q, e), Without(r, e))
  <2>1. \A q, r \in L : Join(q, r) \in L
    BY JoinedParts
  <2>2. \A q \in L : \A e : Without(q, e) \in L
    BY ShownParts
  <2>3. \A q, r \in L : \A e : Without(Join(q, r), e) = Join(Without(q, e), Without(r, e))
    BY WithoutParts
  <2> HIDE DEF L, Join
  <2> QED BY <2>1, <2>2, <2>3
<1>2. \A q, r, t \in L : Join(Join(q, r), t) = Join(q, Join(r, t))
  BY ThreeParts
<1>3. \A q \in L : Join(q, none) = q /\ Join(none, q) = q
  BY JoinedParts
<1>4. SUFFICES ASSUME NEW A \in L, NEW B \in L, NEW X \in L, NEW Y \in L, NEW e,
                      Without(X, e) = none \/ Without(Y, e) = none
               PROVE  Without(Join(Join(A, X), Join(Y, B)), e) = Without(Join(Join(A, Y), Join(X, B)), e)
  OBVIOUS
<1> HIDE DEF L, Join, none
<1>5. PICK WA, WB, WX, WY : /\ WA = Without(A, e) /\ WB = Without(B, e)
                            /\ WX = Without(X, e) /\ WY = Without(Y, e)
  OBVIOUS
<1>6. WA \in L /\ WB \in L /\ WX \in L /\ WY \in L
  BY <1>1, <1>5
<1>7. /\ Without(Join(Join(A, X), Join(Y, B)), e) = Join(Join(WA, WX), Join(WY, WB))
      /\ Without(Join(Join(A, Y), Join(X, B)), e) = Join(Join(WA, WY), Join(WX, WB))
  BY <1>1, <1>5
<1>8. Join(Join(WA, WX), WB) = Join(WA, Join(WX, WB)) /\ Join(Join(WA, WY), WB) = Join(WA, Join(WY, WB))
  BY <1>2, <1>6
<1>9. CASE WX = none
  BY <1>3, <1>6, <1>7, <1>8, <1>9
<1>10. CASE WY = none
  BY <1>3, <1>6, <1>7, <1>8, <1>10
<1> QED BY <1>4, <1>5, <1>9, <1>10

\* What there is beside a part that goes to an end.
LEMMA AsideLeaves ==
  \A A, B, X \in Seq(Downloads) : \A e :
    Without(X, e) = <<>> =>
      /\ Without(X \o (A \o B), e) = Without(A \o X \o B, e)
      /\ Without(A \o B \o X, e) = Without(A \o X \o B, e)
<1> DEFINE L == Seq(Downloads)
           Join(q, r) == q \o r
           none == <<>>
<1>1. \A q, r \in L : \A e : /\ Join(q, r) \in L
                             /\ Without(q, e) \in L
                             /\ Without(Join(q, r), e) = Join(Without(q, e), Without(r, e))
  <2>1. \A q, r \in L : Join(q, r) \in L
    BY JoinedParts
  <2>2. \A q \in L : \A e : Without(q, e) \in L
    BY ShownParts
  <2>3. \A q, r \in L : \A e : Without(Join(q, r), e) = Join(Without(q, e), Without(r, e))
    BY WithoutParts
  <2> HIDE DEF L, Join
  <2> QED BY <2>1, <2>2, <2>3
<1>2. \A q \in L : Join(q, none) = q /\ Join(none, q) = q
  BY JoinedParts
<1>3. SUFFICES ASSUME NEW A \in L, NEW B \in L, NEW X \in L, NEW e, Without(X, e) = none
               PROVE  /\ Without(Join(X, Join(A, B)), e) = Without(Join(Join(A, X), B), e)
                      /\ Without(Join(Join(A, B), X), e) = Without(Join(Join(A, X), B), e)
  OBVIOUS
<1> HIDE DEF L, Join, none
<1>4. PICK WA, WB : WA = Without(A, e) /\ WB = Without(B, e)
  OBVIOUS
<1>5. WA \in L /\ WB \in L /\ Join(WA, WB) \in L
  BY <1>1, <1>4
<1>6. /\ Without(Join(X, Join(A, B)), e) = Join(none, Join(WA, WB))
      /\ Without(Join(Join(A, B), X), e) = Join(Join(WA, WB), none)
      /\ Without(Join(Join(A, X), B), e) = Join(Join(WA, none), WB)
  BY <1>1, <1>3, <1>4
<1> QED BY <1>2, <1>5, <1>6

\* Where an element among others is.
LEMMA PartPlaces ==
  ASSUME NEW q \in Seq(Downloads), NEW r \in Seq(Downloads), NEW e \in Downloads,
         NEW w, w = q \o <<e>> \o r
  PROVE  /\ w \in Seq(Downloads) /\ Len(q) \in Nat /\ Len(r) \in Nat
         /\ Len(w) = Len(q) + 1 + Len(r) /\ DOMAIN w = 1 .. Len(q) + 1 + Len(r)
         /\ Len(q) + 1 \in DOMAIN w /\ w[Len(q) + 1] = e
<1>1. PICK one, n, m : one = <<e>> /\ n = Len(q) /\ m = Len(r)
  OBVIOUS
<1>2. one \in Seq(Downloads) /\ Len(one) = 1 /\ one[1] = e /\ n \in Nat /\ m \in Nat
  BY <1>1, LenProperties
<1>3. PICK u : u = q \o one
  OBVIOUS
<1>4. /\ u \in Seq(Downloads) /\ Len(u) = n + 1
      /\ \A k \in 1 .. n + 1 : u[k] = IF k <= n THEN q[k] ELSE one[k - n]
  BY <1>1, <1>2, <1>3, ConcatProperties
<1>5. u[n + 1] = e
  <2>1. PICK k : k = n + 1
    OBVIOUS
  <2>2. k \in 1 .. n + 1 /\ ~(k <= n) /\ k - n = 1
    BY <1>2, <2>1
  <2>3. u[k] = one[k - n]
    BY <1>4, <2>2
  <2> QED BY <1>2, <2>1, <2>2, <2>3
<1>6. w = u \o r
  BY <1>1, <1>3
<1>7. /\ w \in Seq(Downloads) /\ Len(w) = n + 1 + m
      /\ \A k \in 1 .. n + 1 + m : w[k] = IF k <= n + 1 THEN u[k] ELSE r[k - (n + 1)]
  <2>1. /\ u \o r \in Seq(Downloads) /\ Len(u \o r) = Len(u) + Len(r)
        /\ \A k \in 1 .. Len(u) + Len(r) : (u \o r)[k] = IF k <= Len(u) THEN u[k] ELSE r[k - Len(u)]
    BY <1>4, ConcatProperties
  <2> QED BY <1>1, <1>4, <1>6, <2>1
<1>8. n + 1 \in 1 .. n + 1 + m /\ n + 1 <= n + 1
  BY <1>2
<1>9. w[n + 1] = u[n + 1]
  BY <1>7, <1>8
<1>10. DOMAIN w = 1 .. n + 1 + m
  BY <1>7, LenProperties
<1> QED BY <1>1, <1>2, <1>5, <1>7, <1>8, <1>9, <1>10

\* Where two neighbours among others are.
LEMMA PairPlaces ==
  ASSUME NEW A \in Seq(Downloads), NEW B \in Seq(Downloads),
         NEW e \in Downloads, NEW f \in Downloads, NEW q, q = A \o <<e>> \o (<<f>> \o B)
  PROVE  /\ Len(A) + 1 \in DOMAIN q /\ Len(A) + 1 + 1 \in DOMAIN q
         /\ q[Len(A) + 1] = e /\ q[Len(A) + 1 + 1] = f
<1>1. PICK one, two, u, w : one = <<e>> /\ two = <<f>> /\ u = A \o one /\ w = two \o B
  OBVIOUS
<1>2. one \in Seq(Downloads) /\ Len(one) = 1 /\ two \in Seq(Downloads)
  BY <1>1
<1>3. u \in Seq(Downloads) /\ Len(u) = Len(A) + 1
  BY <1>1, <1>2, ConcatProperties
<1>4. w \in Seq(Downloads)
  BY <1>1, <1>2, JoinedParts
<1>5. q = A \o <<e>> \o w
  BY <1>1
<1>6. q = u \o <<f>> \o B
  <2>1. (u \o two) \o B = u \o (two \o B)
    BY <1>2, <1>3, ThreeParts
  <2> QED BY <1>1, <1>5, <2>1
<1>7. Len(A) + 1 \in DOMAIN q /\ q[Len(A) + 1] = e
  BY <1>4, <1>5, PartPlaces
<1>8. Len(u) + 1 \in DOMAIN q /\ q[Len(u) + 1] = f
  BY <1>3, <1>6, PartPlaces
<1> QED BY <1>3, <1>7, <1>8

\* An exchange over what is not shown.
LEMMA SwapIsExact ==
  ASSUME NEW s \in Seq(Downloads), NEW i \in DOMAIN s, NEW j \in DOMAIN s, i < j,
         \A k \in i + 1 .. j - 1 : status[s[k]] = "DELETED",
         NEW t, t = SwapAt(s, i, j) \/ t = SwapAt(s, j, i)
  PROVE  /\ Without(Visible(t), s[i]) = Without(Visible(s), s[i])
         /\ Without(Visible(t), s[j]) = Without(Visible(s), s[j])
         /\ status[s[i]] # "DELETED" /\ status[s[j]] # "DELETED" =>
              \E k \in Nat :
                /\ k \in DOMAIN Visible(s) /\ k + 1 \in DOMAIN Visible(s)
                /\ k \in DOMAIN Visible(t) /\ k + 1 \in DOMAIN Visible(t)
                /\ Visible(s)[k] = s[i] /\ Visible(s)[k + 1] = s[j]
                /\ Visible(t)[k] = s[j] /\ Visible(t)[k + 1] = s[i]
<1>1. PICK a, m, b \in Seq(Downloads) :
        /\ s = a \o <<s[i]>> \o (m \o <<s[j]>> \o b)
        /\ SwapAt(s, i, j) = a \o <<s[j]>> \o (m \o <<s[i]>> \o b)
        /\ SwapAt(s, j, i) = SwapAt(s, i, j)
        /\ \A k \in 1 .. Len(m) : m[k] = s[i + k] /\ i + k \in i + 1 .. j - 1
  <2>1. \A q \in Seq(Downloads) : \A u, v \in DOMAIN q : u < v =>
          \E a, m, b \in Seq(Downloads) :
            /\ q = a \o <<q[u]>> \o (m \o <<q[v]>> \o b)
            /\ SwapAt(q, u, v) = a \o <<q[v]>> \o (m \o <<q[u]>> \o b)
            /\ SwapAt(q, v, u) = SwapAt(q, u, v)
            /\ \A k \in 1 .. Len(m) : m[k] = q[u + k] /\ u + k \in u + 1 .. v - 1
    BY SwapParts, ZenonT(40)
  <2> QED BY <2>1
<1>2. PICK x, y : x = s[i] /\ y = s[j]
  OBVIOUS
<1>3. s = a \o <<x>> \o (m \o <<y>> \o b) /\ t = a \o <<y>> \o (m \o <<x>> \o b)
  BY <1>1, <1>2
<1>4. x \in Downloads /\ y \in Downloads
  BY <1>2, LenProperties
<1>5. Visible(m) = <<>>
  <2>1. ToSet(m) \cap {d \in Downloads : status[d] # "DELETED"} = {}
    <3>1. \A k \in 1 .. Len(m) : status[m[k]] = "DELETED"
      BY <1>1
    <3>2. DOMAIN m = 1 .. Len(m)
      BY LenProperties
    <3> QED BY <3>1, <3>2 DEF ToSet
  <2> QED BY <2>1, KeptNothing DEF Visible
<1>6. PICK A, B, X, Y : A = Visible(a) /\ B = Visible(b) /\ X = Visible(<<x>>) /\ Y = Visible(<<y>>)
  OBVIOUS
<1>7. /\ <<x>> \in Seq(Downloads) /\ <<y>> \in Seq(Downloads)
      /\ A \in Seq(Downloads) /\ B \in Seq(Downloads) /\ X \in Seq(Downloads) /\ Y \in Seq(Downloads)
  BY <1>4, <1>6, ShownOnes, ShownParts
<1>8. \A e, f \in Downloads : Visible(a \o <<e>> \o (m \o <<f>> \o b)) = A \o Visible(<<e>>) \o (Visible(<<f>>) \o B)
  <2> SUFFICES ASSUME NEW e \in Downloads, NEW f \in Downloads
               PROVE  Visible(a \o <<e>> \o (m \o <<f>> \o b)) = A \o Visible(<<e>>) \o (Visible(<<f>>) \o B)
    OBVIOUS
  <2>1. \A q, r \in Seq(Downloads) : q \o r \in Seq(Downloads) /\ Visible(q \o r) = Visible(q) \o Visible(r)
    BY ShownParts, ConcatProperties
  <2>2. PICK c, r : c = <<e>> /\ r = <<f>>
    OBVIOUS
  <2>3. c \in Seq(Downloads) /\ r \in Seq(Downloads)
    BY <2>2
  <2>4. a \o c \in Seq(Downloads) /\ Visible(a \o c) = A \o Visible(c)
    BY <1>6, <2>1, <2>3
  <2>5. m \o r \in Seq(Downloads) /\ Visible(m \o r) = <<>> \o Visible(r)
    BY <1>5, <2>1, <2>3
  <2>6. <<>> \o Visible(r) = Visible(r)
    BY <2>3, ShownParts, ConcatEmptySeq
  <2>7. PICK u, v : u = a \o c /\ v = m \o r
    OBVIOUS
  <2>8. v \o b \in Seq(Downloads) /\ Visible(v \o b) = Visible(r) \o B
    <3>1. v \in Seq(Downloads) /\ Visible(v) = Visible(r)
      BY <2>5, <2>6, <2>7
    <3>2. v \o b \in Seq(Downloads) /\ Visible(v \o b) = Visible(v) \o Visible(b)
      BY <2>1, <3>1
    <3> QED BY <1>6, <3>1, <3>2
  <2>9. PICK w : w = v \o b
    OBVIOUS
  <2>10. Visible(u \o w) = Visible(u) \o Visible(w)
    BY <2>1, <2>4, <2>7, <2>8, <2>9
  <2> QED BY <2>2, <2>4, <2>7, <2>8, <2>9, <2>10
<1>9. Visible(s) = A \o X \o (Y \o B) /\ Visible(t) = A \o Y \o (X \o B)
  BY <1>3, <1>4, <1>6, <1>8
<1>10. ASSUME NEW e, Without(X, e) = <<>> \/ Without(Y, e) = <<>>
       PROVE  Without(A \o X \o (Y \o B), e) = Without(A \o Y \o (X \o B), e)
  BY <1>7, <1>10, SwapLeaves
<1>11. Without(X, x) = <<>> /\ Without(Y, y) = <<>>
  BY <1>4, <1>6, ShownOnes
<1>12. ASSUME status[x] # "DELETED", status[y] # "DELETED"
       PROVE  \E k \in Nat :
                /\ k \in DOMAIN Visible(s) /\ k + 1 \in DOMAIN Visible(s)
                /\ k \in DOMAIN Visible(t) /\ k + 1 \in DOMAIN Visible(t)
                /\ Visible(s)[k] = x /\ Visible(s)[k + 1] = y
                /\ Visible(t)[k] = y /\ Visible(t)[k + 1] = x
  <2>1. X = <<x>> /\ Y = <<y>>
    BY <1>4, <1>6, <1>12, ShownOnes
  <2>2. ASSUME NEW e \in Downloads, NEW f \in Downloads, NEW q, q = A \o <<e>> \o (<<f>> \o B)
        PROVE  /\ Len(A) + 1 \in DOMAIN q /\ Len(A) + 1 + 1 \in DOMAIN q
               /\ q[Len(A) + 1] = e /\ q[Len(A) + 1 + 1] = f
    BY <1>7, <2>2, PairPlaces
  <2>3. Len(A) \in Nat
    BY <1>7, LenProperties
  <2>4. PICK k : k = Len(A) + 1
    OBVIOUS
  <2>5. k \in Nat
    BY <2>3, <2>4
  <2>6. /\ k \in DOMAIN Visible(s) /\ k + 1 \in DOMAIN Visible(s)
        /\ Visible(s)[k] = x /\ Visible(s)[k + 1] = y
    BY <1>4, <1>9, <2>1, <2>2, <2>4
  <2>7. /\ k \in DOMAIN Visible(t) /\ k + 1 \in DOMAIN Visible(t)
        /\ Visible(t)[k] = y /\ Visible(t)[k + 1] = x
    BY <1>4, <1>9, <2>1, <2>2, <2>4
  <2> QED BY <2>5, <2>6, <2>7
<1> QED BY <1>2, <1>9, <1>10, <1>11, <1>12

\* A download is where the list has it.
LEMMA PlaceIs ==
  \A q \in Seq(Downloads) : IsInjective(q) => \A k \in DOMAIN q : Place(q, q[k]) = k
<1> SUFFICES ASSUME NEW q \in Seq(Downloads), IsInjective(q), NEW k \in DOMAIN q
             PROVE  Place(q, q[k]) = k
  OBVIOUS
<1>1. \A l \in DOMAIN q : q[l] = q[k] => l = k
  BY DEF IsInjective
<1> QED BY <1>1 DEF Place

\* What is shown of a list around one of its downloads, and what of the lists that
\* have that download at an end.
LEMMA ShownAround ==
  ASSUME NEW s \in Seq(Downloads), NEW i \in DOMAIN s
  PROVE  \E A, B \in Seq(Downloads) :
           /\ Visible(s) = A \o Visible(<<s[i]>>) \o B
           /\ Visible(ToTop(s, i)) = Visible(<<s[i]>>) \o (A \o B)
           /\ Visible(ToBottom(s, i)) = A \o B \o Visible(<<s[i]>>)
           /\ (\A k \in 1 .. i - 1 : status[s[k]] = "DELETED") => A = <<>>
           /\ (\A k \in i + 1 .. Len(s) : status[s[k]] = "DELETED") => B = <<>>
<1>1. PICK a, b \in Seq(Downloads) :
        /\ Len(a) = i - 1 /\ Len(b) = Len(s) - i
        /\ \A k \in 1 .. i - 1 : a[k] = s[k]
        /\ \A k \in 1 .. Len(s) - i : b[k] = s[i + k]
        /\ s = a \o <<s[i]>> \o b /\ RemoveAt(s, i) = a \o b
  <2>1. LET a == SubSeq(s, 1, i - 1)
            b == SubSeq(s, i + 1, Len(s))
        IN  /\ a \in Seq(Downloads) /\ b \in Seq(Downloads)
            /\ s[i] \in Downloads /\ <<s[i]>> \in Seq(Downloads)
            /\ Len(a) = i - 1 /\ Len(b) = Len(s) - i
            /\ \A k \in 1 .. i - 1 : a[k] = s[k]
            /\ \A k \in 1 .. Len(s) - i : b[k] = s[i + k]
            /\ s = a \o <<s[i]>> \o b /\ RemoveAt(s, i) = a \o b
    BY Parts, ZenonT(40)
  <2> QED BY <2>1
<1>2. PICK e, c, n : e = s[i] /\ c = <<e>> /\ n = Len(s)
  OBVIOUS
<1>3. e \in Downloads /\ c \in Seq(Downloads) /\ n \in Nat /\ i \in 1 .. n
  BY <1>2, LenProperties
<1>4. ToTop(s, i) = c \o (a \o b) /\ ToBottom(s, i) = a \o b \o c
  <2>1. PICK r : r = a \o b
    OBVIOUS
  <2>2. r \in Seq(Downloads)
    BY <2>1, JoinedParts
  <2>3. Append(r, e) = r \o <<e>>
    BY <1>3, <2>2, AppendIsConcat
  <2>4. ToTop(s, i) = c \o r /\ ToBottom(s, i) = r \o c
    BY <1>1, <1>2, <2>1, <2>3 DEF ToTop, ToBottom
  <2> QED BY <2>1, <2>4
<1>5. \A q, r \in Seq(Downloads) : q \o r \in Seq(Downloads) /\ Visible(q \o r) = Visible(q) \o Visible(r)
  <2>1. \A q, r \in Seq(Downloads) : q \o r \in Seq(Downloads)
    BY JoinedParts
  <2> QED BY <2>1, VisibleParts
<1>6. PICK A, B, X : A = Visible(a) /\ B = Visible(b) /\ X = Visible(c)
  OBVIOUS
<1>7. A \in Seq(Downloads) /\ B \in Seq(Downloads)
  BY <1>1, <1>6, ShownParts
<1>8. Visible(s) = A \o X \o B /\ Visible(ToTop(s, i)) = X \o (A \o B) /\ Visible(ToBottom(s, i)) = A \o B \o X
  <2>1. PICK u, v : u = a \o c /\ v = a \o b
    OBVIOUS
  <2>2. /\ u \in Seq(Downloads) /\ Visible(u) = A \o X
        /\ v \in Seq(Downloads) /\ Visible(v) = A \o B
    BY <1>1, <1>3, <1>5, <1>6, <2>1
  <2>3. /\ Visible(u \o b) = Visible(u) \o B
        /\ Visible(c \o v) = X \o Visible(v) /\ Visible(v \o c) = Visible(v) \o X
    BY <1>1, <1>3, <1>5, <1>6, <2>2
  <2> QED BY <1>1, <1>2, <1>4, <2>1, <2>2, <2>3
<1>9. ASSUME \A k \in 1 .. i - 1 : status[s[k]] = "DELETED" PROVE A = <<>>
  <2>1. DOMAIN a = 1 .. i - 1
    BY <1>1, LenProperties
  <2>2. \A k \in DOMAIN a : status[a[k]] = "DELETED"
    BY <1>1, <1>9, <2>1
  <2> QED BY <1>1, <1>6, <2>2, NothingShown
<1>10. ASSUME \A k \in i + 1 .. n : status[s[k]] = "DELETED" PROVE B = <<>>
  <2>1. DOMAIN b = 1 .. n - i
    BY <1>1, <1>2, LenProperties
  <2>2. \A k \in 1 .. n - i : i + k \in i + 1 .. n
    BY <1>3
  <2>3. ASSUME NEW k \in DOMAIN b PROVE status[b[k]] = "DELETED"
    <3>1. PICK l : l = i + k
      OBVIOUS
    <3>2. l \in i + 1 .. n /\ b[k] = s[l]
      BY <1>1, <1>2, <2>1, <2>2, <3>1
    <3> QED BY <1>10, <3>2
  <2> QED BY <1>1, <1>6, <2>3, NothingShown
<1> QED BY <1>2, <1>6, <1>7, <1>8, <1>9, <1>10

\* What is shown of a list that names each download once names it once.
LEMMA ShownOnce ==
  ASSUME NEW s \in Seq(Downloads), IsInjective(s), NEW i \in DOMAIN s, NEW t \in MovesOf(s, i)
  PROVE  /\ Visible(s) \in Seq(Downloads) /\ IsInjective(Visible(s))
         /\ Visible(t) \in Seq(Downloads) /\ IsInjective(Visible(t))
         /\ ToSet(t) = ToSet(s) /\ t \in Seq(Downloads)
<1>1. t \in Seq(Downloads) /\ ToSet(t) = ToSet(s) /\ IsInjective(t)
  BY MoveFacts DEF Rearranges
<1>2. PICK V : V = {d \in Downloads : status[d] # "DELETED"}
  OBVIOUS
<1>3. IsInjective(Kept(s, V)) /\ IsInjective(Kept(t, V))
  BY <1>1, KeptFacts
<1>4. Visible(s) \in Seq(Downloads) /\ Visible(t) \in Seq(Downloads)
  BY <1>1, ShownParts
<1> QED BY <1>1, <1>2, <1>3, <1>4 DEF Visible

\* To an end.
LEMMA EndsAreExact ==
  ASSUME NEW s \in Seq(Downloads), IsInjective(s), NEW i \in DOMAIN s
  PROVE  /\ Without(Visible(ToTop(s, i)), s[i]) = Without(Visible(s), s[i])
         /\ Without(Visible(ToBottom(s, i)), s[i]) = Without(Visible(s), s[i])
         /\ status[s[i]] # "DELETED" =>
              /\ Place(Visible(ToTop(s, i)), s[i]) = 1
              /\ Place(Visible(ToBottom(s, i)), s[i]) = Len(Visible(s))
<1>1. PICK A, B \in Seq(Downloads) :
        /\ Visible(s) = A \o Visible(<<s[i]>>) \o B
        /\ Visible(ToTop(s, i)) = Visible(<<s[i]>>) \o (A \o B)
        /\ Visible(ToBottom(s, i)) = A \o B \o Visible(<<s[i]>>)
  BY ShownAround
<1>2. PICK e, X : e = s[i] /\ X = Visible(<<e>>)
  OBVIOUS
<1>3. e \in Downloads /\ X \in Seq(Downloads) /\ Without(X, e) = <<>>
  <2>1. e \in Downloads
    BY <1>2, LenProperties
  <2>2. <<e>> \in Seq(Downloads) /\ Without(Visible(<<e>>), e) = <<>>
    BY <2>1, ShownOnes
  <2>3. Visible(<<e>>) \in Seq(Downloads)
    BY <2>2, ShownParts
  <2> QED BY <1>2, <2>1, <2>2, <2>3
<1>4. /\ Without(X \o (A \o B), e) = Without(A \o X \o B, e)
      /\ Without(A \o B \o X, e) = Without(A \o X \o B, e)
  BY <1>3, AsideLeaves
<1>5. ASSUME status[e] # "DELETED"
      PROVE  /\ Place(Visible(ToTop(s, i)), e) = 1
             /\ Place(Visible(ToBottom(s, i)), e) = Len(Visible(s))
  <2>1. X = <<e>>
    BY <1>2, <1>3, <1>5, ShownOnes
  <2>2. PICK u, v, w : u = Visible(ToTop(s, i)) /\ v = Visible(ToBottom(s, i)) /\ w = Visible(s)
    OBVIOUS
  <2>3. /\ u \in Seq(Downloads) /\ IsInjective(u)
        /\ v \in Seq(Downloads) /\ IsInjective(v)
    BY <2>2, ShownOnce DEF MovesOf
  <2>4. PICK c, none : c = A \o B /\ none = <<>>
    OBVIOUS
  <2>5. c \in Seq(Downloads) /\ none \in Seq(Downloads) /\ Len(none) = 0
        /\ u = none \o <<e>> \o c /\ v = c \o <<e>> \o none /\ w = A \o <<e>> \o B
    <3>1. c \in Seq(Downloads) /\ Len(c) = Len(A) + Len(B)
      BY <2>4, ConcatProperties
    <3>2. <<e>> \in Seq(Downloads)
      BY <1>3
    <3>3. none \o <<e>> = <<e>>
      BY <2>4, <3>2, JoinedParts
    <3>4. PICK x : x = c \o <<e>>
      OBVIOUS
    <3>5. x \in Seq(Downloads)
      BY <3>1, <3>2, <3>4, JoinedParts
    <3>6. x \o none = x
      <4>1. ASSUME NEW q \in Seq(Downloads) PROVE q \o none = q
        BY <2>4, JoinedParts
      <4> QED BY <3>5, <4>1
    <3>7. u = <<e>> \o c /\ v = c \o <<e>> /\ w = A \o <<e>> \o B
      BY <1>1, <1>2, <2>1, <2>2, <2>4
    <3>8. none \in Seq(Downloads) /\ Len(none) = 0
      BY <2>4
    <3>9. u = none \o <<e>> \o c
      BY <3>3, <3>7
    <3>10. v = c \o <<e>> \o none
      BY <3>4, <3>6, <3>7
    <3> QED BY <3>1, <3>7, <3>8, <3>9, <3>10
  <2>6. Len(c) = Len(A) + Len(B) /\ Len(A) \in Nat /\ Len(B) \in Nat
    BY <2>4, ConcatProperties, LenProperties
  <2>7. Len(none) + 1 \in DOMAIN u /\ u[Len(none) + 1] = e
    BY <1>3, <2>5, PartPlaces
  <2>8. Len(c) + 1 \in DOMAIN v /\ v[Len(c) + 1] = e
    BY <1>3, <2>5, PartPlaces
  <2>9. Len(w) = Len(A) + 1 + Len(B)
    BY <1>3, <2>5, PartPlaces
  <2>10. Place(u, e) = Len(none) + 1 /\ Place(v, e) = Len(c) + 1
    BY <2>3, <2>7, <2>8, PlaceIs
  <2> QED BY <2>2, <2>5, <2>6, <2>9, <2>10
<1> QED BY <1>1, <1>2, <1>4, <1>5

\* A download that is shown is first if all above it are deleted, and last if all
\* below it are.
LEMMA ShownAtEnds ==
  ASSUME NEW s \in Seq(Downloads), IsInjective(s), NEW i \in DOMAIN s, status[s[i]] # "DELETED"
  PROVE  /\ (\A k \in 1 .. i - 1 : status[s[k]] = "DELETED") => Place(Visible(s), s[i]) = 1
         /\ (\A k \in i + 1 .. Len(s) : status[s[k]] = "DELETED") =>
              Place(Visible(s), s[i]) = Len(Visible(s))
<1>1. PICK A, B \in Seq(Downloads) :
        /\ Visible(s) = A \o Visible(<<s[i]>>) \o B
        /\ (\A k \in 1 .. i - 1 : status[s[k]] = "DELETED") => A = <<>>
        /\ (\A k \in i + 1 .. Len(s) : status[s[k]] = "DELETED") => B = <<>>
  BY ShownAround
<1>2. PICK e, w, n : e = s[i] /\ w = Visible(s) /\ n = Len(A) + 1
  OBVIOUS
<1>3. e \in Downloads /\ Visible(<<e>>) = <<e>>
  BY <1>2, LenProperties, ShownOnes
<1>4. w = A \o <<e>> \o B
  BY <1>1, <1>2, <1>3
<1>5. /\ w \in Seq(Downloads) /\ Len(A) \in Nat /\ Len(B) \in Nat /\ Len(w) = Len(A) + 1 + Len(B)
      /\ n \in DOMAIN w /\ w[n] = e
  BY <1>2, <1>3, <1>4, PartPlaces
<1>6. IsInjective(w)
  BY <1>2, ShownOnce DEF MovesOf
<1>7. Place(w, e) = n
  BY <1>5, <1>6, PlaceIs
<1>8. Len(<<>>) = 0
  OBVIOUS
<1>9. A = <<>> => n = 1
  BY <1>2, <1>8
<1>10. B = <<>> => n = Len(w)
  BY <1>2, <1>5, <1>8
<1> QED BY <1>1, <1>2, <1>7, <1>9, <1>10

\* One place up.
LEMMA UpIsExact ==
  ASSUME NEW s \in Seq(Downloads), IsInjective(s), NEW i \in DOMAIN s
  PROVE  /\ Without(Visible(MovedUp(s, i)), s[i]) = Without(Visible(s), s[i])
         /\ status[s[i]] # "DELETED" =>
              Place(Visible(MovedUp(s, i)), s[i]) =
                IF Place(Visible(s), s[i]) = 1 THEN 1 ELSE Place(Visible(s), s[i]) - 1
<1> DEFINE above == {j \in 1 .. i - 1 : status[s[j]] # "DELETED"}
           j == CHOOSE j \in above : \A k \in above : k <= j
<1>1. Len(s) \in Nat /\ DOMAIN s = 1 .. Len(s) /\ i \in 1 .. Len(s)
  BY LenProperties
<1>2. CASE above = {}
  <2>1. MovedUp(s, i) = s
    BY <1>2 DEF MovedUp
  <2>2. \A k \in 1 .. i - 1 : status[s[k]] = "DELETED"
    BY <1>2
  <2>3. status[s[i]] # "DELETED" => Place(Visible(s), s[i]) = 1
    BY <2>2, ShownAtEnds
  <2> QED BY <2>1, <2>3
<1>3. CASE above # {}
  <2>1. j \in above /\ \A k \in above : k <= j
    <3>1. \E m \in above : \A k \in above : k <= m
      <4>1. above \subseteq 1 .. Len(s)
        BY <1>1
      <4> HIDE DEF above
      <4> QED BY <1>1, <1>3, <4>1, Greatest
    <3> HIDE DEF above
    <3> QED BY <3>1
  <2>2. MovedUp(s, i) = SwapAt(s, i, j)
    BY <1>3 DEF MovedUp
  <2> HIDE DEF j
  <2>3. j \in DOMAIN s /\ j < i /\ status[s[j]] # "DELETED"
    BY <1>1, <2>1
  <2>4. \A k \in j + 1 .. i - 1 : status[s[k]] = "DELETED"
    BY <1>1, <2>1, <2>3
  <2>5. PICK t, u, v : t = MovedUp(s, i) /\ u = Visible(s) /\ v = Visible(t)
    OBVIOUS
  <2>6. /\ Without(v, s[i]) = Without(u, s[i])
        /\ status[s[i]] # "DELETED" =>
             \E k \in Nat : /\ k \in DOMAIN u /\ k + 1 \in DOMAIN u /\ k \in DOMAIN v
                            /\ u[k + 1] = s[i] /\ v[k] = s[i]
    BY <2>2, <2>3, <2>4, <2>5, SwapIsExact
  <2>7. /\ u \in Seq(Downloads) /\ IsInjective(u)
        /\ v \in Seq(Downloads) /\ IsInjective(v)
    BY <2>5, ShownOnce DEF MovesOf
  <2>8. ASSUME status[s[i]] # "DELETED"
        PROVE  Place(v, s[i]) = IF Place(u, s[i]) = 1 THEN 1 ELSE Place(u, s[i]) - 1
    <3>1. PICK k \in Nat : /\ k \in DOMAIN u /\ k + 1 \in DOMAIN u /\ k \in DOMAIN v
                           /\ u[k + 1] = s[i] /\ v[k] = s[i]
      BY <2>6, <2>8
    <3>2. Place(u, s[i]) = k + 1 /\ Place(v, s[i]) = k
      BY <2>7, <3>1, PlaceIs
    <3>3. k # 0
      BY <2>7, <3>1, LenProperties
    <3>4. k + 1 # 1 /\ k + 1 - 1 = k
      BY <3>1, <3>3
    <3> QED BY <3>2, <3>4
  <2> QED BY <2>5, <2>6, <2>8
<1> QED BY <1>2, <1>3

\* One place down.
LEMMA DownIsExact ==
  ASSUME NEW s \in Seq(Downloads), IsInjective(s), NEW i \in DOMAIN s
  PROVE  /\ Without(Visible(MovedDown(s, i)), s[i]) = Without(Visible(s), s[i])
         /\ status[s[i]] # "DELETED" =>
              Place(Visible(MovedDown(s, i)), s[i]) =
                IF Place(Visible(s), s[i]) = Len(Visible(s)) THEN Len(Visible(s))
                ELSE Place(Visible(s), s[i]) + 1
<1> DEFINE below == {j \in i + 1 .. Len(s) : status[s[j]] # "DELETED"}
           j == CHOOSE j \in below : \A k \in below : j <= k
<1>1. Len(s) \in Nat /\ DOMAIN s = 1 .. Len(s) /\ i \in 1 .. Len(s)
  BY LenProperties
<1>2. CASE below = {}
  <2>1. MovedDown(s, i) = s
    BY <1>2 DEF MovedDown
  <2>2. \A k \in i + 1 .. Len(s) : status[s[k]] = "DELETED"
    BY <1>2
  <2>3. status[s[i]] # "DELETED" => Place(Visible(s), s[i]) = Len(Visible(s))
    BY <2>2, ShownAtEnds
  <2> QED BY <2>1, <2>3
<1>3. CASE below # {}
  <2>1. j \in below /\ \A k \in below : j <= k
    <3>1. \E m \in below : \A k \in below : m <= k
      <4>1. below \subseteq Nat
        BY <1>1
      <4> HIDE DEF below
      <4> QED BY <1>3, <4>1, LeastNatural
    <3> HIDE DEF below
    <3> QED BY <3>1
  <2>2. MovedDown(s, i) = SwapAt(s, i, j)
    BY <1>3 DEF MovedDown
  <2> HIDE DEF j
  <2>3. j \in DOMAIN s /\ i < j /\ status[s[j]] # "DELETED"
    BY <1>1, <2>1
  <2>4. \A k \in i + 1 .. j - 1 : status[s[k]] = "DELETED"
    BY <1>1, <2>1, <2>3
  <2>5. PICK t, u, v : t = MovedDown(s, i) /\ u = Visible(s) /\ v = Visible(t)
    OBVIOUS
  <2>6. /\ Without(v, s[i]) = Without(u, s[i])
        /\ status[s[i]] # "DELETED" =>
             \E k \in Nat : /\ k \in DOMAIN u /\ k + 1 \in DOMAIN u /\ k + 1 \in DOMAIN v
                            /\ u[k] = s[i] /\ v[k + 1] = s[i]
    BY <2>2, <2>3, <2>4, <2>5, SwapIsExact
  <2>7. /\ u \in Seq(Downloads) /\ IsInjective(u)
        /\ v \in Seq(Downloads) /\ IsInjective(v)
    BY <2>5, ShownOnce DEF MovesOf
  <2>8. ASSUME status[s[i]] # "DELETED"
        PROVE  Place(v, s[i]) = IF Place(u, s[i]) = Len(u) THEN Len(u) ELSE Place(u, s[i]) + 1
    <3>1. PICK k \in Nat : /\ k \in DOMAIN u /\ k + 1 \in DOMAIN u /\ k + 1 \in DOMAIN v
                           /\ u[k] = s[i] /\ v[k + 1] = s[i]
      BY <2>6, <2>8
    <3>2. Place(u, s[i]) = k /\ Place(v, s[i]) = k + 1
      BY <2>7, <3>1, PlaceIs
    <3>3. k + 1 \in 1 .. Len(u) /\ Len(u) \in Nat
      BY <2>7, <3>1, LenProperties
    <3>4. k # Len(u)
      BY <3>1, <3>3
    <3> QED BY <3>2, <3>4
  <2> QED BY <2>5, <2>6, <2>8
<1> QED BY <1>2, <1>3

\* A download is moved by one place shown, or to the end that was asked for; the
\* others keep their order, and none is lost.
THEOREM MovesArePrecise == Spec => []MovesAreExact
<1>1. PLInv => MovesAreExact
  <2> SUFFICES ASSUME PLInv, NEW p \in ToSet(packages), NEW i \in DOMAIN content[p]
               PROVE  LET s == content[p]
                          d == s[i]
                          shown == Visible(s)
                          before == Place(shown, d)
                          n == Len(shown)
                          After(t) == Place(Visible(t), d)
                      IN  /\ \A t \in MovesOf(s, i) :
                               ToSet(t) = ToSet(s) /\ Without(Visible(t), d) = Without(shown, d)
                          /\ status[d] # "DELETED" =>
                               /\ After(MovedUp(s, i)) = IF before = 1 THEN 1 ELSE before - 1
                               /\ After(MovedDown(s, i)) = IF before = n THEN n ELSE before + 1
                               /\ After(ToTop(s, i)) = 1 /\ After(ToBottom(s, i)) = n
    BY DEF MovesAreExact
  <2>1. PICK s : s = content[p]
    OBVIOUS
  <2>2. s \in Seq(Downloads) /\ IsInjective(s)
    <3>1. p \in Packages
      BY ToSetFacts DEF PLInv, ListTypes, ToSet
    <3> QED BY <2>1, <3>1 DEF PLInv, ListTypes, Layout, All
  <2>3. \A t \in MovesOf(s, i) : ToSet(t) = ToSet(s)
    BY <2>1, <2>2, ShownOnce
  <2>4. /\ Without(Visible(MovedUp(s, i)), s[i]) = Without(Visible(s), s[i])
        /\ status[s[i]] # "DELETED" =>
             Place(Visible(MovedUp(s, i)), s[i]) =
               IF Place(Visible(s), s[i]) = 1 THEN 1 ELSE Place(Visible(s), s[i]) - 1
    BY <2>1, <2>2, UpIsExact
  <2>5. /\ Without(Visible(MovedDown(s, i)), s[i]) = Without(Visible(s), s[i])
        /\ status[s[i]] # "DELETED" =>
             Place(Visible(MovedDown(s, i)), s[i]) =
               IF Place(Visible(s), s[i]) = Len(Visible(s)) THEN Len(Visible(s))
               ELSE Place(Visible(s), s[i]) + 1
    BY <2>1, <2>2, DownIsExact
  <2>6. /\ Without(Visible(ToTop(s, i)), s[i]) = Without(Visible(s), s[i])
        /\ Without(Visible(ToBottom(s, i)), s[i]) = Without(Visible(s), s[i])
        /\ status[s[i]] # "DELETED" =>
             /\ Place(Visible(ToTop(s, i)), s[i]) = 1
             /\ Place(Visible(ToBottom(s, i)), s[i]) = Len(Visible(s))
    BY <2>1, <2>2, EndsAreExact
  <2> QED BY <2>1, <2>3, <2>4, <2>5, <2>6 DEF MovesOf
<1> QED BY <1>1, PackageListInvariant, PTL
================================================================================
