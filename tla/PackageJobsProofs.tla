--------------------------- MODULE PackageJobsProofs ---------------------------
(***************************************************************************)
(* For every list, configuration and number of threads:                    *)
(*                                                                         *)
(* One link at a time is checked.  presetter_running is set by whoever     *)
(* creates a checker, under mx, and cleared by the checker itself, the     *)
(* last that it does for its link.  It may be set without one, but never   *)
(* the other way round.                                                    *)
(*                                                                         *)
(* No archive is removed that was not unpacked.  This needs the types, and *)
(* of an extraction that nothing has overtaken that it is at the archive   *)
(* that it has noted and, as long as all went well, has left none packed   *)
(* behind it (Passed, Progress).                                           *)
(***************************************************************************)
EXTENDS PackageJobs, DataFacts

Busy(k) == check[k].at \in {"created", "probes", "asks"}

\* What is needed of the types: places can be assigned to.
CheckersOK ==
  /\ DOMAIN check = Checkers
  /\ \A k \in Checkers : check[k] = [at |-> check[k].at, dl |-> check[k].dl]

OneBusy ==
  /\ \A k \in Checkers : Busy(k) => presetter
  /\ \A k, l \in Checkers : Busy(k) /\ Busy(l) => k = l

PrecheckInv == CheckersOK /\ OneBusy

--------------------------------------------------------------------------------
\* preset_file_status, also when a checker has just ended: it leaves one at
\* work if there is one, and creates one only if the flag is not set.
LEMMA PresetLemma ==
  ASSUME PrecheckInv, NEW others,
         \/ others = check
         \/ \E k \in Checkers : others = [check EXCEPT ![k] = Resting],
         Preset(others)
  PROVE  PrecheckInv'
  <1> USE DEF PrecheckInv, CheckersOK, OneBusy, Busy, Resting
  <1>1. /\ DOMAIN others = Checkers
        /\ \A k \in Checkers : others[k] = [at |-> others[k].at, dl |-> others[k].dl]
        /\ \A k \in Checkers :
             others[k].at \in {"created", "probes", "asks"} => others[k] = check[k]
    OBVIOUS
  <1>2. CASE check' = others /\ UNCHANGED presetter
    BY <1>1, <1>2
  <1>3. CASE /\ ~presetter /\ presetter' = TRUE
             /\ \E k \in Checkers : \E d :
                  check' = [others EXCEPT ![k] = [at |-> "created", dl |-> d]]
    <2>1. PICK k \in Checkers : \E d :
            check' = [others EXCEPT ![k] = [at |-> "created", dl |-> d]]
      BY <1>3
    <2>2. \A l \in Checkers : Busy(l)' => l = k
      BY <1>1, <1>3, <2>1
    <2> QED
      BY <1>1, <1>3, <2>1, <2>2
  <1> QED
    BY <1>2, <1>3 DEF Preset

\* The steps of a checker. While it is at work no other one is.
LEMMA CheckerPreserves ==
  ASSUME PrecheckInv, NEW k \in Checkers, CheckerNext(k)
  PROVE  PrecheckInv'
  <1>1. CASE BeginCheck(k)
    BY <1>1 DEF BeginCheck, PrecheckInv, CheckersOK, OneBusy, Busy
  <1>2. CASE EndProbe(k)
    BY <1>2 DEF EndProbe, PrecheckInv, CheckersOK, OneBusy, Busy
  <1>3. CASE EndAsk(k)
    BY <1>3 DEF EndAsk, PrecheckInv, CheckersOK, OneBusy, Busy
  <1>4. CASE StartDecrypter(k)
    BY <1>4 DEF StartDecrypter, PrecheckInv, CheckersOK, OneBusy, Busy
  <1>5. CASE CheckNext(k)
    BY <1>5, PresetLemma DEF CheckNext
  <1> QED
    BY <1>1, <1>2, <1>3, <1>4, <1>5 DEF CheckerNext

\* All other steps but those that call preset_file_status.
LEMMA OthersPreserve ==
  ASSUME PrecheckInv,
         \/ \E w \in Workers : WorkerNext(w)
         \/ \E e \in Extractors : ExtractorNext(e)
         \/ SetStatus \/ Purge \/ AddDownload \/ UNCHANGED vars
  PROVE  PrecheckInv'
  <1>1. UNCHANGED <<check, presetter>>
    BY DEF WorkerNext, Start, EndTransfer, CheckPackage, EndWork, ExtractorNext,
           BeginExtraction, EndTool, SetStatus, Purge, AddDownload, vars
  <1> QED
    BY <1>1 DEF PrecheckInv, CheckersOK, OneBusy, Busy

--------------------------------------------------------------------------------
\* The invariant of the prechecks lets a download have one at most.
LEMMA AtMostOne == PrecheckInv => OnePrecheck
  <1> SUFFICES ASSUME PrecheckInv PROVE OnePrecheck
    OBVIOUS
  <1> DEFINE B == {k \in Checkers : check[k].at \in {"created", "probes", "asks"}}
  <1>1. B = {} \/ \E k \in Checkers : B = {k}
    BY DEF PrecheckInv, OneBusy, Busy
  <1> HIDE DEF B
  <1>2. CASE B = {}
    <2>1. Cardinality({}) = 0
      BY FS_EmptySet
    <2> QED
      BY <1>2, <2>1 DEF OnePrecheck, B
  <1>3. CASE \E k \in Checkers : B = {k}
    <2>1. PICK k \in Checkers : B = {k}
      BY <1>3
    <2>2. Cardinality({k}) = 1
      BY FS_Singleton
    <2> QED
      BY <2>1, <2>2 DEF OnePrecheck, B
  <1> QED
    BY <1>1, <1>2, <1>3

\* At most one link is checked at a time (OnePrecheck), although checkers are
\* created by handlers, ends of downloads and each other.
THEOREM PrechecksAreExclusive == Spec => []OnePrecheck
  <1>1. Init => PrecheckInv
    BY DEF Init, PrecheckInv, CheckersOK, OneBusy, Busy, Resting
  <1>2. PrecheckInv /\ [Next]_vars => PrecheckInv'
    <2> SUFFICES ASSUME PrecheckInv, [Next]_vars PROVE PrecheckInv'
      OBVIOUS
    <2>1. CASE SchedulerPresets
      BY <2>1, PresetLemma DEF SchedulerPresets
    <2>2. ASSUME NEW k \in Checkers, CheckerNext(k) PROVE PrecheckInv'
      BY <2>2, CheckerPreserves
    <2> QED
      BY <2>1, <2>2, OthersPreserve DEF Next
  <1> QED
    BY <1>1, <1>2, AtMostOne, PTL DEF Spec

--------------------------------------------------------------------------------
(* The types, and what an extractor has unpacked so far.                    *)

Record == [at : {"idle", "created", "tool"}, i : Nat, dl : Downloads \cup {NoDownload},
           try : 0 .. Passwords + 1, ok : BOOLEAN]

\* Threads that are not resting are at work on a listed download.
ThreadTypes ==
  /\ DOMAIN work = Workers
  /\ \A w \in Workers :
       work[w] = Resting \/ work[w] \in [at : {"fetches", "checks", "ends"}, dl : ToSet(list)]
  /\ DOMAIN check = Checkers
  /\ \A k \in Checkers :
       check[k] = Resting
         \/ check[k] \in [at : {"created", "probes", "asks", "again"}, dl : ToSet(list)]

ListTypes == list \in Seq(Downloads) /\ IsInjective(list)
FlagTypes ==
  /\ status \in [Downloads -> Status] /\ running \in [Downloads -> BOOLEAN]
  /\ presetter \in BOOLEAN /\ due \in BOOLEAN
ExtractTypes ==
  /\ file \in [Downloads -> {"none", "packed", "unpacked"}]
  /\ extract \in [Extractors -> Record]
  /\ \A e \in Extractors : extract[e].at = "tool" => extract[e].dl \in Downloads
  /\ lost \subseteq Downloads /\ disturbed \subseteq Extractors

\* An extraction that nothing has overtaken is at the archive that it has noted,
\* and if all went well none that it has passed is still packed.
Passed(e) ==
  /\ extract[e].i \in DOMAIN list /\ list[extract[e].i] = extract[e].dl
  /\ extract[e].ok =>
       \A j \in 1 .. extract[e].i - 1 : list[j] \notin Volumes => file[list[j]] # "packed"

Progress ==
  /\ lost = {}
  /\ \A e \in Extractors \ disturbed : extract[e].at = "tool" => Passed(e)

JobsInv == ListTypes /\ FlagTypes /\ ThreadTypes /\ ExtractTypes /\ Progress

\* What is in the list.
LEMMA ListFacts ==
  ASSUME ListTypes
  PROVE  /\ Len(list) \in Nat /\ DOMAIN list = 1 .. Len(list)
         /\ \A i \in 1 .. Len(list) : list[i] \in Downloads /\ list[i] \in ToSet(list)
         /\ ToSet(list) \subseteq Downloads
  <1>1. list \in Seq(Downloads)
    BY DEF ListTypes
  <1>2. QED  BY <1>1, LenProperties, ToSetFacts DEF ToSet

\* The archive found by NextArchive, and what there is before it.
LEMMA NextArchiveFacts ==
  ASSUME ListTypes, NEW i \in Nat \ {0}
  PROVE  LET j == NextArchive(i)
         IN  \/ j = 0 /\ \A k \in i .. Len(list) : list[k] \in Volumes
             \/ /\ j \in i .. Len(list) /\ list[j] \notin Volumes
                /\ \A k \in i .. j - 1 : list[k] \in Volumes
  <1> DEFINE rest == {j \in i .. Len(list) : list[j] \notin Volumes}
             j == CHOOSE j \in rest : \A k \in rest : j <= k
  <1>1. Len(list) \in Nat
    BY ListFacts
  <1>2. CASE rest = {}
    <2>1. NextArchive(i) = 0
      BY <1>2 DEF NextArchive
    <2>2. QED  BY <1>2, <2>1
  <1>3. CASE rest # {}
    <2>1. rest \subseteq Nat
      BY <1>1
    <2>2. \E m \in rest : \A k \in rest : m <= k
      <3> HIDE DEF rest
      <3>1. QED  BY <1>3, <2>1, LeastNatural
    <2>3. j \in rest /\ \A k \in rest : j <= k
      <3> HIDE DEF rest
      <3>1. QED  BY <2>2
    <2>4. NextArchive(i) = j
      BY <1>3 DEF NextArchive
    <2> HIDE DEF j
    <2>5. \A k \in i .. j - 1 : list[k] \in Volumes
      BY <1>1, <2>3
    <2>6. QED  BY <2>3, <2>4, <2>5
  <1>4. QED  BY <1>2, <1>3

\* An extractor goes on: archives are removed only when it has passed them all.
LEMMA ProceedLemma ==
  ASSUME JobsInv, NEW e \in Extractors, NEW i \in Nat \ {0}, NEW ok \in BOOLEAN,
         NEW files \in [Downloads -> {"none", "packed", "unpacked"}],
         \A d \in Downloads : files[d] = "packed" => file[d] = "packed",
         UNCHANGED list, disturbed \subseteq disturbed', disturbed' \subseteq disturbed \cup {e},
         e \notin disturbed' /\ ok =>
           \A j \in 1 .. i - 1 : j \in DOMAIN list /\ list[j] \notin Volumes =>
                                   files[list[j]] # "packed",
         Proceed(e, i, ok, files)
  PROVE  ExtractTypes' /\ Progress'
  <1> DEFINE j == NextArchive(i)
  <1>1. /\ Len(list) \in Nat /\ DOMAIN list = 1 .. Len(list)
        /\ \A k \in 1 .. Len(list) : list[k] \in Downloads /\ list[k] \in ToSet(list)
        /\ ToSet(list) \subseteq Downloads
    BY ListFacts DEF JobsInv
  <1>2. \/ j = 0 /\ \A k \in i .. Len(list) : list[k] \in Volumes
        \/ /\ j \in i .. Len(list) /\ list[j] \notin Volumes
           /\ \A k \in i .. j - 1 : list[k] \in Volumes
    BY NextArchiveFacts DEF JobsInv
  <1> HIDE DEF j
  <1>3. CASE j = 0
    <2>1. extract' = [extract EXCEPT ![e] = NoExtraction] /\ RemoveArchives(e, ok, files)
      BY <1>3 DEF Proceed, j
    <2>2. /\ extract' \in [Extractors -> Record]
          /\ extract'[e].at = "idle"
          /\ \A f \in Extractors \ {e} : extract'[f] = extract[f]
      <3>1. NoExtraction \in Record
        BY PackageJobsAssumption DEF NoExtraction, Record
      <3>2. QED  BY <2>1, <3>1 DEF JobsInv, ExtractTypes, NoExtraction
    <2>3. file' \in [Downloads -> {"none", "packed", "unpacked"}]
          /\ \A d \in Downloads : file'[d] = "packed" => file[d] = "packed"
      BY <2>1 DEF RemoveArchives
    <2>4. lost' = {}
      <3>1. CASE ok /\ DeleteArchives
        <4>1. lost' = lost \cup
                {d \in ToSet(list) \ Volumes : files[d] = "packed" /\ e \notin disturbed'}
          BY <2>1, <3>1 DEF RemoveArchives
        <4>2. ASSUME NEW d \in ToSet(list) \ Volumes, files[d] = "packed", e \notin disturbed'
              PROVE  FALSE
          <5>1. PICK k \in 1 .. Len(list) : list[k] = d
            BY <1>1, <4>2 DEF ToSet
          <5>2. k \in 1 .. i - 1
            BY <1>1, <1>2, <1>3, <4>2, <5>1
          <5>3. QED  BY <1>1, <3>1, <4>2, <5>1, <5>2
        <4>3. QED  BY <4>1, <4>2 DEF JobsInv, Progress
      <3>2. CASE ~(ok /\ DeleteArchives)
        BY <2>1, <3>2 DEF RemoveArchives, JobsInv, Progress
      <3>3. QED  BY <3>1, <3>2
    <2>5. ExtractTypes'
      BY <2>2, <2>3, <2>4 DEF JobsInv, ExtractTypes
    <2>6. \A f \in Extractors \ disturbed' : extract'[f].at = "tool" => Passed(f)'
      BY <1>1, <2>2, <2>3 DEF JobsInv, Progress, Passed
    <2>7. QED  BY <2>4, <2>5, <2>6 DEF Progress
  <1>4. CASE j # 0
    <2>1. /\ extract' = [extract EXCEPT ![e] =
                [at |-> "tool", i |-> j, dl |-> list[j], try |-> 1, ok |-> ok]]
          /\ file' = files /\ lost' = lost
      BY <1>4 DEF Proceed, j
    <2>2. j \in i .. Len(list) /\ j \in 1 .. Len(list) /\ list[j] \in Downloads
      BY <1>1, <1>2, <1>4
    <2>3. /\ extract' \in [Extractors -> Record]
          /\ extract'[e] = [at |-> "tool", i |-> j, dl |-> list[j], try |-> 1, ok |-> ok]
          /\ \A f \in Extractors \ {e} : extract'[f] = extract[f]
      <3>1. [at |-> "tool", i |-> j, dl |-> list[j], try |-> 1, ok |-> ok] \in Record
        BY <2>2, PackageJobsAssumption DEF Record
      <3>2. QED  BY <2>1, <3>1 DEF JobsInv, ExtractTypes
    <2>4. ExtractTypes'
      BY <2>1, <2>2, <2>3 DEF JobsInv, ExtractTypes
    <2>5. ASSUME e \notin disturbed'  PROVE Passed(e)'
      <3>1. extract'[e].i = j /\ extract'[e].dl = list[j] /\ extract'[e].ok = ok
        BY <2>3
      <3>2. ASSUME ok, NEW k \in 1 .. j - 1, list[k] \notin Volumes
            PROVE  files[list[k]] # "packed"
        <4>1. k \in DOMAIN list /\ k \in 1 .. i - 1
          BY <1>1, <1>2, <1>4, <2>2, <3>2
        <4>2. QED  BY <2>5, <3>2, <4>1
      <3>3. QED  BY <1>1, <2>1, <2>2, <3>1, <3>2 DEF Passed
    <2>6. \A f \in Extractors \ (disturbed' \cup {e}) : extract'[f].at = "tool" => Passed(f)'
      BY <1>1, <2>1, <2>3 DEF JobsInv, Progress, Passed
    <2>7. QED  BY <2>1, <2>4, <2>5, <2>6 DEF JobsInv, Progress
  <1>5. QED  BY <1>3, <1>4

\* A step of an extractor thread keeps the invariant.
LEMMA ExtractorKeeps ==
  ASSUME JobsInv, NEW e \in Extractors, ExtractorNext(e)
  PROVE  JobsInv'
  <1>1. UNCHANGED <<list, status, running, work, presetter, check, due>>
    BY DEF ExtractorNext, BeginExtraction, EndTool, downloadVars
  <1>2. ListTypes' /\ FlagTypes' /\ ThreadTypes'
    BY <1>1 DEF JobsInv, ListTypes, FlagTypes, ThreadTypes
  <1>3. ASSUME BeginExtraction(e)  PROVE ExtractTypes' /\ Progress'
    <2>1. /\ Proceed(e, 1, TRUE, file) /\ disturbed' = disturbed
          /\ file \in [Downloads -> {"none", "packed", "unpacked"}]
      BY <1>3 DEF BeginExtraction, JobsInv, ExtractTypes
    <2>2. 1 \in Nat \ {0} /\ TRUE \in BOOLEAN /\ \A j \in 1 .. 1 - 1 : FALSE
      OBVIOUS
    <2>3. \A d \in Downloads : file[d] = "packed" => file[d] = "packed"
      OBVIOUS
    <2>4. disturbed \subseteq disturbed' /\ disturbed' \subseteq disturbed \cup {e}
      BY <2>1
    <2>5. UNCHANGED list
      BY <1>1
    <2>6. ASSUME NEW ok \in BOOLEAN, Proceed(e, 1, ok, file)
          PROVE  ExtractTypes' /\ Progress'
      BY <2>1, <2>2, <2>4, <2>5, <2>6, ProceedLemma
    <2>7. QED  BY <2>1, <2>2, <2>6
  <1>4. ASSUME EndTool(e)  PROVE ExtractTypes' /\ Progress'
    <2> DEFINE x == extract[e]
               d == x.dl
               filesAfter(outer) == IF outer = "SUCCESS" THEN [file EXCEPT ![d] = "unpacked"]
                                    ELSE file
    <2>1. PICK outer, inner :
            LET result == DeepResult(outer, inner)
                files == IF outer = "SUCCESS" THEN [file EXCEPT ![d] = "unpacked"]
                         ELSE file
            IN  /\ disturbed' = IF outer # "SUCCESS" /\ result = "SUCCESS"
                                THEN disturbed \cup {e} ELSE disturbed
                /\ \/ /\ result = "PASSWORD" /\ MorePasswords(e)
                      /\ extract' = [extract EXCEPT ![e].try = @ + 1]
                      /\ file' = files
                      /\ UNCHANGED lost
                   \/ /\ ~(result = "PASSWORD" /\ MorePasswords(e))
                      /\ Proceed(e, x.i + 1, AllSuccess(x.ok, result), files)
      BY <1>4 DEF EndTool
    <2> DEFINE result == DeepResult(outer, inner)
               files == IF outer = "SUCCESS" THEN [file EXCEPT ![d] = "unpacked"] ELSE file
               ok == AllSuccess(x.ok, result)
    <2>2. /\ x \in Record /\ x.at = "tool" /\ d \in Downloads
          /\ file \in [Downloads -> {"none", "packed", "unpacked"}]
          /\ extract \in [Extractors -> Record]
      BY <1>4 DEF EndTool, JobsInv, ExtractTypes
    <2>3. /\ files \in [Downloads -> {"none", "packed", "unpacked"}]
          /\ \A c \in Downloads : files[c] = "packed" => file[c] = "packed"
          /\ outer = "SUCCESS" => files[d] = "unpacked"
      BY <2>2
    <2>4. /\ disturbed \subseteq disturbed' /\ disturbed' \subseteq disturbed \cup {e}
          /\ e \notin disturbed' /\ result = "SUCCESS" => outer = "SUCCESS"
      BY <2>1
    <2>5. CASE /\ MorePasswords(e)
               /\ extract' = [extract EXCEPT ![e].try = @ + 1]
               /\ file' = files /\ lost' = lost
      <3>1. x.try + 1 \in 0 .. Passwords + 1
        BY <2>2, <2>5, PackageJobsAssumption DEF MorePasswords, Record
      <3>2. /\ extract' \in [Extractors -> Record]
            /\ \A f \in Extractors : /\ extract'[f].at = extract[f].at
                                     /\ extract'[f].i = extract[f].i
                                     /\ extract'[f].dl = extract[f].dl
                                     /\ extract'[f].ok = extract[f].ok
        BY <2>2, <2>5, <3>1 DEF Record
      <3>3. ExtractTypes'
        BY <2>3, <2>4, <2>5, <3>2 DEF JobsInv, ExtractTypes
      <3>4. Progress'
        <4>1. \A f \in Extractors \ disturbed' : extract'[f].at = "tool" => Passed(f)
          BY <2>4, <3>2 DEF JobsInv, Progress
        <4>2. ASSUME NEW f \in Extractors \ disturbed', extract'[f].at = "tool"
              PROVE  Passed(f)'
          <5>1. \A j \in 1 .. extract[f].i - 1 : j \in DOMAIN list => list[j] \in Downloads
            BY ListFacts DEF JobsInv
          <5>2. \A j \in 1 .. extract[f].i - 1 : j \in DOMAIN list
            BY <2>2, <4>1, <4>2, ListFacts DEF JobsInv, Passed, Record
          <5>3. QED  BY <1>1, <2>3, <2>5, <3>2, <4>1, <4>2, <5>1, <5>2 DEF Passed
        <4>3. QED  BY <2>5, <4>2 DEF JobsInv, Progress
      <3>5. QED  BY <3>3, <3>4
    <2>6. CASE Proceed(e, x.i + 1, ok, files)
      <3>1. ok \in BOOLEAN /\ (ok => x.ok /\ result = "SUCCESS")
        <4>1. ok = TRUE \/ ok = FALSE
          BY <2>2 DEF AllSuccess, Record
        <4>2. ok => x.ok /\ result = "SUCCESS"
          BY DEF AllSuccess
        <4>3. QED  BY <4>1, <4>2
      <3> DEFINE i == x.i + 1
      <3>2. i \in Nat \ {0} /\ Proceed(e, i, ok, files) /\ list' = list
        BY <1>1, <2>2, <2>6 DEF Record
      <3> HIDE DEF ok
      <3>3. ASSUME e \notin disturbed', ok, NEW j \in 1 .. i - 1,
                   j \in DOMAIN list, list[j] \notin Volumes
            PROVE  files[list[j]] # "packed"
        <4>1. Passed(e) /\ x.ok /\ result = "SUCCESS"
          BY <2>2, <2>4, <3>1, <3>3 DEF JobsInv, Progress
        <4>2. list[j] \in Downloads
          BY <3>3, ListFacts DEF JobsInv
        <4>3. CASE j = x.i
          BY <2>3, <2>4, <3>3, <4>1, <4>3 DEF Passed
        <4>4. CASE j # x.i
          <5>1. j \in 1 .. x.i - 1
            BY <2>2, <3>3, <4>4 DEF Record
          <5>2. file[list[j]] # "packed"
            BY <3>3, <4>1, <5>1 DEF Passed
          <5>3. QED  BY <2>3, <4>2, <5>2
        <4>5. QED  BY <4>3, <4>4
      <3> HIDE DEF files, i
      <3>4. QED  BY <2>3, <2>4, <3>1, <3>2, <3>3, ProceedLemma
    <2>7. QED  BY <2>1, <2>5, <2>6
  <1>5. QED  BY <1>2, <1>3, <1>4 DEF ExtractorNext, JobsInv

--------------------------------------------------------------------------------
(* Steps that concern no extraction, or disturb them all.                   *)

\* An extraction that nothing touches goes on as it was.
LEMMA ProgressKept ==
  ASSUME JobsInv, UNCHANGED <<list, extract, lost>>, disturbed \subseteq disturbed',
         \/ file' = file
         \/ Extracting \subseteq disturbed'
  PROVE  Progress'
  <1>1. \A e \in Extractors : extract[e].at = "tool" => e \in Extracting
    BY DEF Extracting, NoExtraction
  <1>2. QED  BY <1>1 DEF JobsInv, Progress, Passed

\* Of one that is disturbed nothing is claimed.
LEMMA ProgressDisturbed ==
  ASSUME JobsInv, UNCHANGED <<extract, lost>>, Extracting \subseteq disturbed'
  PROVE  Progress'
  <1>1. \A e \in Extractors : extract[e].at = "tool" => e \in Extracting
    BY DEF Extracting, NoExtraction
  <1>2. QED  BY <1>1 DEF JobsInv, Progress

\* A worker or checker works on a listed download.
LEMMA ThreadFacts ==
  ASSUME JobsInv
  PROVE  /\ \A w \in Workers : work[w].at # "idle" => work[w].dl \in ToSet(list)
         /\ \A k \in Checkers : check[k].at # "idle" => check[k].dl \in ToSet(list)
         /\ ToSet(list) \subseteq Downloads
  BY ListFacts DEF JobsInv, ThreadTypes, Resting

\* A step of a download thread keeps the invariant.
LEMMA WorkerKeeps ==
  ASSUME JobsInv, NEW w \in Workers, WorkerNext(w)
  PROVE  JobsInv'
  <1>1. ToSet(list) \subseteq Downloads /\ list' = list /\ ListTypes' /\ presetter' = presetter
        /\ check' = check
    BY ListFacts DEF JobsInv, ListTypes, WorkerNext, Start, EndTransfer, CheckPackage, EndWork
  <1>2. CASE Start(w)
    <2>1. PICK d \in ToSet(list) :
            /\ running' = [running EXCEPT ![d] = TRUE]
            /\ status' = [status EXCEPT ![d] = "RUNNING"]
            /\ work' = [work EXCEPT ![w] = [at |-> "fetches", dl |-> d]]
      BY <1>2 DEF Start
    <2>2. FlagTypes' /\ ThreadTypes'
      BY <1>1, <1>2, <2>1 DEF Start, JobsInv, FlagTypes, ThreadTypes, Status
    <2>3. ExtractTypes' /\ Progress'
      BY <1>1, <1>2, ProgressKept DEF Start, extractVars, JobsInv, ExtractTypes
    <2>4. QED  BY <1>1, <2>2, <2>3 DEF JobsInv
  <1>3. CASE EndTransfer(w)
    <2> DEFINE d == work[w].dl
    <2>1. work[w].at = "fetches" /\ d \in ToSet(list) /\ d \in Downloads
      BY <1>1, <1>3, ThreadFacts DEF EndTransfer
    <2>2. ThreadTypes'
      BY <1>1, <1>3, <2>1 DEF EndTransfer, JobsInv, ThreadTypes, Resting
    <2>3. /\ disturbed \subseteq disturbed' /\ disturbed' \subseteq Extractors
          /\ file' = file \/ Extracting \subseteq disturbed'
          /\ file' \in [Downloads -> {"none", "packed", "unpacked"}]
          /\ due' \in BOOLEAN
      BY <1>3 DEF EndTransfer, JobsInv, ExtractTypes, Extracting, FlagTypes
    <2>4. status' \in [Downloads -> Status]
      <3>1. \E s \in Status : status' = [status EXCEPT ![d] = s]
        BY <1>3, <2>1 DEF EndTransfer, JobsInv, FlagTypes, Status
      <3>2. QED  BY <3>1 DEF JobsInv, FlagTypes
    <2>5. FlagTypes' /\ ExtractTypes'
      BY <1>1, <1>3, <2>3, <2>4 DEF EndTransfer, JobsInv, FlagTypes, ExtractTypes
    <2>6. Progress'
      BY <1>1, <1>3, <2>3, ProgressKept DEF EndTransfer
    <2>7. QED  BY <1>1, <2>2, <2>5, <2>6 DEF JobsInv
  <1>4. CASE CheckPackage(w)
    <2>1. work[w].at = "checks" /\ ThreadTypes'
      BY <1>1, <1>4, ThreadFacts DEF CheckPackage, JobsInv, ThreadTypes, Resting
    <2>2. FlagTypes' /\ file' = file /\ lost' = lost
      BY <1>1, <1>4 DEF CheckPackage, downloadVars, JobsInv, FlagTypes
    <2>3. CASE UNCHANGED <<extract, disturbed>>
      <3>1. ExtractTypes' /\ Progress'
        BY <1>1, <2>2, <2>3, ProgressKept DEF JobsInv, ExtractTypes
      <3>2. QED  BY <1>1, <2>1, <2>2, <3>1 DEF JobsInv
    <2>4. CASE \E e \in Extractors \ Extracting :
                 /\ extract' = [extract EXCEPT ![e].at = "created"]
                 /\ disturbed' = disturbed \ {e}
      <3>1. PICK e \in Extractors \ Extracting :
                 /\ extract' = [extract EXCEPT ![e].at = "created"]
                 /\ disturbed' = disturbed \ {e}
        BY <2>4
      <3>2. /\ extract' \in [Extractors -> Record] /\ extract'[e].at = "created"
            /\ \A f \in Extractors \ {e} : extract'[f] = extract[f]
        BY <3>1 DEF JobsInv, ExtractTypes, Record
      <3>3. ExtractTypes'
        BY <2>2, <3>1, <3>2 DEF JobsInv, ExtractTypes
      <3>4. Progress'
        BY <1>1, <2>2, <3>1, <3>2 DEF JobsInv, Progress, Passed
      <3>5. QED  BY <1>1, <2>1, <2>2, <3>3, <3>4 DEF JobsInv
    <2>5. QED  BY <1>4, <2>3, <2>4 DEF CheckPackage
  <1>5. CASE EndWork(w)
    <2>1. work[w].dl \in Downloads
      BY <1>5, ThreadFacts DEF EndWork
    <2>2. FlagTypes' /\ ThreadTypes'
      BY <1>1, <1>5, <2>1 DEF EndWork, JobsInv, FlagTypes, ThreadTypes
    <2>3. ExtractTypes' /\ Progress'
      BY <1>1, <1>5, ProgressKept DEF EndWork, extractVars, JobsInv, ExtractTypes
    <2>4. QED  BY <1>1, <2>2, <2>3 DEF JobsInv
  <1>6. QED  BY <1>2, <1>3, <1>4, <1>5 DEF WorkerNext

\* A precheck that is set up, by a thread that ends or beside them all, keeps it.
LEMMA PresetKeeps ==
  ASSUME JobsInv, NEW others,
         \/ others = check
         \/ \E k \in Checkers : others = [check EXCEPT ![k] = Resting],
         Preset(others), UNCHANGED <<list, downloadVars, file, work, extractVars, due>>
  PROVE  JobsInv'
  <1>1. /\ DOMAIN others = Checkers
        /\ \A k \in Checkers :
             others[k] = Resting
               \/ others[k] \in [at : {"created", "probes", "asks", "again"}, dl : ToSet(list)]
    BY DEF JobsInv, ThreadTypes
  <1>2. \/ check' = others
        \/ \E k \in Checkers : \E d \in ToSet(list) :
             check' = [others EXCEPT ![k] = [at |-> "created", dl |-> d]]
    <2> DEFINE wanted == {i \in DOMAIN list : ToCheck(list[i])}
               first == CHOOSE i \in wanted : \A j \in wanted : i <= j
    <2>1. CASE presetter \/ wanted = {}
      BY <2>1 DEF Preset
    <2>2. CASE ~presetter /\ wanted # {}
      <3>1. wanted \subseteq Nat /\ wanted \subseteq DOMAIN list
        BY ListFacts DEF JobsInv
      <3>2. first \in wanted
        <4>1. \E i \in wanted : \A j \in wanted : i <= j
          <5> HIDE DEF wanted
          <5>1. QED  BY <2>2, <3>1, LeastNatural
        <4> HIDE DEF wanted
        <4>2. QED  BY <4>1
      <3>3. list[first] \in ToSet(list)
        BY <3>1, <3>2 DEF ToSet
      <3>4. \E k \in Checkers : check' = [others EXCEPT ![k] = [at |-> "created", dl |-> list[first]]]
        BY <2>2 DEF Preset
      <3> HIDE DEF first
      <3>5. QED  BY <3>3, <3>4
    <2>3. QED  BY <2>1, <2>2
  <1>3. ThreadTypes'
    BY <1>1, <1>2 DEF JobsInv, ThreadTypes
  <1>4. presetter' \in BOOLEAN
    BY DEF Preset, JobsInv, FlagTypes
  <1>5. ListTypes' /\ FlagTypes' /\ ExtractTypes'
    BY <1>4 DEF downloadVars, extractVars, JobsInv, ListTypes, FlagTypes, ExtractTypes
  <1>6. Progress'
    BY ProgressKept DEF extractVars
  <1>7. QED  BY <1>3, <1>5, <1>6 DEF JobsInv

\* So does each step of a precheck thread.
LEMMA CheckerKeeps ==
  ASSUME JobsInv, NEW k \in Checkers, CheckerNext(k)
  PROVE  JobsInv'
  <1>1. CASE CheckNext(k)
    BY <1>1, PresetKeeps DEF CheckNext
  <1>2. ASSUME BeginCheck(k) \/ EndProbe(k) \/ EndAsk(k) \/ StartDecrypter(k)
        PROVE  JobsInv'
    <2> DEFINE d == check[k].dl
    <2>1. d \in ToSet(list) /\ d \in Downloads
      BY <1>2, ThreadFacts DEF BeginCheck, EndProbe, EndAsk, StartDecrypter
    <2>2. list' = list /\ file' = file /\ UNCHANGED extractVars
      BY <1>2 DEF BeginCheck, EndProbe, EndAsk, StartDecrypter, extractVars, downloadVars
    <2>3. ListTypes' /\ ExtractTypes' /\ Progress'
      BY <2>2, ProgressKept DEF JobsInv, ListTypes, ExtractTypes, extractVars
    <2>4. \E s \in Status : status' = [status EXCEPT ![d] = s]
      <3>1. \A s \in {status[d], "INACTIVE", StatusAfter(d, "INACTIVE")} : s \in Status
        BY <2>1 DEF JobsInv, FlagTypes, Status, StatusAfter
      <3>2. CASE UNCHANGED status
        <4>1. status' = [status EXCEPT ![d] = status[d]]
          BY <2>1, <3>2 DEF JobsInv, FlagTypes
        <4>2. QED  BY <3>1, <4>1
      <3>3. QED  BY <1>2, <3>1, <3>2 DEF BeginCheck, EndProbe, EndAsk, StartDecrypter
    <2>5. FlagTypes'
      <3>1. running' = [running EXCEPT ![d] = TRUE] \/ running' = [running EXCEPT ![d] = FALSE]
        BY <1>2 DEF BeginCheck, EndProbe, EndAsk, StartDecrypter
      <3>2. presetter' \in BOOLEAN /\ due' = due
        BY <1>2 DEF BeginCheck, EndProbe, EndAsk, StartDecrypter, JobsInv, FlagTypes
      <3>3. QED  BY <2>4, <3>1, <3>2 DEF JobsInv, FlagTypes
    <2>6. ThreadTypes'
      <3>1. \E a \in {"probes", "asks", "again"} : check' = [check EXCEPT ![k].at = a]
        BY <1>2 DEF BeginCheck, EndProbe, EndAsk, StartDecrypter
      <3>2. check[k] \in [at : {"created", "probes", "asks", "again"}, dl : ToSet(list)]
        BY <1>2 DEF BeginCheck, EndProbe, EndAsk, StartDecrypter, JobsInv, ThreadTypes, Resting
      <3>3. \/ work' = work
            \/ \E w \in Workers : work' = [work EXCEPT ![w] = [at |-> "fetches", dl |-> d]]
        BY <1>2 DEF BeginCheck, EndProbe, EndAsk, StartDecrypter
      <3>4. /\ DOMAIN work' = Workers
            /\ \A w \in Workers :
                 \/ work'[w] = Resting
                 \/ work'[w] \in [at : {"fetches", "checks", "ends"}, dl : ToSet(list)]
        BY <2>1, <3>3 DEF JobsInv, ThreadTypes
      <3>5. /\ DOMAIN check' = Checkers
            /\ \A l \in Checkers :
                 \/ check'[l] = Resting
                 \/ check'[l] \in [at : {"created", "probes", "asks", "again"}, dl : ToSet(list)]
        BY <3>1, <3>2 DEF JobsInv, ThreadTypes
      <3>6. QED  BY <2>2, <3>4, <3>5 DEF ThreadTypes
    <2>7. QED  BY <2>3, <2>5, <2>6 DEF JobsInv
  <1>3. QED  BY <1>1, <1>2 DEF CheckerNext

\* The client and the ticker: when the list changes, extractions are overtaken.
LEMMA ListChanges ==
  ASSUME JobsInv, AddDownload \/ SetStatus \/ Purge
  PROVE  JobsInv'
  <1>1. ToSet(list) \subseteq Downloads
    BY ListFacts DEF JobsInv
  <1>2. CASE AddDownload
    <2>1. PICK d \in Downloads \ (ToSet(list) \cup InUse) :
            /\ list' = Append(list, d)
            /\ status' = [status EXCEPT ![d] = "PENDING"]
            /\ running' = [running EXCEPT ![d] = FALSE]
            /\ file' = [file EXCEPT ![d] = "none"]
      BY <1>2 DEF AddDownload
    <2>2. ListTypes' /\ ToSet(list') = ToSet(list) \cup {d}
      BY <2>1, AppendFacts DEF JobsInv, ListTypes
    <2>3. ThreadTypes'
      BY <1>2, <2>2 DEF AddDownload, JobsInv, ThreadTypes
    <2>4. FlagTypes' /\ ExtractTypes'
      BY <1>2, <2>1 DEF AddDownload, JobsInv, FlagTypes, ExtractTypes, Status, Extracting
    <2>5. Progress'
      BY <1>2, ProgressDisturbed DEF AddDownload
    <2>6. QED  BY <2>2, <2>3, <2>4, <2>5 DEF JobsInv
  <1>3. CASE SetStatus
    <2>1. PICK d \in ToSet(list) :
            \E s \in {"DELETED", "INACTIVE"} \cup {"PENDING" : x \in {d} \cap
                       {c \in Downloads : status[c] = "INACTIVE"}} :
              status' = [status EXCEPT ![d] = StatusAfter(d, s)]
      BY <1>3 DEF SetStatus
    <2>2. PICK s \in {"DELETED", "INACTIVE", "PENDING"} :
            status' = [status EXCEPT ![d] = StatusAfter(d, s)]
      BY <2>1
    <2>3. status' \in [Downloads -> Status]
      BY <2>2 DEF JobsInv, FlagTypes, Status, StatusAfter
    <2>4. UNCHANGED <<list, running, work, presetter, check, extract, disturbed, lost, due, file>>
      BY <1>3 DEF SetStatus, extractVars
    <2>5. ListTypes' /\ FlagTypes' /\ ThreadTypes' /\ ExtractTypes' /\ Progress'
      BY <2>3, <2>4, ProgressKept
         DEF JobsInv, ListTypes, FlagTypes, ThreadTypes, ExtractTypes
    <2>6. QED  BY <2>5 DEF JobsInv
  <1>4. CASE Purge
    <2>1. PICK d \in ToSet(list) \ InUse : list' = Kept(list, Downloads \ {d})
      BY <1>4 DEF Purge
    <2>2. ListTypes' /\ ToSet(list') = ToSet(list) \ {d}
      <3>1. /\ list' \in Seq(Downloads \cap (Downloads \ {d}))
            /\ ToSet(list') = ToSet(list) \cap (Downloads \ {d})
            /\ IsInjective(list')
        BY <2>1, KeptFacts DEF JobsInv, ListTypes
      <3>2. ToSet(list') \subseteq Downloads
        BY <3>1
      <3>3. list' \in Seq(Downloads)
        BY <3>1, <3>2, ToSetFacts
      <3>4. QED  BY <1>1, <3>1, <3>3 DEF ListTypes
    <2>3. ThreadTypes'
      <3>1. /\ \A w \in Workers : work[w].dl # d
            /\ \A k \in Checkers : check[k].dl # d
        BY <2>1 DEF InUse
      <3>2. QED  BY <1>4, <2>2, <3>1 DEF Purge, JobsInv, ThreadTypes
    <2>4. FlagTypes' /\ ExtractTypes'
      BY <1>4 DEF Purge, downloadVars, JobsInv, FlagTypes, ExtractTypes, Extracting
    <2>5. Progress'
      BY <1>4, ProgressDisturbed DEF Purge
    <2>6. QED  BY <2>2, <2>3, <2>4, <2>5 DEF JobsInv
  <1>5. QED  BY <1>2, <1>3, <1>4

\* The inductive invariant of the extractions and prechecks of a package.
THEOREM JobsInvariant == Spec => []JobsInv
  <1>1. Init => JobsInv
    <2> SUFFICES ASSUME Init PROVE JobsInv
      OBVIOUS
    <2>1. ListTypes /\ FlagTypes /\ ThreadTypes
      BY PackageJobsAssumption DEF Init, ListTypes, FlagTypes, ThreadTypes, Status
    <2>2. NoExtraction \in Record /\ NoExtraction.at = "idle"
      BY PackageJobsAssumption DEF NoExtraction, Record
    <2>3. ExtractTypes /\ Progress
      BY <2>2 DEF Init, ExtractTypes, Progress
    <2>4. QED  BY <2>1, <2>3 DEF JobsInv
  <1>2. JobsInv /\ [Next]_vars => JobsInv'
    <2> SUFFICES ASSUME JobsInv, [Next]_vars PROVE JobsInv'
      OBVIOUS
    <2>1. CASE SchedulerPresets
      BY <2>1, PresetKeeps DEF SchedulerPresets
    <2>2. CASE UNCHANGED vars
      <3>1. UNCHANGED <<list, status, running, file, work, presetter, check, extract,
                        disturbed, lost, due>>
        BY <2>2 DEF vars, downloadVars, extractVars
      <3>2. QED  BY <3>1, ProgressKept
                    DEF JobsInv, ListTypes, FlagTypes, ThreadTypes, ExtractTypes
    <2>3. QED  BY <2>1, <2>2, WorkerKeeps, CheckerKeeps, ExtractorKeeps, ListChanges DEF Next
  <1>3. QED  BY <1>1, <1>2, PTL DEF Spec

\* The variables keep their types, and what a worker or a checker works on is in
\* the list.
THEOREM JobsTypes == Spec => []TypeOK
  <1>1. JobsInv => TypeOK
    <2> SUFFICES ASSUME JobsInv PROVE TypeOK
      OBVIOUS
    <2>1. InUse \subseteq ToSet(list) \cup {NoDownload}
      BY DEF InUse, JobsInv, ThreadTypes, Resting
    <2>2. \A w \in Workers : work[w].at = "idle" <=> work[w].dl = NoDownload
      <3>1. NoDownload \notin ToSet(list)
        BY ListFacts, PackageJobsAssumption DEF JobsInv
      <3>2. QED  BY <3>1 DEF JobsInv, ThreadTypes, Resting
    <2>3. \A e \in Extractors : extract[e].try \in 0 .. Passwords + 1
      BY DEF JobsInv, ExtractTypes, Record
    <2>4. QED  BY <2>1, <2>2, <2>3 DEF JobsInv, ListTypes, FlagTypes, ExtractTypes, TypeOK
  <1>2. QED  BY <1>1, JobsInvariant, PTL

\* No archive is removed that was not unpacked, whatever the passwords, the order
\* and the results, by an extraction that nothing has overtaken.
THEOREM NothingIsLost == Spec => []UnpackedBeforeRemoved
  <1>1. JobsInv => UnpackedBeforeRemoved
    BY DEF JobsInv, Progress, UnpackedBeforeRemoved
  <1>2. QED  BY <1>1, JobsInvariant, PTL
================================================================================
