----------------------------- MODULE CupsProofs -----------------------------
(***************************************************************************)
(* The cups add-on for any number of documents, mishaps and attempts, any  *)
(* options and networks: no document is lost, what is in sent/ was accepted,*)
(* attempts and history lines are counted, and a start serves its options. *)
(***************************************************************************)
EXTENDS CupsWorkers, CupsBoot, FiniteSetTheorems, NaturalsInduction, TLAPS

-----------------------------------------------------------------------------
(* Least and greatest elements                                             *)

LEMMA LeastIsOne ==
  ASSUME NEW S \in SUBSET Nat, S # {}
  PROVE  Least(S) \in S /\ \A y \in S : Least(S) <= y
<1>1. PICK x \in S : \A y \in S : ~(<<y, x>> \in OpToRel(<, Nat))
  BY NatLessThanWellFounded, WFMin
<1>2. ASSUME NEW y \in S PROVE x <= y
  <2>1. x \in Nat /\ y \in Nat
    OBVIOUS
  <2>2. y < x => <<y, x>> \in OpToRel(<, Nat)
    BY <2>1 DEF OpToRel
  <2>3. ~(y < x)
    BY <1>1, <2>2, Zenon
  <2> QED
    BY <2>1, <2>3
<1> QED
  BY <1>2 DEF Least

LEMMA GreatestIsOne ==
  ASSUME NEW N \in Nat, NEW S \in SUBSET (0 .. N), S # {}
  PROVE  Greatest(S) \in S /\ \A y \in S : Greatest(S) >= y
<1> DEFINE T == {N - x : x \in S}
<1>1. T \in SUBSET Nat /\ T # {}
  <2>1. \A x \in S : N - x \in Nat
    OBVIOUS
  <2>2. PICK x \in S : TRUE
    OBVIOUS
  <2>3. N - x \in T
    BY <2>2
  <2> QED
    BY <2>1, <2>3
<1>2. Least(T) \in T /\ \A y \in T : Least(T) <= y
  BY <1>1, LeastIsOne
<1>3. PICK x \in S : Least(T) = N - x
  BY <1>2
<1>4. ASSUME NEW y \in S PROVE x >= y
  <2>1. N - x <= N - y
    BY <1>2, <1>3
  <2> QED
    BY <2>1
<1> QED
  BY <1>4 DEF Greatest

-----------------------------------------------------------------------------
(* The invariant                                                           *)

\* Documents are numbered as they are printed, and a job id is never above the
\* number of its document.
Numbered ==
  /\ \E n \in Nat : Documents = 1 .. n /\ job \in [1 .. n -> 1 .. n]
  /\ active \subseteq Documents /\ completed \subseteq Documents
  /\ received \in [Documents -> Nat]

\* Each document is in one place under its own name, and the one that waits for
\* its turn was printed after the one that waits for a retry.
Placed ==
  /\ \A x \in DOMAIN incoming : incoming[x] \in Documents /\ job[incoming[x]] = x
  /\ \A x \in DOMAIN processing : processing[x] \in Documents /\ job[processing[x]] = x
  /\ \A x \in DOMAIN incoming \cap DOMAIN processing : processing[x] < incoming[x]
  /\ \A x \in DOMAIN sent :
       /\ sent[x] \in Documents /\ sent[x] \notin Values(incoming) \cup Values(processing)
       /\ x \in {<<job[sent[x]], 0>>, <<job[sent[x]], sent[x]>>}
  /\ \A x \in DOMAIN failed :
       /\ failed[x] \in Documents /\ failed[x] \notin Values(incoming) \cup Values(processing)
       /\ x \in {<<job[failed[x]], 0>>, <<job[failed[x]], failed[x]>>}

AfterUpload == {"unlink_sidecar", "unlink_retry", "to_sent"}

\* The document the worker is busy with is in processing/, and past the upload
\* paperless-ngx has it.
Working ==
  /\ phase = "incoming" => scan \subseteq DOMAIN incoming
  /\ phase = "retries" => /\ scan \subseteq DOMAIN processing
                          /\ uploader # "next" => at \notin scan
  /\ uploader \notin {"next", "sidecar_to_failed", "given_up"} => at \in DOMAIN processing
  /\ uploader \in AfterUpload => received[processing[at]] > 0

CupsInv == Numbered /\ Placed /\ Working /\ SentWasAccepted

\* A document is lost from sight only under a newer one of its name, while both
\* wait.
NewerOnly ==
  \A d \in Documents :
    Kept(d) => Kept(d)' \/ /\ Waiting(d)
                           /\ \E e \in DOMAIN job' :
                                e > d /\ job'[e] = job[d] /\ Waiting(e)'

LEMMA DocumentsCount == CupsInv => \A d \in Documents : d \in Nat /\ d # 0
<1> SUFFICES ASSUME CupsInv, NEW d \in Documents PROVE d \in Nat /\ d # 0
  OBVIOUS
<1>1. PICK n \in Nat : Documents = 1 .. n
  BY DEF CupsInv, Numbered
<1> QED
  BY <1>1

-----------------------------------------------------------------------------
(* The steps                                                               *)

LEMMA InitCupsInv == CupsInit => CupsInv
<1> SUFFICES ASSUME CupsInit PROVE CupsInv
  OBVIOUS
<1>1. Documents = {} /\ job \in [1 .. 0 -> 1 .. 0] /\ received \in [{} -> Nat] /\ 1 .. 0 = {}
  BY DEF CupsInit, Documents, Empty
<1>2. Numbered
  BY <1>1 DEF CupsInit, Numbered
<1>3. Placed /\ Working /\ SentWasAccepted
  BY DEF CupsInit, Empty, Placed, Working, SentWasAccepted, AfterUpload, Values
<1> QED
  BY <1>2, <1>3 DEF CupsInv

\* What PrintJob adds: the next document, under a name that may be in use.
LEMMA PrintAdds ==
  ASSUME CupsInv, PrintJob
  PROVE  \E n \in Nat :
           /\ Documents = 1 .. n /\ Documents' = 1 .. (n + 1)
           /\ LastJob + 1 \in 1 .. (n + 1)
           /\ job' = Put(job, n + 1, LastJob + 1) /\ job' \in [1 .. (n + 1) -> 1 .. (n + 1)]
           /\ incoming' = Put(incoming, LastJob + 1, n + 1)
           /\ received' = Put(received, n + 1, 0)
           /\ active' = active \cup {n + 1}
<1>1. PICK n \in Nat : Documents = 1 .. n /\ job \in [1 .. n -> 1 .. n]
  BY DEF CupsInv, Numbered
<1>2. Cardinality(Documents) = n
  BY <1>1, FS_Interval
<1>3. LastJob \in 0 .. n
  <2>1. CASE active \cup completed = {}
    BY <2>1 DEF LastJob
  <2>2. CASE active \cup completed # {}
    <3> DEFINE ids == {job[d] : d \in active \cup completed}
    <3>1. ids \in SUBSET (0 .. n) /\ ids # {}
      <4>1. active \cup completed \subseteq 1 .. n
        BY <1>1 DEF CupsInv, Numbered
      <4>2. \A d \in active \cup completed : job[d] \in 0 .. n
        BY <1>1, <4>1
      <4>3. PICK d \in active \cup completed : TRUE
        BY <2>2
      <4>4. job[d] \in ids
        BY <4>3
      <4> QED
        BY <4>2, <4>4
    <3>2. Greatest(ids) \in ids
      BY <3>1, GreatestIsOne
    <3> QED
      BY <2>2, <3>1, <3>2 DEF LastJob
  <2> QED
    BY <2>1, <2>2
<1>4. job' = Put(job, n + 1, LastJob + 1) /\ incoming' = Put(incoming, LastJob + 1, n + 1)
      /\ received' = Put(received, n + 1, 0) /\ active' = active \cup {n + 1}
  BY <1>2 DEF PrintJob
<1>5. (1 .. n) \cup {n + 1} = 1 .. (n + 1)
  OBVIOUS
<1>6. job' \in [1 .. (n + 1) -> 1 .. (n + 1)]
  BY <1>1, <1>3, <1>4, <1>5 DEF Put
<1>7. Documents' = 1 .. (n + 1)
  BY <1>6 DEF Documents
<1> QED
  BY <1>1, <1>3, <1>4, <1>6, <1>7

LEMMA PrintKeepsCupsInv ==
  ASSUME CupsInv, PrintJob
  PROVE  CupsInv' /\ NewerOnly
<1> USE DEF CupsInv, cupsd, outbox, work, remote, records
<1>1. PICK n \in Nat :
        /\ Documents = 1 .. n /\ Documents' = 1 .. (n + 1)
        /\ LastJob + 1 \in 1 .. (n + 1)
        /\ job' = Put(job, n + 1, LastJob + 1) /\ job' \in [1 .. (n + 1) -> 1 .. (n + 1)]
        /\ incoming' = Put(incoming, LastJob + 1, n + 1)
        /\ received' = Put(received, n + 1, 0) /\ active' = active \cup {n + 1}
  BY PrintAdds
<1>2. /\ \A d \in Documents : job'[d] = job[d] /\ received'[d] = received[d] /\ d < n + 1
                              /\ d \in Documents'
      /\ job'[n + 1] = LastJob + 1
  BY <1>1 DEF Put, Documents, Numbered
<1>3. Numbered'
  <2>1. received' \in [Documents' -> Nat]
    BY <1>1 DEF Put, Numbered
  <2>2. active' \subseteq Documents' /\ completed' \subseteq Documents'
    <3>1. completed' = completed
      BY DEF PrintJob
    <3> QED
      BY <1>1, <3>1 DEF Numbered
  <2> QED
    BY SMTT(30), <1>1, <2>1, <2>2 DEF Numbered
<1>4. /\ UNCHANGED <<processing, sent, failed>>
      /\ DOMAIN incoming' = DOMAIN incoming \cup {LastJob + 1}
      /\ \A x \in DOMAIN incoming' :
           incoming'[x] = IF x = LastJob + 1 THEN n + 1 ELSE incoming[x]
  BY <1>1 DEF PrintJob, Put
<1>5. Values(incoming)' \subseteq Values(incoming) \cup {n + 1} /\ Values(processing)' = Values(processing)
  BY <1>4 DEF Values
<1>6. Placed'
  <2>1. \A x \in DOMAIN incoming' : incoming'[x] \in Documents' /\ job'[incoming'[x]] = x
    BY <1>1, <1>2, <1>4 DEF Placed
  <2>2. \A x \in DOMAIN processing' : processing'[x] \in Documents' /\ job'[processing'[x]] = x
    BY <1>2, <1>4 DEF Placed
  <2>3. \A x \in DOMAIN incoming' \cap DOMAIN processing' : processing'[x] < incoming'[x]
    BY <1>2, <1>4 DEF Placed
  <2>4. n + 1 \notin Documents
    BY <1>1
  <2>5. \A x \in DOMAIN sent' :
          /\ sent'[x] \in Documents' /\ sent'[x] \notin Values(incoming)' \cup Values(processing)'
          /\ x \in {<<job'[sent'[x]], 0>>, <<job'[sent'[x]], sent'[x]>>}
    BY <1>2, <1>4, <1>5, <2>4 DEF Placed
  <2>6. \A x \in DOMAIN failed' :
          /\ failed'[x] \in Documents' /\ failed'[x] \notin Values(incoming)' \cup Values(processing)'
          /\ x \in {<<job'[failed'[x]], 0>>, <<job'[failed'[x]], failed'[x]>>}
    BY <1>2, <1>4, <1>5, <2>4 DEF Placed
  <2> QED
    BY <2>1, <2>2, <2>3, <2>5, <2>6 DEF Placed
<1>7. Working'
  BY <1>2, <1>4 DEF PrintJob, Working, AfterUpload, Placed
<1>8. SentWasAccepted'
  BY <1>2, <1>4 DEF SentWasAccepted, Placed
<1>9. NewerOnly
  <2>1. SUFFICES ASSUME NEW d \in Documents, Kept(d), ~Kept(d)'
                 PROVE  /\ Waiting(d)
                        /\ \E e \in DOMAIN job' : e > d /\ job'[e] = job[d] /\ Waiting(e)'
    BY DEF NewerOnly
  <2>2. d \in Values(incoming) /\ Waiting(d)
    BY <1>4, <1>5, <2>1 DEF Kept, Waiting, Values
  <2>3. PICK x \in DOMAIN incoming : incoming[x] = d
    BY <2>2 DEF Values
  <2>4. x = LastJob + 1 /\ job[d] = x
    <3>1. d \notin Values(incoming)'
      BY <2>1 DEF Kept, Waiting
    <3>2. job[d] = x
      BY <2>3 DEF Placed
    <3> QED
      BY <1>4, <2>3, <3>1, <3>2 DEF Values
  <2>5. n + 1 \in Values(incoming)' /\ n + 1 \in DOMAIN job' /\ n + 1 > d
    <3>1. LastJob + 1 \in DOMAIN incoming' /\ incoming'[LastJob + 1] = n + 1
      BY <1>4
    <3> QED
      BY <1>1, <1>2, <3>1 DEF Values, Documents
  <2> QED
    BY <1>2, <2>2, <2>4, <2>5 DEF Waiting
<1> QED
  BY <1>3, <1>6, <1>7, <1>8, <1>9

\* The directories hold what they held, and cupsd knows no more than it knew.
Outside == <<job, incoming, processing, sent, failed>>

LEMMA QuietKeepsCupsInv ==
  ASSUME CupsInv, UNCHANGED <<Outside, received>>, Working',
         active' \subseteq Documents, completed' \subseteq Documents
  PROVE  CupsInv'
<1> USE DEF Outside
<1>1. Numbered'
  BY DEF CupsInv, Numbered, Documents
<1>2. Placed' /\ SentWasAccepted'
  BY DEF CupsInv, Placed, SentWasAccepted, Documents, Values
<1> QED
  BY <1>1, <1>2 DEF CupsInv

LEMMA QuietSteps ==
  ASSUME CupsInv,
         \/ PostProcess \/ Complete \/ Restart
         \/ ScanIncoming \/ ScanRetries \/ PollEnds \/ TakeSidecar \/ TakeRetry
         \/ Route /\ (UnlinkSidecar \/ UnlinkRetry \/ SidecarToFailed \/ SaveRetry)
         \/ FileError \/ Poller
  PROVE  UNCHANGED Outside /\ CupsInv'
<1> USE DEF cupsd, outbox, work, remote, records, Outside, To, NoCupsd, NoOutbox
<1>a. Working /\ Numbered
  BY DEF CupsInv
<1>1. CASE PostProcess
  <2>1. UNCHANGED <<Outside, received, active, completed>> /\ Working'
    BY <1>a, <1>1 DEF PostProcess, Working, AfterUpload
  <2> QED
    BY <1>a, <2>1, QuietKeepsCupsInv DEF Numbered
<1>2. CASE Complete
  <2>1. UNCHANGED <<Outside, received>> /\ Working'
    BY <1>a, <1>2 DEF Complete, Working, AfterUpload
  <2>2. active' \subseteq Documents /\ completed' \subseteq Documents
    BY <1>a, <1>2 DEF Complete, Numbered
  <2> QED
    BY <2>1, <2>2, QuietKeepsCupsInv
<1>3. CASE Restart
  <2>1. UNCHANGED <<Outside, received>> /\ Working' /\ active' = {} /\ completed' = {}
    BY <1>3 DEF Restart, Working, AfterUpload
  <2> QED
    BY <2>1, QuietKeepsCupsInv
<1>4. CASE ScanIncoming
  <2>1. UNCHANGED <<Outside, received, active, completed>> /\ Working'
    BY <1>a, <1>4 DEF ScanIncoming, Working, AfterUpload
  <2> QED
    BY <1>a, <2>1, QuietKeepsCupsInv DEF Numbered
<1>5. CASE ScanRetries
  <2>1. UNCHANGED <<Outside, received, active, completed>> /\ Working'
    BY <1>a, <1>5 DEF ScanRetries, Working, AfterUpload
  <2> QED
    BY <1>a, <2>1, QuietKeepsCupsInv DEF Numbered
<1>6. CASE PollEnds
  <2>1. UNCHANGED <<Outside, received, active, completed>> /\ Working'
    BY <1>a, <1>6 DEF PollEnds, Working, AfterUpload
  <2> QED
    BY <1>a, <2>1, QuietKeepsCupsInv DEF Numbered
<1>7. CASE TakeSidecar
  <2>1. UNCHANGED <<Outside, received, active, completed>> /\ Working'
    BY <1>a, <1>7 DEF TakeSidecar, Working, AfterUpload
  <2> QED
    BY <1>a, <2>1, QuietKeepsCupsInv DEF Numbered
<1>8. CASE TakeRetry
  <2>1. scan \in SUBSET Nat /\ scan # {} /\ scan \subseteq DOMAIN processing
    <3>1. \A x \in DOMAIN processing : x \in Nat
      BY DEF CupsInv, Placed, Numbered
    <3> QED
      BY <1>a, <1>8, <3>1 DEF TakeRetry, Working
  <2>2. Least(scan) \in scan
    BY <2>1, LeastIsOne
  <2>3. UNCHANGED <<Outside, received, active, completed>>
    BY <1>8 DEF TakeRetry
  <2>4. /\ phase = "retries" /\ phase' = phase /\ scan' = scan \ {Least(scan)}
        /\ at' = Least(scan) /\ uploader' \in {"next", "upload"}
    BY <1>8 DEF TakeRetry
  <2>5. Working'
    BY <2>1, <2>2, <2>3, <2>4 DEF Working, AfterUpload
  <2> QED
    BY <1>a, <2>3, <2>5, QuietKeepsCupsInv DEF Numbered
<1>9. CASE Route /\ (UnlinkSidecar \/ UnlinkRetry \/ SidecarToFailed \/ SaveRetry)
  <2>1. UNCHANGED <<Outside, received, active, completed, phase, scan, at>>
    BY <1>9 DEF Route, UnlinkSidecar, UnlinkRetry, SidecarToFailed, SaveRetry
  <2>2. \/ uploader = "unlink_sidecar" /\ uploader' = "unlink_retry"
        \/ uploader = "unlink_retry" /\ uploader' = "to_sent"
        \/ uploader # "next" /\ uploader' \in {"next", "given_up"}
    BY <1>9 DEF UnlinkSidecar, UnlinkRetry, SidecarToFailed, SaveRetry
  <2>3. Working'
    BY <1>a, <2>1, <2>2 DEF Working, AfterUpload
  <2> QED
    BY <1>a, <2>1, <2>3, QuietKeepsCupsInv DEF Numbered
<1>10. CASE FileError
  <2>1. UNCHANGED <<Outside, received, active, completed>> /\ Working'
    BY <1>a, <1>10 DEF FileError, Working, AfterUpload
  <2> QED
    BY <1>a, <2>1, QuietKeepsCupsInv DEF Numbered
<1>11. CASE Poller
  <2>1. UNCHANGED <<Outside, received, active, completed, work>>
    BY <1>11 DEF Poller, EstablishBaseline, Query, AppendHistory, SaveLastSeen, PollFails
  <2>2. Working'
    BY <1>a, <2>1 DEF Working, AfterUpload
  <2> QED
    BY <1>a, <2>1, <2>2, QuietKeepsCupsInv DEF Numbered
<1> QED
  BY <1>1, <1>2, <1>3, <1>4, <1>5, <1>6, <1>7, <1>8, <1>9, <1>10, <1>11

LEMMA OneMoreReceived ==
  ASSUME received \in [Documents -> Nat], processing[at] \in Documents,
         received' = [received EXCEPT ![processing[at]] = @ + 1]
  PROVE  /\ received' \in [Documents -> Nat] /\ received'[processing[at]] > 0
         /\ \A d \in Documents : received[d] > 0 => received'[d] > 0
OBVIOUS

LEMMA UploadKeepsCupsInv ==
  ASSUME CupsInv, Upload
  PROVE  UNCHANGED Outside /\ CupsInv'
<1> USE DEF CupsInv, cupsd, outbox, work, remote, records, Outside, To, NoCupsd
<1>1. UNCHANGED <<Outside, active, completed, phase, scan, at>>
  BY DEF Upload
<1>2. PICK answer \in {"task_id", "login_page", "error", "lost"} :
        /\ uploader = "upload"
        /\ IF answer \in {"task_id", "lost"}
           THEN received' = [received EXCEPT ![processing[at]] = @ + 1]
           ELSE UNCHANGED received
        /\ IF answer = "task_id" THEN uploader' = "unlink_sidecar"
           ELSE uploader' \in {"to_failed", "save_retry"}
  BY DEF Upload, Believed
<1>3. at \in DOMAIN processing /\ processing[at] \in Documents
  BY <1>2 DEF Working, Placed
<1>4. received \in [Documents -> Nat]
  BY DEF Numbered
<1>5. /\ received' \in [Documents -> Nat]
      /\ \A d \in Documents : received[d] > 0 => received'[d] > 0
      /\ answer = "task_id" => received'[processing[at]] > 0
  <2>1. CASE answer \in {"task_id", "lost"}
    <3>1. received' = [received EXCEPT ![processing[at]] = @ + 1]
      BY <1>2, <2>1
    <3> QED
      BY <1>3, <1>4, <3>1, OneMoreReceived
  <2>2. CASE answer \notin {"task_id", "lost"}
    BY <1>2, <1>4, <2>2
  <2> QED
    BY <2>1, <2>2
<1>6. Numbered' /\ Placed'
  <2>1. Numbered'
    BY <1>1, <1>5 DEF Numbered, Documents
  <2>2. Placed /\ UNCHANGED <<job, incoming, processing, sent, failed>>
    BY <1>1
  <2>3. /\ Documents' = Documents
        /\ Values(incoming)' = Values(incoming) /\ Values(processing)' = Values(processing)
    BY ONLY <2>2 DEF Documents, Values
  <2>4. Placed'
    BY ONLY <2>2, <2>3 DEF Placed
  <2> QED
    BY <2>1, <2>4
<1>7. Working'
  BY <1>1, <1>2, <1>3, <1>5 DEF Working, AfterUpload
<1>8. SentWasAccepted'
  BY <1>1, <1>5 DEF SentWasAccepted, Placed
<1> QED
  BY <1>1, <1>6, <1>7, <1>8

-----------------------------------------------------------------------------
(* The steps that move a document                                          *)

LEMMA TakeNewKeepsCupsInv ==
  ASSUME CupsInv, TakeNew
  PROVE  CupsInv' /\ NewerOnly
<1> USE DEF CupsInv, cupsd, outbox, work, remote, records, To, NoCupsd
<1> DEFINE n == Least(scan)
<1>1. n \in scan /\ scan \subseteq DOMAIN incoming
  <2>1. \A x \in DOMAIN incoming : x \in Nat
    BY DEF Placed, Numbered
  <2>2. scan \in SUBSET Nat /\ scan # {} /\ scan \subseteq DOMAIN incoming
    BY <2>1 DEF TakeNew, Working
  <2> QED
    BY <2>2, LeastIsOne
<1>2. /\ UNCHANGED <<job, active, completed, sent, failed, received, phase>>
      /\ phase = "incoming" /\ uploader' = "sidecar" /\ at' = n /\ scan' = scan \ {n}
      /\ processing' = Put(processing, n, incoming[n]) /\ incoming' = Without(incoming, n)
  BY DEF TakeNew
<1>3. /\ DOMAIN processing' = DOMAIN processing \cup {n}
      /\ \A x \in DOMAIN processing' :
           processing'[x] = IF x = n THEN incoming[n] ELSE processing[x]
      /\ DOMAIN incoming' = DOMAIN incoming \ {n}
      /\ \A x \in DOMAIN incoming' : incoming'[x] = incoming[x]
  BY <1>2 DEF Put, Without
<1>4. /\ Values(incoming)' \subseteq Values(incoming)
      /\ Values(processing)' \subseteq Values(processing) \cup Values(incoming)
  BY <1>1, <1>3 DEF Values
<1>5. Numbered' /\ SentWasAccepted'
  BY <1>2 DEF Numbered, SentWasAccepted, Documents
<1>6. Placed'
  <2>1. \A x \in DOMAIN processing' : processing'[x] \in Documents' /\ job'[processing'[x]] = x
    BY <1>1, <1>2, <1>3 DEF Placed, Documents
  <2>2. \A x \in DOMAIN incoming' : incoming'[x] \in Documents' /\ job'[incoming'[x]] = x
    BY <1>2, <1>3 DEF Placed, Documents
  <2>3. \A x \in DOMAIN incoming' \cap DOMAIN processing' : processing'[x] < incoming'[x]
    BY <1>3 DEF Placed
  <2>4. \A x \in DOMAIN sent' :
          /\ sent'[x] \in Documents' /\ sent'[x] \notin Values(incoming)' \cup Values(processing)'
          /\ x \in {<<job'[sent'[x]], 0>>, <<job'[sent'[x]], sent'[x]>>}
    BY <1>2, <1>4 DEF Placed, Documents
  <2>5. \A x \in DOMAIN failed' :
          /\ failed'[x] \in Documents' /\ failed'[x] \notin Values(incoming)' \cup Values(processing)'
          /\ x \in {<<job'[failed'[x]], 0>>, <<job'[failed'[x]], failed'[x]>>}
    BY <1>2, <1>4 DEF Placed, Documents
  <2> QED
    BY <2>1, <2>2, <2>3, <2>4, <2>5 DEF Placed
<1>7. Working'
  BY <1>1, <1>2, <1>3 DEF Working, AfterUpload
<1>8. NewerOnly
  <2>1. SUFFICES ASSUME NEW d \in Documents, Waiting(d), ~Kept(d)'
                 PROVE  \E e \in DOMAIN job' : e > d /\ job'[e] = job[d] /\ Waiting(e)'
    BY <1>2 DEF NewerOnly, Kept, Values
  <2>2. PICK x : x \in DOMAIN processing /\ processing[x] = d /\ x = n
    <3>1. d \notin Values(incoming)' /\ d \notin Values(processing)'
      BY <2>1 DEF Kept, Waiting
    <3>2. ASSUME NEW x \in DOMAIN incoming, incoming[x] = d PROVE FALSE
      BY <1>1, <1>3, <3>1, <3>2 DEF Values
    <3>3. PICK x \in DOMAIN processing : processing[x] = d
      BY <2>1, <3>2 DEF Waiting, Values
    <3> QED
      BY <1>3, <3>1, <3>3 DEF Values
  <2>3. /\ incoming[n] \in DOMAIN job' /\ incoming[n] > d /\ job'[incoming[n]] = job[d]
        /\ incoming[n] \in Values(processing)'
    <3>1. n \in DOMAIN incoming \cap DOMAIN processing
      BY <1>1, <2>2
    <3>2. processing[n] < incoming[n] /\ incoming[n] \in Documents /\ job[incoming[n]] = n
          /\ job[d] = n
      BY <2>2, <3>1 DEF Placed
    <3>3. n \in DOMAIN processing' /\ processing'[n] = incoming[n]
      BY <1>3
    <3> QED
      BY <1>2, <2>2, <3>2, <3>3 DEF Documents, Values, Numbered
  <2> QED
    BY <2>3 DEF Waiting
<1> QED
  BY <1>5, <1>6, <1>7, <1>8

LEMMA ToSentKeepsCupsInv ==
  ASSUME CupsInv, Route, ToSent
  PROVE  CupsInv' /\ NewerOnly
<1> USE DEF CupsInv, cupsd, outbox, work, remote, records, To, NoCupsd
<1> DEFINE d == processing[at]
<1> DEFINE key == UniqueDestination(sent, at, d)
<1>1. at \in DOMAIN processing /\ d \in Documents /\ job[d] = at /\ received[d] > 0
  BY DEF ToSent, Working, Placed, AfterUpload
<1>2. /\ UNCHANGED <<job, active, completed, incoming, failed, received, phase, scan, at>>
      /\ uploader' = "next"
      /\ sent' = Put(sent, key, d) /\ processing' = Without(processing, at)
  BY DEF Route, ToSent
<1>3. \A x \in DOMAIN sent : sent[x] # d
  BY <1>1 DEF Placed, Values
<1>4. key \notin DOMAIN sent /\ key \in {<<job[d], 0>>, <<job[d], d>>}
  <2>1. ASSUME <<at, d>> \in DOMAIN sent PROVE FALSE
    <3>1. <<at, d>> \in {<<job[sent[<<at, d>>]], 0>>, <<job[sent[<<at, d>>]], sent[<<at, d>>]>>}
      BY <2>1 DEF Placed
    <3>2. d \in Nat /\ d # 0
      BY <1>1, DocumentsCount
    <3>3. sent[<<at, d>>] = d
      BY <3>1, <3>2
    <3> QED
      BY <1>3, <2>1, <3>3
  <2> QED
    BY <1>1, <2>1 DEF UniqueDestination
<1>5. /\ DOMAIN sent' = DOMAIN sent \cup {key}
      /\ \A x \in DOMAIN sent' : sent'[x] = IF x = key THEN d ELSE sent[x]
      /\ DOMAIN processing' = DOMAIN processing \ {at}
      /\ \A x \in DOMAIN processing' : processing'[x] = processing[x]
  BY <1>2 DEF Put, Without
<1>6. d \notin Values(incoming)' /\ d \notin Values(processing)'
  <2>1. ASSUME NEW x \in DOMAIN incoming, incoming[x] = d PROVE FALSE
    <3>1. x = at /\ processing[x] < incoming[x]
      BY <1>1, <2>1 DEF Placed
    <3> QED
      BY <1>1, <2>1, <3>1 DEF Numbered
  <2>2. ASSUME NEW x \in DOMAIN processing', processing'[x] = d PROVE FALSE
    <3>1. x \in DOMAIN processing /\ processing[x] = d /\ x # at
      BY <1>5, <2>2
    <3> QED
      BY <1>1, <3>1 DEF Placed
  <2> QED
    BY <1>2, <2>1, <2>2 DEF Values
<1>7. Values(incoming)' = Values(incoming) /\ Values(processing)' \subseteq Values(processing)
  BY <1>2, <1>5 DEF Values
<1>8. Numbered'
  BY <1>2 DEF Numbered, Documents
<1>9. Placed'
  <2>1. \A x \in DOMAIN processing' : processing'[x] \in Documents' /\ job'[processing'[x]] = x
    BY <1>2, <1>5 DEF Placed, Documents
  <2>2. \A x \in DOMAIN incoming' : incoming'[x] \in Documents' /\ job'[incoming'[x]] = x
    BY <1>2 DEF Placed, Documents
  <2>3. \A x \in DOMAIN incoming' \cap DOMAIN processing' : processing'[x] < incoming'[x]
    BY <1>2, <1>5 DEF Placed
  <2>4. \A x \in DOMAIN sent' :
          /\ sent'[x] \in Documents' /\ sent'[x] \notin Values(incoming)' \cup Values(processing)'
          /\ x \in {<<job'[sent'[x]], 0>>, <<job'[sent'[x]], sent'[x]>>}
    <3>1. TAKE x \in DOMAIN sent'
    <3>2. CASE x = key
      BY <1>1, <1>2, <1>4, <1>5, <1>6, <3>2 DEF Documents
    <3>3. CASE x # key
      <4>1. x \in DOMAIN sent /\ sent'[x] = sent[x]
        BY <1>5, <3>3
      <4> QED
        BY <1>2, <1>7, <4>1 DEF Placed, Documents
    <3> QED
      BY <3>2, <3>3
  <2>5. \A x \in DOMAIN failed' :
          /\ failed'[x] \in Documents' /\ failed'[x] \notin Values(incoming)' \cup Values(processing)'
          /\ x \in {<<job'[failed'[x]], 0>>, <<job'[failed'[x]], failed'[x]>>}
    BY <1>2, <1>7 DEF Placed, Documents
  <2> QED
    BY <2>1, <2>2, <2>3, <2>4, <2>5 DEF Placed
<1>10. Working'
  <2>1. phase = "retries" => at \notin scan
    BY DEF Working, ToSent
  <2> QED
    BY <1>2, <1>5, <2>1 DEF Working, AfterUpload
<1>11. SentWasAccepted'
  BY <1>1, <1>2, <1>5 DEF SentWasAccepted
<1>12. NewerOnly
  <2>1. ASSUME NEW e \in Documents, Kept(e) PROVE Kept(e)'
    <3>1. CASE e \in Values(incoming) \/ e \in Values(failed)
      BY <1>2, <3>1 DEF Kept, Waiting, Values
    <3>2. CASE e \in Values(sent)
      <4>1. PICK x \in DOMAIN sent : sent[x] = e
        BY <3>2 DEF Values
      <4>2. x \in DOMAIN sent' /\ sent'[x] = e
        BY <1>4, <1>5, <4>1
      <4> QED
        BY <4>2 DEF Kept, Values
    <3>3. CASE e \in Values(processing)
      <4>1. PICK x \in DOMAIN processing : processing[x] = e
        BY <3>3 DEF Values
      <4>2. CASE x = at
        <5>1. key \in DOMAIN sent' /\ sent'[key] = e
          BY <1>5, <4>1, <4>2
        <5> QED
          BY <5>1 DEF Kept, Values
      <4>3. CASE x # at
        <5>1. x \in DOMAIN processing' /\ processing'[x] = e
          BY <1>5, <4>1, <4>3
        <5> QED
          BY <5>1 DEF Kept, Waiting, Values
      <4> QED
        BY <4>2, <4>3
    <3> QED
      BY <2>1, <3>1, <3>2, <3>3 DEF Kept, Waiting
  <2> QED
    BY <2>1 DEF NewerOnly
<1> QED
  BY <1>8, <1>9, <1>10, <1>11, <1>12

LEMMA ToFailedKeepsCupsInv ==
  ASSUME CupsInv, Route, ToFailed
  PROVE  CupsInv' /\ NewerOnly
<1> USE DEF CupsInv, cupsd, outbox, work, remote, records, To, NoCupsd
<1> DEFINE d == processing[at]
<1> DEFINE key == UniqueDestination(failed, at, d)
<1>1. at \in DOMAIN processing /\ d \in Documents /\ job[d] = at
  BY DEF ToFailed, Working, Placed, AfterUpload
<1>2. /\ UNCHANGED <<job, active, completed, incoming, sent, received, phase, scan, at>>
      /\ uploader' = "sidecar_to_failed"
      /\ failed' = Put(failed, key, d) /\ processing' = Without(processing, at)
  BY DEF Route, ToFailed
<1>3. \A x \in DOMAIN failed : failed[x] # d
  BY <1>1 DEF Placed, Values
<1>4. key \notin DOMAIN failed /\ key \in {<<job[d], 0>>, <<job[d], d>>}
  <2>1. ASSUME <<at, d>> \in DOMAIN failed PROVE FALSE
    <3>1. <<at, d>> \in {<<job[failed[<<at, d>>]], 0>>, <<job[failed[<<at, d>>]], failed[<<at, d>>]>>}
      BY <2>1 DEF Placed
    <3>2. d \in Nat /\ d # 0
      BY <1>1, DocumentsCount
    <3>3. failed[<<at, d>>] = d
      BY <3>1, <3>2
    <3> QED
      BY <1>3, <2>1, <3>3
  <2> QED
    BY <1>1, <2>1 DEF UniqueDestination
<1>5. /\ DOMAIN failed' = DOMAIN failed \cup {key}
      /\ \A x \in DOMAIN failed' : failed'[x] = IF x = key THEN d ELSE failed[x]
      /\ DOMAIN processing' = DOMAIN processing \ {at}
      /\ \A x \in DOMAIN processing' : processing'[x] = processing[x]
  BY <1>2 DEF Put, Without
<1>6. d \notin Values(incoming)' /\ d \notin Values(processing)'
  <2>1. ASSUME NEW x \in DOMAIN incoming, incoming[x] = d PROVE FALSE
    <3>1. x = at /\ processing[x] < incoming[x]
      BY <1>1, <2>1 DEF Placed
    <3> QED
      BY <1>1, <2>1, <3>1 DEF Numbered
  <2>2. ASSUME NEW x \in DOMAIN processing', processing'[x] = d PROVE FALSE
    <3>1. x \in DOMAIN processing /\ processing[x] = d /\ x # at
      BY <1>5, <2>2
    <3> QED
      BY <1>1, <3>1 DEF Placed
  <2> QED
    BY <1>2, <2>1, <2>2 DEF Values
<1>7. Values(incoming)' = Values(incoming) /\ Values(processing)' \subseteq Values(processing)
  BY <1>2, <1>5 DEF Values
<1>8. Numbered'
  BY <1>2 DEF Numbered, Documents
<1>9. Placed'
  <2>1. \A x \in DOMAIN processing' : processing'[x] \in Documents' /\ job'[processing'[x]] = x
    BY <1>2, <1>5 DEF Placed, Documents
  <2>2. \A x \in DOMAIN incoming' : incoming'[x] \in Documents' /\ job'[incoming'[x]] = x
    BY <1>2 DEF Placed, Documents
  <2>3. \A x \in DOMAIN incoming' \cap DOMAIN processing' : processing'[x] < incoming'[x]
    BY <1>2, <1>5 DEF Placed
  <2>4. \A x \in DOMAIN failed' :
          /\ failed'[x] \in Documents' /\ failed'[x] \notin Values(incoming)' \cup Values(processing)'
          /\ x \in {<<job'[failed'[x]], 0>>, <<job'[failed'[x]], failed'[x]>>}
    <3>1. TAKE x \in DOMAIN failed'
    <3>2. CASE x = key
      BY <1>1, <1>2, <1>4, <1>5, <1>6, <3>2 DEF Documents
    <3>3. CASE x # key
      <4>1. x \in DOMAIN failed /\ failed'[x] = failed[x]
        BY <1>5, <3>3
      <4> QED
        BY <1>2, <1>7, <4>1 DEF Placed, Documents
    <3> QED
      BY <3>2, <3>3
  <2>5. \A x \in DOMAIN sent' :
          /\ sent'[x] \in Documents' /\ sent'[x] \notin Values(incoming)' \cup Values(processing)'
          /\ x \in {<<job'[sent'[x]], 0>>, <<job'[sent'[x]], sent'[x]>>}
    BY <1>2, <1>7 DEF Placed, Documents
  <2> QED
    BY <2>1, <2>2, <2>3, <2>4, <2>5 DEF Placed
<1>10. Working'
  <2>1. phase = "retries" => at \notin scan
    BY DEF Working, ToFailed
  <2> QED
    BY <1>2, <1>5, <2>1 DEF Working, AfterUpload
<1>11. SentWasAccepted'
  BY <1>1, <1>2, <1>5 DEF SentWasAccepted
<1>12. NewerOnly
  <2>1. ASSUME NEW e \in Documents, Kept(e) PROVE Kept(e)'
    <3>1. CASE e \in Values(incoming) \/ e \in Values(sent)
      BY <1>2, <3>1 DEF Kept, Waiting, Values
    <3>2. CASE e \in Values(failed)
      <4>1. PICK x \in DOMAIN failed : failed[x] = e
        BY <3>2 DEF Values
      <4>2. x \in DOMAIN failed' /\ failed'[x] = e
        BY <1>4, <1>5, <4>1
      <4> QED
        BY <4>2 DEF Kept, Values
    <3>3. CASE e \in Values(processing)
      <4>1. PICK x \in DOMAIN processing : processing[x] = e
        BY <3>3 DEF Values
      <4>2. CASE x = at
        <5>1. key \in DOMAIN failed' /\ failed'[key] = e
          BY <1>5, <4>1, <4>2
        <5> QED
          BY <5>1 DEF Kept, Values
      <4>3. CASE x # at
        <5>1. x \in DOMAIN processing' /\ processing'[x] = e
          BY <1>5, <4>1, <4>3
        <5> QED
          BY <5>1 DEF Kept, Waiting, Values
      <4> QED
        BY <4>2, <4>3
    <3> QED
      BY <2>1, <3>1, <3>2, <3>3 DEF Kept, Waiting
  <2> QED
    BY <2>1 DEF NewerOnly
<1> QED
  BY <1>8, <1>9, <1>10, <1>11, <1>12

-----------------------------------------------------------------------------
(* The theorems                                                            *)

LEMMA OutsideKeepsAll == UNCHANGED Outside => NewerOnly
<1> SUFFICES ASSUME UNCHANGED Outside PROVE NewerOnly
  OBVIOUS
<1>1. /\ Values(incoming)' = Values(incoming) /\ Values(processing)' = Values(processing)
      /\ Values(sent)' = Values(sent) /\ Values(failed)' = Values(failed)
  BY DEF Outside, Values
<1> QED
  BY <1>1 DEF NewerOnly, Kept, Waiting

LEMMA CupsStep == CupsInv /\ [CupsNext]_cupsVars => CupsInv' /\ NewerOnly
<1> SUFFICES ASSUME CupsInv, [CupsNext]_cupsVars PROVE CupsInv' /\ NewerOnly
  OBVIOUS
<1>1. CASE UNCHANGED cupsVars
  <2>1. UNCHANGED <<Outside, received, active, completed, work>>
    BY <1>1 DEF cupsVars, cupsd, outbox, remote, Outside
  <2>2. Working' /\ active' \subseteq Documents /\ completed' \subseteq Documents
    BY <2>1 DEF CupsInv, Numbered, Working, AfterUpload, Outside, work
  <2> QED
    BY <2>1, <2>2, QuietKeepsCupsInv, OutsideKeepsAll
<1>2. CASE PrintJob
  BY <1>2, PrintKeepsCupsInv
<1>3. CASE TakeNew
  BY <1>3, TakeNewKeepsCupsInv
<1>4. CASE Upload
  BY <1>4, UploadKeepsCupsInv, OutsideKeepsAll
<1>5. CASE Route /\ ToSent
  BY <1>5, ToSentKeepsCupsInv
<1>6. CASE Route /\ ToFailed
  BY <1>6, ToFailedKeepsCupsInv
<1>7. CASE \/ PostProcess \/ Complete \/ Restart
           \/ ScanIncoming \/ ScanRetries \/ PollEnds \/ TakeSidecar \/ TakeRetry
           \/ Route /\ (UnlinkSidecar \/ UnlinkRetry \/ SidecarToFailed \/ SaveRetry)
           \/ FileError \/ Poller
  BY <1>7, QuietSteps, OutsideKeepsAll
<1>8. Route => \/ ToSent \/ ToFailed
               \/ UnlinkSidecar \/ UnlinkRetry \/ SidecarToFailed \/ SaveRetry
  BY Zenon DEF Route
<1> QED
  BY <1>1, <1>2, <1>3, <1>4, <1>5, <1>6, <1>7, <1>8 DEF CupsNext, Uploader

\* The directories, the worker's place and paperless-ngx's receipts fit together
\* through restarts, retries and file operations that raise.
THEOREM CupsInvariant == CupsSpec => []CupsInv
<1>1. CupsInit => CupsInv
  BY InitCupsInv
<1>2. CupsInv /\ [CupsNext]_cupsVars => CupsInv'
  BY CupsStep
<1> QED
  BY <1>1, <1>2, PTL DEF CupsSpec

\* upload-worker.py moves a document to sent/ only after paperless-ngx accepted
\* it, however many documents, attempts and mishaps there are.
THEOREM SentIsDelivered == CupsSpec => []SentWasAccepted
<1>1. CupsInv => SentWasAccepted
  BY DEF CupsInv
<1> QED
  BY <1>1, CupsInvariant, PTL

\* No rename of upload-worker.py loses a document: one that is in a directory
\* stays in one, unless a newer document of the same name replaces it while
\* both wait (upload-worker.py:31-35).
THEOREM NoDocumentIsLost == CupsSpec => NothingLost
<1>1. CupsInv /\ [CupsNext]_cupsVars => [NewerOnly]_cupsVars
  BY CupsStep
<1> QED
  BY <1>1, CupsInvariant, PTL DEF CupsSpec, NothingLost, NewerOnly

-----------------------------------------------------------------------------
(* The counts of the upload worker                                         *)

CountTypes ==
  /\ mishaps \in Nat /\ prior \in Nat
  /\ tries \in [Documents -> Nat] /\ retry \in [DOMAIN retry -> Nat]

\* Without a mishap a retry file holds no more than the attempts of its document:
\* one that an older document of the name left is replaced or removed before the
\* worker looks at another document.
TriesFit ==
  mishaps = 0 =>
    /\ \A n \in DOMAIN retry \cap DOMAIN processing :
         (uploader # "next" /\ at = n) \/ retry[n] <= tries[processing[n]]
    /\ uploader \in {"sidecar", "upload"} => prior <= tries[processing[at]]
    /\ uploader = "save_retry" => prior + 1 <= tries[processing[at]]
    /\ uploader = "to_failed" => tries[processing[at]] >= RetryCount
    /\ \A x \in DOMAIN failed : tries[failed[x]] >= RetryCount

\* A document that waits was accepted once per mishap, and once more only on its
\* way into sent/.
ReceivedFits ==
  /\ \A d \in Documents : received[d] <= 1 + mishaps
  /\ \A x \in DOMAIN incoming : received[incoming[x]] <= mishaps
  /\ \A x \in DOMAIN processing :
       received[processing[x]] <= mishaps \/ (uploader \in AfterUpload /\ at = x)

CountInv == CountTypes /\ TriesFit /\ ReceivedFits

Counted == <<job, incoming, processing, failed, received, tries, retry, prior, uploader, at>>

LEMMA CountsInitially == CupsInit => CountInv
<1> SUFFICES ASSUME CupsInit PROVE CountInv
  OBVIOUS
<1>1. CountTypes
  BY DEF CupsInit, CountTypes, Empty, Documents
<1>2. TriesFit /\ ReceivedFits
  BY DEF CupsInit, TriesFit, ReceivedFits, Empty, Documents
<1> QED
  BY <1>1, <1>2 DEF CountInv

LEMMA QuietKeepsCounts ==
  ASSUME CupsInv, CountInv, UNCHANGED Counted, mishaps' = mishaps \/ Mishap
  PROVE  CountInv'
<1>1. mishaps' \in Nat /\ mishaps' >= mishaps /\ Documents' = Documents
  BY DEF CountInv, CountTypes, Counted, Mishap, Documents
<1>2. CountTypes'
  BY <1>1 DEF CountInv, CountTypes, Counted
<1>3. TriesFit'
  <2>1. TriesFit /\ (mishaps' = 0 => mishaps = 0)
    BY <1>1 DEF CountInv, CountTypes
  <2> QED
    BY <2>1 DEF TriesFit, Counted
<1>4. /\ \A d \in Documents : received[d] \in Nat
      /\ \A x \in DOMAIN incoming : incoming[x] \in Documents
      /\ \A x \in DOMAIN processing : processing[x] \in Documents
  BY DEF CupsInv, Numbered, Placed
<1>5. ReceivedFits'
  BY <1>1, <1>4 DEF CountInv, CountTypes, ReceivedFits, Counted
<1> QED
  BY <1>2, <1>3, <1>5 DEF CountInv

\* The worker starts again, or goes on with the next document, after a mishap.
LEMMA MishapKeepsCounts ==
  ASSUME CupsInv, CountInv, Mishap, uploader' = "next", prior' \in Nat,
         UNCHANGED <<job, incoming, processing, failed, received, tries, retry>>
  PROVE  CountInv'
<1>1. mishaps \in Nat /\ mishaps' = mishaps + 1 /\ Documents' = Documents
  BY DEF CountInv, CountTypes, Mishap, Documents
<1>2. CountTypes' /\ TriesFit'
  <2>1. CountTypes'
    BY <1>1 DEF CountInv, CountTypes
  <2>2. mishaps' # 0
    BY <1>1
  <2> QED
    BY <2>1, <2>2 DEF TriesFit
<1>3. /\ \A d \in Documents : received[d] \in Nat /\ received[d] <= 1 + mishaps
      /\ \A x \in DOMAIN incoming : incoming[x] \in Documents
      /\ \A x \in DOMAIN processing : processing[x] \in Documents
  BY DEF CupsInv, Numbered, Placed, CountInv, ReceivedFits
<1>4. ReceivedFits'
  BY <1>1, <1>3 DEF ReceivedFits
<1> QED
  BY <1>2, <1>4 DEF CountInv

LEMMA PrintKeepsCounts ==
  ASSUME CupsInv, CountInv, PrintJob
  PROVE  CountInv'
<1>1. PICK n \in Nat :
        /\ Documents = 1 .. n /\ Documents' = 1 .. (n + 1)
        /\ LastJob + 1 \in 1 .. (n + 1)
        /\ job' = Put(job, n + 1, LastJob + 1) /\ job' \in [1 .. (n + 1) -> 1 .. (n + 1)]
        /\ incoming' = Put(incoming, LastJob + 1, n + 1)
        /\ received' = Put(received, n + 1, 0) /\ active' = active \cup {n + 1}
  BY PrintAdds
<1>2. tries' = Put(tries, n + 1, 0)
  <2>1. Cardinality(Documents) = n
    BY <1>1, FS_Interval
  <2> QED
    BY <2>1 DEF PrintJob
<1>3. /\ UNCHANGED <<processing, failed, retry, prior, uploader, at, mishaps>>
      /\ mishaps \in Nat /\ (1 .. n) \cup {n + 1} = 1 .. (n + 1)
  BY DEF PrintJob, work, CountInv, CountTypes
<1>4. /\ tries' \in [Documents' -> Nat]
      /\ \A d \in Documents : tries'[d] = tries[d] /\ received'[d] = received[d]
      /\ received'[n + 1] = 0
  BY <1>1, <1>2, <1>3 DEF CountInv, CountTypes, CupsInv, Numbered, Put
<1>5. CountTypes'
  BY <1>3, <1>4 DEF CountInv, CountTypes
<1>6. /\ \A x \in DOMAIN incoming : incoming[x] \in Documents
      /\ \A x \in DOMAIN processing : processing[x] \in Documents
      /\ \A x \in DOMAIN failed : failed[x] \in Documents
  BY DEF CupsInv, Placed
<1>7. TriesFit'
  <2>1. uploader \in {"sidecar", "upload", "save_retry", "to_failed"} => at \in DOMAIN processing
    BY DEF CupsInv, Working
  <2> QED
    BY <1>3, <1>4, <1>6, <2>1 DEF CountInv, TriesFit
<1>8. ReceivedFits'
  <2>1. \A x \in DOMAIN incoming' : incoming'[x] = n + 1 \/ (x \in DOMAIN incoming /\ incoming'[x] = incoming[x])
    BY <1>1 DEF Put
  <2>2. \A d \in Documents' : d \in Documents \/ d = n + 1
    BY <1>1
  <2> QED
    BY <1>3, <1>4, <1>6, <2>1, <2>2 DEF CountInv, ReceivedFits
<1> QED
  BY <1>5, <1>7, <1>8 DEF CountInv

LEMMA TakeNewKeepsCounts ==
  ASSUME CupsInv, CountInv, TakeNew
  PROVE  CountInv'
<1> DEFINE n == Least(scan)
<1>1. n \in scan /\ n \in DOMAIN incoming
  <2>1. \A x \in DOMAIN incoming : x \in Nat
    BY DEF CupsInv, Placed, Numbered
  <2>2. scan \subseteq DOMAIN incoming /\ scan # {}
    BY DEF CupsInv, Working, TakeNew
  <2> QED
    BY <2>1, <2>2, LeastIsOne
<1>2. /\ uploader = "next" /\ uploader' = "sidecar" /\ at' = n /\ prior' = 0
      /\ processing' = Put(processing, n, incoming[n]) /\ incoming' = Without(incoming, n)
      /\ UNCHANGED <<job, failed, received, tries, retry, mishaps>>
  BY DEF TakeNew, To, remote, NoCupsd, cupsd
<1> HIDE DEF n
<1>3. /\ DOMAIN processing' = DOMAIN processing \cup {n}
      /\ processing'[n] = incoming[n]
      /\ \A x \in DOMAIN processing : x # n => processing'[x] = processing[x]
      /\ DOMAIN incoming' \subseteq DOMAIN incoming
      /\ \A x \in DOMAIN incoming' : incoming'[x] = incoming[x]
  BY <1>2 DEF Put, Without
<1>4. CountTypes' /\ Documents' = Documents
  BY <1>2 DEF CountInv, CountTypes, Documents
<1>5. incoming[n] \in Documents /\ tries[incoming[n]] \in Nat
  BY <1>1 DEF CupsInv, Placed, CountInv, CountTypes
<1>6. TriesFit'
  BY <1>2, <1>3, <1>5 DEF CountInv, TriesFit
<1>7. ReceivedFits'
  BY <1>1, <1>2, <1>3, <1>4 DEF CountInv, ReceivedFits, AfterUpload
<1> QED
  BY <1>4, <1>6, <1>7 DEF CountInv

LEMMA TakeRetryKeepsCounts ==
  ASSUME CupsInv, CountInv, TakeRetry
  PROVE  CountInv'
<1> DEFINE n == Least(scan)
<1>1. n \in DOMAIN processing /\ processing[n] \in Documents
  <2>1. \A x \in DOMAIN processing : x \in Nat
    BY DEF CupsInv, Placed, Numbered
  <2>2. scan \subseteq DOMAIN processing /\ scan # {}
    BY DEF CupsInv, Working, TakeRetry
  <2>3. n \in DOMAIN processing
    BY <2>1, <2>2, LeastIsOne
  <2> QED
    BY <2>3 DEF CupsInv, Placed
<1>2. /\ uploader = "next" /\ at' = n
      /\ \/ uploader' = "upload" /\ prior' = IF n \in DOMAIN retry THEN retry[n] ELSE 0
         \/ uploader' = "next" /\ prior' = prior
      /\ UNCHANGED <<job, incoming, processing, failed, received, tries, retry, mishaps>>
  BY DEF TakeRetry, To, outbox, remote, NoCupsd, cupsd
<1> HIDE DEF n
<1>3. CountTypes' /\ Documents' = Documents
  <2>1. prior' \in Nat
    BY <1>2 DEF CountInv, CountTypes
  <2> QED
    BY <1>2, <2>1 DEF CountInv, CountTypes, Documents
<1>4. tries[processing[n]] \in Nat
  BY <1>1 DEF CountInv, CountTypes
<1>5. TriesFit'
  <2> SUFFICES ASSUME mishaps' = 0 PROVE TriesFit'
    BY DEF TriesFit
  <2>1. /\ \A m \in DOMAIN retry \cap DOMAIN processing : retry[m] <= tries[processing[m]]
        /\ \A x \in DOMAIN failed : tries[failed[x]] >= RetryCount
    BY <1>2 DEF CountInv, TriesFit
  <2>2. uploader' = "upload" => prior' <= tries[processing[n]]
    BY <1>1, <1>2, <1>4, <2>1
  <2> QED
    BY <1>2, <2>1, <2>2 DEF TriesFit
<1>6. ReceivedFits'
  BY <1>2, <1>3 DEF CountInv, ReceivedFits, AfterUpload
<1> QED
  BY <1>3, <1>5, <1>6 DEF CountInv

LEMMA UploadKeepsCounts ==
  ASSUME CupsInv, CountInv, Upload
  PROVE  CountInv'
<1> DEFINE d == processing[at]
<1>1. PICK answer \in {"task_id", "login_page", "error", "lost"} :
        /\ uploader = "upload"
        /\ answer \in {"task_id", "lost"} => received' = [received EXCEPT ![d] = @ + 1]
        /\ answer \notin {"task_id", "lost"} => received' = received
        /\ answer = "task_id" => uploader' = "unlink_sidecar" /\ tries' = tries
        /\ answer # "task_id" => /\ tries' = [tries EXCEPT ![d] = @ + 1]
                                 /\ prior + 1 >= RetryCount => uploader' = "to_failed"
                                 /\ ~(prior + 1 >= RetryCount) => uploader' = "save_retry"
        /\ answer = "lost" => mishaps' = mishaps + 1
        /\ answer # "lost" => mishaps' = mishaps
  BY DEF Upload, Believed, To, Mishap, Exhausted
<1>2. UNCHANGED <<job, incoming, processing, failed, retry, prior, at>>
  BY DEF Upload, outbox, NoCupsd, cupsd
<1>3. at \in DOMAIN processing /\ d \in Documents
  BY <1>1 DEF CupsInv, Working, Placed
<1>a. mishaps \in Nat /\ prior \in Nat /\ RetryCount \in Nat
  BY RetryAssumption DEF CountInv, CountTypes
<1>4. received \in [Documents -> Nat] /\ tries \in [Documents -> Nat]
  BY DEF CupsInv, Numbered, CountInv, CountTypes
<1>5. /\ mishaps' \in Nat /\ mishaps' >= mishaps
      /\ answer = "lost" => mishaps' = mishaps + 1
  BY <1>1, <1>a
<1> HIDE DEF d
<1>6. /\ tries' \in [Documents -> Nat] /\ received' \in [Documents -> Nat]
      /\ \A e \in Documents : tries'[e] >= tries[e]
      /\ answer # "task_id" => tries'[d] = tries[d] + 1
      /\ \A e \in Documents : e # d => received'[e] = received[e]
      /\ received'[d] <= received[d] + 1
      /\ answer \notin {"task_id", "lost"} => received'[d] = received[d]
  <2>1. tries' \in [Documents -> Nat] /\ \A e \in Documents : tries'[e] >= tries[e]
    BY <1>1, <1>3, <1>4, <1>a
  <2>2. answer # "task_id" => tries'[d] = tries[d] + 1
    BY <1>1, <1>3, <1>4, <1>a
  <2>3. /\ received' \in [Documents -> Nat]
        /\ \A e \in Documents : e # d => received'[e] = received[e]
        /\ received'[d] <= received[d] + 1
        /\ answer \notin {"task_id", "lost"} => received'[d] = received[d]
    BY <1>1, <1>3, <1>4, <1>a
  <2> QED
    BY <2>1, <2>2, <2>3
<1>7. CountTypes' /\ Documents' = Documents
  BY <1>2, <1>5, <1>6 DEF CountInv, CountTypes, Documents
<1>8. TriesFit'
  <2> SUFFICES ASSUME mishaps' = 0 PROVE TriesFit'
    BY DEF TriesFit
  <2>1. mishaps = 0 /\ prior <= tries[d]
    BY <1>1, <1>4, <1>a, <1>5 DEF CountInv, TriesFit, d
  <2>2. uploader' = "save_retry" => prior + 1 <= tries'[d]
    BY <1>1, <1>3, <1>4, <1>a, <1>6, <2>1
  <2>3. uploader' = "to_failed" => tries'[d] >= RetryCount
    BY <1>1, <1>3, <1>4, <1>a, <1>6, <2>1
  <2>4. \A x \in DOMAIN failed : tries'[failed[x]] >= RetryCount
    <3>1. \A x \in DOMAIN failed : failed[x] \in Documents /\ tries[failed[x]] >= RetryCount
      BY <2>1 DEF CupsInv, Placed, CountInv, TriesFit
    <3> QED
      BY <1>4, <1>a, <1>6, <3>1
  <2>5. \A n \in DOMAIN retry \cap DOMAIN processing : at = n \/ retry[n] <= tries'[processing[n]]
    <3>1. \A n \in DOMAIN retry \cap DOMAIN processing :
            /\ retry[n] \in Nat /\ processing[n] \in Documents
            /\ at = n \/ retry[n] <= tries[processing[n]]
      BY <2>1 DEF CupsInv, Placed, CountInv, CountTypes, TriesFit
    <3> QED
      BY <1>4, <1>a, <1>6, <3>1
  <2>6. uploader' \in {"unlink_sidecar", "to_failed", "save_retry"}
    BY <1>1
  <2> QED
    BY <1>2, <2>2, <2>3, <2>4, <2>5, <2>6 DEF TriesFit, d
<1>9. ReceivedFits'
  <2>1. /\ received[d] <= mishaps
        /\ \A e \in Documents : received[e] <= 1 + mishaps /\ received[e] \in Nat
        /\ \A x \in DOMAIN incoming : received[incoming[x]] <= mishaps /\ incoming[x] \in Documents
        /\ \A x \in DOMAIN processing :
             received[processing[x]] <= mishaps /\ processing[x] \in Documents
    BY <1>1, <1>3, <1>4 DEF CupsInv, Placed, CountInv, ReceivedFits, AfterUpload, d
  <2>2. \A e \in Documents : received'[e] <= 1 + mishaps'
    BY <1>4, <1>a, <1>5, <1>6, <2>1
  <2>3. d \notin Values(incoming)
    <3>1. \A x \in DOMAIN incoming \cap DOMAIN processing : processing[x] < incoming[x]
      BY DEF CupsInv, Placed
    <3>2. \A x \in DOMAIN incoming : incoming[x] = d => x = at
      BY <1>3 DEF CupsInv, Placed, d
    <3>3. d \in Nat
      BY <1>3, DocumentsCount
    <3> QED
      BY <1>3, <3>1, <3>2, <3>3 DEF Values, d
  <2>4. \A x \in DOMAIN incoming : received'[incoming[x]] <= mishaps'
    BY <1>4, <1>a, <1>5, <1>6, <2>1, <2>3 DEF Values
  <2>5. answer = "task_id" => uploader' \in AfterUpload
    BY <1>1 DEF AfterUpload
  <2>6. \A x \in DOMAIN processing : processing[x] = d => x = at
    BY <1>3 DEF CupsInv, Placed, d
  <2>7. received'[d] <= mishaps' \/ answer = "task_id"
    BY <1>3, <1>4, <1>a, <1>5, <1>6, <2>1
  <2>8. \A x \in DOMAIN processing :
          received'[processing[x]] <= mishaps' \/ (uploader' \in AfterUpload /\ at = x)
    BY <1>4, <1>a, <1>5, <1>6, <2>1, <2>5, <2>6, <2>7
  <2> QED
    BY <1>2, <1>7, <2>2, <2>4, <2>8 DEF ReceivedFits
<1> QED
  BY <1>7, <1>8, <1>9 DEF CountInv

LEMMA RouteKeepsCounts ==
  ASSUME CupsInv, CountInv, Route
  PROVE  CountInv'
<1>1. UNCHANGED <<job, incoming, at, prior, received, tries, mishaps>> /\ Documents' = Documents
  <2>1. UNCHANGED <<job, at, prior, received, tries, mishaps>>
    BY DEF Route, remote, NoCupsd, cupsd
  <2>2. incoming' = incoming
    BY DEF Route, UnlinkSidecar, UnlinkRetry, ToSent, ToFailed, SidecarToFailed, SaveRetry
  <2> QED
    BY <2>1, <2>2 DEF Documents
<1>2. CountTypes /\ TriesFit /\ ReceivedFits
  BY DEF CountInv
<1>3. uploader \notin {"next", "sidecar_to_failed", "given_up"} =>
        at \in DOMAIN processing /\ processing[at] \in Documents
  BY DEF CupsInv, Working, Placed
<1>4. CASE UnlinkSidecar
  <2>1. /\ uploader = "unlink_sidecar" /\ uploader' = "unlink_retry"
        /\ UNCHANGED <<processing, retry, failed>>
    BY <1>4 DEF UnlinkSidecar, To
  <2> QED
    BY <1>1, <1>2, <2>1 DEF CountInv, CountTypes, TriesFit, ReceivedFits, AfterUpload
<1>5. CASE UnlinkRetry
  <2>1. /\ \/ uploader = "unlink_retry" /\ uploader' = "to_sent"
           \/ uploader = "given_up" /\ uploader' = "next"
        /\ UNCHANGED <<processing, failed>> /\ retry' = Without(retry, at)
    BY <1>5 DEF UnlinkRetry, To
  <2>2. /\ DOMAIN retry' = DOMAIN retry \ {at} /\ retry' \in [DOMAIN retry' -> Nat]
        /\ \A n \in DOMAIN retry' : retry'[n] = retry[n]
    BY <1>2, <2>1 DEF Without, CountTypes
  <2>3. CountTypes'
    BY <1>1, <1>2, <2>2 DEF CountTypes
  <2>4. TriesFit'
    BY <1>1, <1>2, <2>1, <2>2 DEF TriesFit
  <2>5. ReceivedFits'
    BY <1>1, <1>2, <2>1 DEF ReceivedFits, AfterUpload
  <2> QED
    BY <2>3, <2>4, <2>5 DEF CountInv
<1>6. CASE ToSent
  <2>1. /\ uploader = "to_sent" /\ uploader' = "next"
        /\ UNCHANGED <<retry, failed>> /\ processing' = Without(processing, at)
    BY <1>6 DEF ToSent, To
  <2>2. /\ DOMAIN processing' = DOMAIN processing \ {at}
        /\ \A n \in DOMAIN processing' : processing'[n] = processing[n]
    BY <2>1 DEF Without
  <2>3. CountTypes'
    BY <1>1, <1>2, <2>1 DEF CountTypes
  <2>4. TriesFit'
    BY <1>1, <1>2, <2>1, <2>2 DEF TriesFit
  <2>5. ReceivedFits'
    BY <1>1, <1>2, <2>1, <2>2 DEF ReceivedFits, AfterUpload
  <2> QED
    BY <2>3, <2>4, <2>5 DEF CountInv
<1>7. CASE ToFailed
  <2>1. /\ uploader = "to_failed" /\ uploader' = "sidecar_to_failed" /\ retry' = retry
        /\ processing' = Without(processing, at)
        /\ failed' = Put(failed, UniqueDestination(failed, at, processing[at]), processing[at])
    BY <1>7 DEF ToFailed, To
  <2>2. /\ DOMAIN processing' = DOMAIN processing \ {at}
        /\ \A n \in DOMAIN processing' : processing'[n] = processing[n]
        /\ \A x \in DOMAIN failed' :
             failed'[x] = processing[at] \/ (x \in DOMAIN failed /\ failed'[x] = failed[x])
    BY <2>1 DEF Without, Put
  <2>3. CountTypes'
    BY <1>1, <1>2, <2>1 DEF CountTypes
  <2>4. TriesFit'
    BY <1>1, <1>2, <2>1, <2>2 DEF TriesFit
  <2>5. ReceivedFits'
    BY <1>1, <1>2, <2>1, <2>2 DEF ReceivedFits, AfterUpload
  <2> QED
    BY <2>3, <2>4, <2>5 DEF CountInv
<1>8. CASE SidecarToFailed
  <2>1. /\ uploader = "sidecar_to_failed" /\ uploader' = "given_up"
        /\ UNCHANGED <<processing, retry, failed>>
    BY <1>8 DEF SidecarToFailed, To
  <2> QED
    BY <1>1, <1>2, <2>1 DEF CountInv, CountTypes, TriesFit, ReceivedFits, AfterUpload
<1>9. CASE SaveRetry
  <2>1. /\ uploader = "save_retry" /\ uploader' = "next" /\ retry' = Put(retry, at, prior + 1)
        /\ UNCHANGED <<processing, failed>>
    BY <1>9 DEF SaveRetry, To
  <2>2. /\ DOMAIN retry' = DOMAIN retry \cup {at} /\ retry'[at] = prior + 1
        /\ \A n \in DOMAIN retry : n # at => retry'[n] = retry[n]
    BY <2>1 DEF Put
  <2>3. retry' \in [DOMAIN retry' -> Nat]
    BY <1>2, <2>1 DEF Put, CountTypes
  <2>4. CountTypes'
    BY <1>1, <1>2, <2>3 DEF CountTypes
  <2>5. TriesFit'
    BY <1>1, <1>2, <2>1, <2>2 DEF TriesFit
  <2>6. ReceivedFits'
    BY <1>1, <1>2, <2>1 DEF ReceivedFits, AfterUpload
  <2> QED
    BY <2>4, <2>5, <2>6 DEF CountInv
<1> QED
  BY <1>4, <1>5, <1>6, <1>7, <1>8, <1>9 DEF Route

LEMMA CountStep == CupsInv /\ CountInv /\ [CupsNext]_cupsVars => CountInv'
<1> SUFFICES ASSUME CupsInv, CountInv, [CupsNext]_cupsVars PROVE CountInv'
  OBVIOUS
<1>1. CASE PrintJob
  BY <1>1, PrintKeepsCounts
<1>2. CASE TakeNew
  BY <1>2, TakeNewKeepsCounts
<1>3. CASE TakeRetry
  BY <1>3, TakeRetryKeepsCounts
<1>4. CASE Upload
  BY <1>4, UploadKeepsCounts
<1>5. CASE Route
  BY <1>5, RouteKeepsCounts
<1>6. CASE Restart
  <2>1. /\ Mishap /\ uploader' = "next" /\ prior' = 0
        /\ UNCHANGED <<job, incoming, processing, failed, received, tries, retry>>
    BY <1>6 DEF Restart, outbox, remote
  <2> QED
    BY <2>1, MishapKeepsCounts
<1>7. CASE FileError
  <2>1. /\ Mishap /\ uploader' = "next" /\ prior' = prior
        /\ UNCHANGED <<job, incoming, processing, failed, received, tries, retry>>
    BY <1>7 DEF FileError, To, outbox, remote, NoCupsd, cupsd
  <2> QED
    BY <2>1, MishapKeepsCounts DEF CountInv, CountTypes
<1>8. CASE TakeSidecar
  <2>1. /\ uploader = "sidecar" /\ uploader' = "upload"
        /\ UNCHANGED <<job, incoming, processing, failed, received, tries, retry, prior, at, mishaps>>
    BY <1>8 DEF TakeSidecar, To, remote, NoCupsd, cupsd
  <2> QED
    BY <2>1 DEF CountInv, CountTypes, TriesFit, ReceivedFits, AfterUpload, Documents
<1>9. CASE PostProcess \/ Complete \/ ScanIncoming \/ ScanRetries \/ PollEnds \/ UNCHANGED cupsVars
  <2>1. UNCHANGED Counted /\ mishaps' = mishaps
    <3>1. CASE PostProcess \/ Complete
      BY <3>1 DEF PostProcess, Complete, Counted, cupsd, outbox, work, remote
    <3>2. CASE ScanIncoming \/ ScanRetries \/ PollEnds
      BY <3>2 DEF ScanIncoming, ScanRetries, PollEnds, NoCupsd, Counted, cupsd, outbox, work, remote
    <3>3. CASE UNCHANGED cupsVars
      BY <3>3 DEF cupsVars, Counted, cupsd, outbox, work, remote
    <3> QED
      BY <1>9, <3>1, <3>2, <3>3
  <2> QED
    BY <2>1, QuietKeepsCounts
<1>10. CASE Poller
  <2>1. UNCHANGED Counted /\ (mishaps' = mishaps \/ Mishap)
    BY <1>10 DEF Poller, EstablishBaseline, Query, AppendHistory, SaveLastSeen, PollFails, NoOutbox,
                 Counted, cupsd, outbox, work, remote
  <2> QED
    BY <2>1, QuietKeepsCounts
<1> QED
  BY <1>1, <1>2, <1>3, <1>4, <1>5, <1>6, <1>7, <1>8, <1>9, <1>10 DEF CupsNext, Uploader

-----------------------------------------------------------------------------
(* The records of the history poller                                       *)

\* Every later id is above it.
Mark == IF poller = "append" THEN newest ELSE seenFile

PollerTypes ==
  /\ mishaps \in Nat /\ history \in [Documents -> Nat]
  /\ lastSeen = seenFile
  /\ \/ poller = "baseline" /\ seenFile = None /\ inOrder = {}
     \/ poller \in {"poll", "append"} /\ seenFile \in Nat
  /\ poller = "append" => newest \in Nat /\ newest > seenFile
  /\ inOrder \subseteq completed

\* While it appends, what it owes is in its list, recorded, or beyond the id it saves.
Listed ==
  poller = "append" =>
    /\ found \subseteq completed /\ \A d \in found : job[d] <= newest /\ history[d] <= mishaps
    /\ \E e \in completed : job[e] = newest
    /\ \A d \in inOrder : history[d] > 0 \/ d \in found \/ newest < job[d]

\* A job that a later query may list has a line per mishap at the most.
Unlisted ==
  \A d \in active \cup completed :
    poller = "baseline" \/ Mark < job[d] => history[d] <= mishaps

PollerInv == PollerTypes /\ Listed /\ Unlisted /\ HistoryCatchesUp

Recorded == <<job, active, completed, records>>

LEMMA RecordsInitially == CupsInit => PollerInv
<1> SUFFICES ASSUME CupsInit PROVE PollerInv
  OBVIOUS
<1>1. PollerTypes
  BY DEF CupsInit, PollerTypes, Empty, Documents
<1>2. Listed /\ Unlisted /\ HistoryCatchesUp
  BY DEF CupsInit, Listed, Unlisted, HistoryCatchesUp, Empty, Documents
<1> QED
  BY <1>1, <1>2 DEF PollerInv

\* The ids of the known jobs.
LEMMA JobIds ==
  ASSUME CupsInv
  PROVE  /\ \A d \in Documents : job[d] \in Nat
         /\ active \subseteq Documents /\ completed \subseteq Documents
         /\ \E n \in Nat : \A d \in Documents : job[d] \in 0 .. n
<1>1. PICK n \in Nat : Documents = 1 .. n /\ job \in [1 .. n -> 1 .. n]
  BY DEF CupsInv, Numbered
<1>2. \A d \in Documents : job[d] \in 0 .. n
  BY <1>1
<1>3. \A d \in Documents : job[d] \in Nat
  BY <1>2
<1> QED
  BY <1>2, <1>3 DEF CupsInv, Numbered

LEMMA WorkerKeepsRecords ==
  ASSUME CupsInv, PollerInv, UNCHANGED Recorded, mishaps' = mishaps \/ Mishap
  PROVE  PollerInv'
<1>1. UNCHANGED <<job, active, completed, poller, lastSeen, seenFile, newest, found, history, inOrder>>
  BY DEF Recorded, records
<1>2. mishaps' \in Nat /\ mishaps' >= mishaps /\ Documents' = Documents /\ Mark' = Mark
  BY <1>1 DEF PollerInv, PollerTypes, Mishap, Documents, Mark
<1>3. PollerTypes'
  BY <1>1, <1>2 DEF PollerInv, PollerTypes
<1>4. /\ \A d \in Documents : history[d] \in Nat /\ history[d] <= 1 + mishaps
      /\ active \subseteq Documents /\ completed \subseteq Documents /\ mishaps \in Nat
  BY JobIds DEF PollerInv, PollerTypes, HistoryCatchesUp
<1>5. Listed'
  <2>1. Listed
    BY DEF PollerInv
  <2>2. poller = "append" => \A d \in found : history[d] <= mishaps'
    BY <1>2, <1>4, <2>1 DEF Listed
  <2> QED
    BY <1>1, <2>1, <2>2 DEF Listed
<1>6. Unlisted'
  <2>1. \A d \in active \cup completed : history[d] <= mishaps => history[d] <= mishaps'
    BY <1>2, <1>4
  <2> QED
    BY <1>1, <1>2, <2>1 DEF PollerInv, Unlisted
<1>7. HistoryCatchesUp'
  <2>1. \A d \in Documents : history[d] <= 1 + mishaps'
    BY <1>2, <1>4
  <2> QED
    BY <1>1, <1>2, <2>1 DEF PollerInv, HistoryCatchesUp
<1> QED
  BY <1>3, <1>5, <1>6, <1>7 DEF PollerInv

LEMMA PrintKeepsRecords ==
  ASSUME CupsInv, PollerInv, PrintJob
  PROVE  PollerInv'
<1>1. PICK n \in Nat :
        /\ Documents = 1 .. n /\ Documents' = 1 .. (n + 1)
        /\ LastJob + 1 \in 1 .. (n + 1)
        /\ job' = Put(job, n + 1, LastJob + 1) /\ job' \in [1 .. (n + 1) -> 1 .. (n + 1)]
        /\ incoming' = Put(incoming, LastJob + 1, n + 1)
        /\ received' = Put(received, n + 1, 0) /\ active' = active \cup {n + 1}
  BY PrintAdds
<1>2. history' = Put(history, n + 1, 0)
  <2>1. Cardinality(Documents) = n
    BY <1>1, FS_Interval
  <2> QED
    BY <2>1 DEF PrintJob
<1>3. /\ UNCHANGED <<completed, poller, lastSeen, seenFile, newest, found, inOrder, mishaps>>
      /\ (1 .. n) \cup {n + 1} = 1 .. (n + 1) /\ n + 1 \notin Documents
  BY <1>1 DEF PrintJob
<1>4. PollerTypes /\ Listed /\ Unlisted /\ HistoryCatchesUp
  BY DEF PollerInv
<1>5. /\ \A d \in Documents : job'[d] = job[d] /\ history'[d] = history[d]
      /\ history'[n + 1] = 0
      /\ history' \in [Documents' -> Nat]
  BY <1>1, <1>2, <1>3, <1>4 DEF PollerTypes, Put, Documents
<1>6. /\ active \subseteq Documents /\ completed \subseteq Documents
      /\ poller = "append" => found \subseteq Documents
      /\ inOrder \subseteq Documents
  BY <1>4, JobIds DEF Listed, PollerTypes
<1>7. PollerTypes' /\ mishaps \in Nat /\ Mark' = Mark
  BY <1>3, <1>4, <1>5 DEF PollerTypes, Mark
<1>8. Listed'
  BY <1>3, <1>4, <1>5, <1>6 DEF Listed
<1>9. Unlisted'
  <2>1. \A d \in active' \cup completed' : d = n + 1 \/ d \in active \cup completed
    BY <1>1, <1>3
  <2>2. history'[n + 1] <= mishaps
    BY <1>5, <1>7
  <2> QED
    BY <1>3, <1>4, <1>5, <1>6, <1>7, <2>1, <2>2 DEF Unlisted
<1>10. HistoryCatchesUp'
  <2>1. \A d \in Documents' : d = n + 1 \/ d \in Documents
    BY <1>1
  <2>2. 0 <= 1 + mishaps
    BY <1>7
  <2> QED
    BY <1>3, <1>4, <1>5, <1>6, <2>1, <2>2 DEF HistoryCatchesUp
<1> QED
  BY <1>7, <1>8, <1>9, <1>10 DEF PollerInv

LEMMA CompleteKeepsRecords ==
  ASSUME CupsInv, PollerInv, Complete
  PROVE  PollerInv'
<1>1. PICK d \in active :
        /\ active' = active \ {d} /\ completed' = completed \cup {d}
        /\ inOrder' = IF /\ seenFile # None /\ job[d] > seenFile
                         /\ \A e \in completed : job[e] < job[d]
                      THEN inOrder \cup {d} ELSE inOrder
  BY DEF Complete
<1>2. /\ UNCHANGED <<job, poller, lastSeen, seenFile, newest, found, history, mishaps>>
      /\ Documents' = Documents /\ Mark' = Mark
  BY DEF Complete, Documents, Mark
<1>3. PollerTypes /\ Listed /\ Unlisted /\ HistoryCatchesUp
  BY DEF PollerInv
<1>4. PollerTypes'
  BY <1>1, <1>2, <1>3, NoneAssumption DEF PollerTypes
<1>5. Listed'
  <2> SUFFICES ASSUME poller = "append" PROVE Listed'
    BY <1>2 DEF Listed
  <2>1. PICK e \in completed : job[e] = newest
    BY <1>3 DEF Listed
  <2>2. \A c \in inOrder' : history[c] > 0 \/ c \in found \/ newest < job[c]
    BY <1>1, <1>3, <2>1 DEF Listed
  <2> QED
    BY <1>1, <1>2, <1>3, <2>1, <2>2 DEF Listed
<1>6. Unlisted'
  BY <1>1, <1>2, <1>3 DEF Unlisted
<1>7. HistoryCatchesUp'
  <2>1. \A c \in inOrder' : c \in inOrder \/ seenFile < job[c]
    <3>1. d \in inOrder' => d \in inOrder \/ (job[d] > seenFile /\ seenFile # None)
      BY <1>1
    <3>2. seenFile # None => seenFile \in Nat
      BY <1>3 DEF PollerTypes
    <3>3. job[d] \in Nat
      BY JobIds
    <3>4. d \in inOrder' => d \in inOrder \/ seenFile < job[d]
      BY <3>1, <3>2, <3>3
    <3> QED
      BY <1>1, <3>4
  <2> QED
    BY <1>2, <1>3, <2>1 DEF HistoryCatchesUp
<1> QED
  BY <1>4, <1>5, <1>6, <1>7 DEF PollerInv

LEMMA RestartKeepsRecords ==
  ASSUME CupsInv, PollerInv, Restart
  PROVE  PollerInv'
<1>1. /\ active' = {} /\ completed' = {} /\ inOrder' = {} /\ lastSeen' = seenFile
      /\ poller' = (IF seenFile = None THEN "baseline" ELSE "poll")
      /\ UNCHANGED <<job, seenFile, history>> /\ mishaps' = mishaps + 1
      /\ Documents' = Documents
  BY DEF Restart, FirstPoll, Mishap, cupsd, Documents
<1>2. PollerTypes /\ HistoryCatchesUp
  BY DEF PollerInv
<1>3. PollerTypes'
  BY <1>1, <1>2, NoneAssumption DEF PollerTypes
<1>4. Listed' /\ Unlisted'
  BY <1>1 DEF Listed, Unlisted
<1>5. HistoryCatchesUp'
  <2>1. \A d \in Documents : history[d] <= 1 + mishaps'
    BY <1>1, <1>2 DEF HistoryCatchesUp, PollerTypes
  <2> QED
    BY <1>1, <2>1 DEF HistoryCatchesUp
<1> QED
  BY <1>3, <1>4, <1>5 DEF PollerInv

LEMMA PollerKeepsRecords ==
  ASSUME CupsInv, PollerInv, Poller
  PROVE  PollerInv'
<1>0. /\ PollerTypes /\ Listed /\ Unlisted /\ HistoryCatchesUp
      /\ mishaps \in Nat
      /\ \A d \in Documents : job[d] \in Nat /\ history[d] \in Nat
      /\ active \subseteq Documents /\ completed \subseteq Documents
  BY JobIds DEF PollerInv, PollerTypes
<1>1. UNCHANGED <<job, active, completed, inOrder>> /\ Documents' = Documents
  BY DEF Poller, EstablishBaseline, Query, AppendHistory, SaveLastSeen, PollFails, NoOutbox, cupsd,
         Documents
<1>2. CASE EstablishBaseline
  <2> DEFINE id == Greatest({job[d] : d \in completed} \cup {0})
  <2>1. /\ poller = "baseline" /\ lastSeen' = id /\ seenFile' = id /\ poller' = "poll"
        /\ UNCHANGED <<history, mishaps>>
    BY <1>2 DEF EstablishBaseline
  <2>2. id \in Nat
    <3> DEFINE ids == {job[d] : d \in completed} \cup {0}
    <3>1. PICK n \in Nat : \A d \in Documents : job[d] \in 0 .. n
      BY JobIds
    <3>2. ids \in SUBSET (0 .. n) /\ ids # {}
      BY <1>0, <3>1
    <3>3. Greatest(ids) \in ids
      BY <3>2, GreatestIsOne
    <3> QED
      BY <3>2, <3>3
  <2> HIDE DEF id
  <2>3. inOrder = {} /\ PollerTypes'
    BY <1>0, <1>1, <2>1, <2>2, NoneAssumption DEF PollerTypes
  <2>4. Listed' /\ Unlisted' /\ HistoryCatchesUp'
    BY <1>0, <1>1, <2>1, <2>3 DEF Listed, Unlisted, HistoryCatchesUp
  <2> QED
    BY <2>3, <2>4 DEF PollerInv
<1>3. CASE Query
  <2>1. /\ poller = "poll" /\ poller' = "append" /\ NewJobs # {} /\ found' = NewJobs
        /\ newest' = Greatest({job[d] : d \in NewJobs})
        /\ UNCHANGED <<lastSeen, seenFile, history, mishaps>>
    BY <1>3 DEF Query
  <2>2. /\ seenFile \in Nat /\ lastSeen = seenFile
        /\ NewJobs = {d \in completed : job[d] > seenFile}
    BY <1>0, <2>1 DEF PollerTypes, NewJobs
  <2>3. \E e \in NewJobs : job[e] = newest' /\ \A d \in NewJobs : job[d] <= newest'
    <3> DEFINE ids == {job[d] : d \in NewJobs}
    <3>1. PICK n \in Nat : \A d \in Documents : job[d] \in 0 .. n
      BY JobIds
    <3>2. ids \in SUBSET (0 .. n) /\ ids # {}
      BY <1>0, <2>1, <2>2, <3>1
    <3>3. Greatest(ids) \in ids /\ \A y \in ids : Greatest(ids) >= y
      BY <3>2, GreatestIsOne
    <3>4. newest' = Greatest(ids)
      BY <2>1
    <3>5. \A d \in NewJobs : job[d] \in ids
      OBVIOUS
    <3>6. \A y \in ids : y \in Nat
      BY <3>2
    <3>7. \A d \in NewJobs : newest' >= job[d]
      BY <3>3, <3>4, <3>5
    <3>8. PICK e \in NewJobs : job[e] = newest'
      BY <3>3, <3>4
    <3>9. \A d \in NewJobs : job[d] \in Nat
      BY <1>0, <2>2
    <3> HIDE DEF ids
    <3>10. \A d \in NewJobs : job[d] <= newest'
      BY <3>7, <3>8, <3>9
    <3> QED
      BY <3>8, <3>10
  <2>4. PICK e \in NewJobs : job[e] = newest' /\ \A d \in NewJobs : job[d] <= newest'
    BY <2>3
  <2>5. newest' \in Nat /\ newest' > seenFile /\ e \in completed
    BY <1>0, <2>2, <2>4
  <2>6. PollerTypes'
    BY <1>0, <1>1, <2>1, <2>5 DEF PollerTypes
  <2>7. \A d \in NewJobs : history[d] <= mishaps
    BY <1>0, <2>1, <2>2 DEF Unlisted, Mark
  <2>8. \A d \in inOrder : history[d] > 0 \/ d \in NewJobs
    BY <1>0, <2>2 DEF HistoryCatchesUp, PollerTypes
  <2>9. Listed'
    BY <1>1, <2>1, <2>2, <2>4, <2>5, <2>7, <2>8 DEF Listed
  <2>10. Unlisted'
    <3>1. \A d \in active \cup completed : newest' < job[d] => seenFile < job[d]
      BY <1>0, <2>2, <2>5
    <3> QED
      BY <1>0, <1>1, <2>1, <3>1 DEF Unlisted, Mark
  <2>11. HistoryCatchesUp'
    BY <1>0, <1>1, <2>1 DEF HistoryCatchesUp
  <2> QED
    BY <2>6, <2>9, <2>10, <2>11 DEF PollerInv
<1>4. CASE AppendHistory
  <2>1. poller = "append" /\ UNCHANGED <<poller, newest, lastSeen, seenFile, mishaps>>
    BY <1>4 DEF AppendHistory
  <2>2. PICK d \in found : history' = [history EXCEPT ![d] = @ + 1] /\ found' = found \ {d}
    BY <1>4 DEF AppendHistory
  <2>3. /\ d \in completed /\ d \in Documents /\ job[d] <= newest /\ history[d] <= mishaps
        /\ newest \in Nat
    BY <1>0, <2>1 DEF Listed, PollerTypes
  <2>4. /\ history' \in [Documents -> Nat] /\ history'[d] = history[d] + 1
        /\ \A e \in Documents : e # d => history'[e] = history[e]
    BY <1>0, <2>2, <2>3 DEF PollerTypes
  <2>5. PollerTypes' /\ Mark' = newest /\ Mark = newest
    BY <1>0, <1>1, <2>1, <2>4 DEF PollerTypes, Mark
  <2>6. Listed'
    <3>1. \A e \in found' : e # d /\ e \in found /\ e \in Documents
      BY <1>0, <2>1, <2>2 DEF Listed
    <3>2. \A e \in inOrder : history'[e] > 0 \/ e \in found' \/ newest < job[e]
      <4> SUFFICES ASSUME NEW e \in inOrder
                   PROVE  history'[e] > 0 \/ e \in found' \/ newest < job[e]
        OBVIOUS
      <4>1. e \in Documents /\ (history[e] > 0 \/ e \in found \/ newest < job[e])
        BY <1>0, <2>1 DEF Listed, PollerTypes
      <4>2. history'[d] > 0
        BY <1>0, <2>3, <2>4
      <4> QED
        BY <2>2, <2>4, <4>1, <4>2
    <3> QED
      BY <1>0, <1>1, <2>1, <2>4, <3>1, <3>2 DEF Listed
  <2>7. Unlisted'
    <3>1. ~(newest < job[d])
      BY <1>0, <2>3
    <3> QED
      BY <1>0, <1>1, <2>1, <2>4, <2>5, <3>1 DEF Unlisted
  <2>8. HistoryCatchesUp'
    <3>1. \A e \in Documents : history'[e] >= history[e] /\ history'[e] \in Nat
      BY <1>0, <2>3, <2>4
    <3>2. \A e \in Documents : history'[e] <= 1 + mishaps
      <4>1. history'[d] <= 1 + mishaps
        BY <1>0, <2>3, <2>4
      <4> QED
        BY <1>0, <2>4, <4>1 DEF HistoryCatchesUp
    <3>3. \A e \in inOrder : e \in Documents
      BY <1>0 DEF PollerTypes
    <3>4. \A e \in inOrder : history'[e] > 0 \/ seenFile < job[e]
      BY <1>0, <3>1, <3>3 DEF HistoryCatchesUp
    <3> QED
      BY <1>1, <2>1, <3>2, <3>4 DEF HistoryCatchesUp
  <2> QED
    BY <2>5, <2>6, <2>7, <2>8 DEF PollerInv
<1>5. CASE SaveLastSeen
  <2>1. /\ poller = "append" /\ poller' = "poll" /\ found = {}
        /\ seenFile' = newest /\ lastSeen' = newest /\ UNCHANGED <<history, mishaps>>
    BY <1>5 DEF SaveLastSeen
  <2>2. PollerTypes' /\ Mark' = newest /\ Mark = newest
    BY <1>0, <1>1, <2>1 DEF PollerTypes, Mark
  <2>3. Listed' /\ Unlisted' /\ HistoryCatchesUp'
    BY <1>0, <1>1, <2>1, <2>2 DEF Listed, Unlisted, HistoryCatchesUp
  <2> QED
    BY <2>2, <2>3 DEF PollerInv
<1>6. CASE PollFails
  <2>1. /\ poller = "append" /\ poller' = "poll" /\ mishaps' = mishaps + 1
        /\ UNCHANGED <<lastSeen, seenFile, history>>
    BY <1>6 DEF PollFails, Mishap
  <2>2. PollerTypes'
    BY <1>0, <1>1, <2>1 DEF PollerTypes
  <2>3. \A d \in Documents : history[d] <= mishaps' /\ history[d] <= 1 + mishaps'
    BY <1>0, <2>1 DEF HistoryCatchesUp
  <2>4. Listed' /\ Unlisted' /\ HistoryCatchesUp'
    <3>1. Listed'
      BY <2>1 DEF Listed
    <3>2. Unlisted'
      BY <1>0, <1>1, <2>1, <2>3 DEF Unlisted
    <3>3. HistoryCatchesUp'
      BY <1>0, <1>1, <2>1, <2>3 DEF HistoryCatchesUp
    <3> QED
      BY <3>1, <3>2, <3>3
  <2> QED
    BY <2>2, <2>4 DEF PollerInv
<1> QED
  BY <1>2, <1>3, <1>4, <1>5, <1>6 DEF Poller

LEMMA RecordStep == CupsInv /\ PollerInv /\ [CupsNext]_cupsVars => PollerInv'
<1> SUFFICES ASSUME CupsInv, PollerInv, [CupsNext]_cupsVars PROVE PollerInv'
  OBVIOUS
<1>1. CASE PrintJob
  BY <1>1, PrintKeepsRecords
<1>2. CASE Complete
  BY <1>2, CompleteKeepsRecords
<1>3. CASE Restart
  BY <1>3, RestartKeepsRecords
<1>4. CASE Poller
  BY <1>4, PollerKeepsRecords
<1>5. CASE Uploader \/ PostProcess \/ UNCHANGED cupsVars
  <2>1. UNCHANGED Recorded /\ (mishaps' = mishaps \/ Mishap)
    <3>1. CASE ScanIncoming \/ ScanRetries \/ PollEnds \/ TakeNew \/ TakeSidecar \/ TakeRetry
      BY <3>1 DEF ScanIncoming, ScanRetries, PollEnds, TakeNew, TakeSidecar, TakeRetry, NoCupsd,
                  Recorded, cupsd
    <3>2. CASE Upload
      BY <3>2 DEF Upload, NoCupsd, Recorded, cupsd
    <3>3. CASE Route \/ FileError
      BY <3>3 DEF Route, FileError, NoCupsd, Recorded, cupsd
    <3>4. CASE PostProcess \/ UNCHANGED cupsVars
      BY <3>4 DEF PostProcess, cupsVars, Recorded, cupsd
    <3> QED
      BY <1>5, <3>1, <3>2, <3>3, <3>4 DEF Uploader
  <2> QED
    BY <2>1, WorkerKeepsRecords
<1> QED
  BY <1>1, <1>2, <1>3, <1>4, <1>5 DEF CupsNext

\* Through restarts, lost answers and file operations that raise, each retry file
\* counts the attempts of its document, and each line of the history one completion.
THEOREM CupsCountInvariant == CupsSpec => [](CountInv /\ PollerInv)
<1>1. CupsInit => CupsInv /\ CountInv /\ PollerInv
  BY InitCupsInv, CountsInitially, RecordsInitially
<1>2. CupsInv /\ CountInv /\ PollerInv /\ [CupsNext]_cupsVars
      => (CupsInv /\ CountInv /\ PollerInv)'
  BY CupsStep, CountStep, RecordStep
<1> QED
  BY <1>1, <1>2, PTL DEF CupsSpec

\* upload-worker.py gives a document up only after retry_count attempts and delivers it
\* again only after a mishap; print-history-poller.py remembers no id before the lines up
\* to it are written, and repeats a line only after a mishap.
THEOREM CupsCounts == CupsSpec => [](AttemptsCounted /\ HistoryCatchesUp)
<1>1. CountInv /\ PollerInv => AttemptsCounted /\ HistoryCatchesUp
  <2> SUFFICES ASSUME CountInv, PollerInv PROVE AttemptsCounted
    BY DEF PollerInv
  <2>1. mishaps \in Nat
    BY DEF CountInv, CountTypes
  <2> QED
    BY <2>1 DEF CountInv, TriesFit, ReceivedFits, AttemptsCounted
<1> QED
  BY <1>1, CupsCountInvariant, PTL

-----------------------------------------------------------------------------
(* The start of the add-on                                                 *)

InContainer == bootStep \notin {"off", "generate"}

\* What cupsd.conf says where the network of the start is known.
Admits(set, net) ==
  /\ set \ {Tailnet} = {Subnet(net.address)}
  /\ Tailnet \in set <=> net.tailscale

Scope(c, net) == c.listen = net.address /\ c.root = c.admin /\ Admits(c.root, net)

ConfInv ==
  /\ bootOptions \in CupsOptions /\ network \in Networks
  /\ stock \in {None, StockConf}
  /\ stock = None => cupsdConf = StockConf
  /\ ~InContainer => cupsdUp = FALSE
  /\ InContainer => bootSeen \in Networks /\ (Detected(bootSeen) => Scope(cupsdConf, bootSeen))

TakenNames == {e.name : e \in registered}

QueueInv ==
  /\ \E n \in Nat : DOMAIN registerSh \subseteq 1 .. n
  /\ bootStep \in {"off", "generate", "provision", "start"} => registered = {}
  /\ TakenNames \subseteq NamesOf(registerSh)
  /\ InContainer /\ NamesOf(registerSh) # {} => fixupSh = NamesOf(registerSh) /\ fixupSh # None
  /\ \A e \in registered :
       /\ e.name \in DOMAIN printers
       /\ \E f \in registered : f.name = e.name /\ f.uri = printers[e.name].uri
  /\ bootStep \in {"start_again", "serving"} =>
       \A e \in registered : printers[e.name].uuid = "derived"

BootInv == ConfInv /\ QueueInv

LEMMA PlacesAreFinite ==
  ASSUME NEW opts \in CupsOptions
  PROVE  \E n \in Nat : DOMAIN Registration(opts) \subseteq 1 .. n
<1> DEFINE n == Len(opts.printers)
<1>1. n \in Nat /\ DOMAIN opts.printers = 1 .. n
  BY BootAssumption
<1>2. AcceptedAt(opts) \subseteq 1 .. n
  BY <1>1 DEF AcceptedAt
<1>3. DOMAIN Registration(opts) \subseteq AcceptedAt(opts) \cup {n + 1}
  BY DEF Registration
<1> HIDE DEF n
<1>4. DOMAIN Registration(opts) \subseteq 1 .. (n + 1) /\ n + 1 \in Nat
  BY <1>1, <1>2, <1>3
<1> QED
  BY <1>4

\* The last call that registered a name is one of those that did.
LEMMA LastIsOne ==
  ASSUME NEW n \in Nat, NEW S \in SUBSET (1 .. n), S # {}
  PROVE  Last(S) \in S
<1>1. S \in SUBSET (0 .. n)
  OBVIOUS
<1>2. Greatest(S) \in S /\ \A y \in S : Greatest(S) >= y
  BY <1>1, GreatestIsOne
<1> QED
  BY <1>2 DEF Last

LEMMA PatchedScope ==
  ASSUME ConfInv, Detected(network)
  PROVE  Scope(CupsdConf(network, bootOptions.aliases), network)
<1> DEFINE tokens == bootOptions.aliases
           allowed == AllowedFrom(network)
<1>1. Template = StockConf
  BY DEF ConfInv, Template
<1>2. Template.listen = "localhost"
  BY <1>1 DEF StockConf
<1>3. CupsdConf(network, tokens) =
        [listen |-> network.address, aliases |-> ValidAliases(tokens),
         root |-> allowed, admin |-> allowed]
  BY <1>2 DEF CupsdConf
<1>4. Tailnet # Subnet(network.address)
  BY DEF Tailnet, Subnet
<1>5. network.tailscale \in BOOLEAN
  BY BootAssumption DEF ConfInv
<1>6. Admits(allowed, network)
  BY <1>4, <1>5 DEF Admits, AllowedFrom
<1> HIDE DEF allowed
<1> QED
  BY <1>3, <1>6 DEF Scope

LEMMA BootInitially == CupsBootInit => BootInv
<1> SUFFICES ASSUME CupsBootInit PROVE ConfInv /\ QueueInv
  BY DEF BootInv
<1>1. ConfInv
  BY DEF CupsBootInit, ConfInv, InContainer
<1>2. DOMAIN registerSh \subseteq 1 .. 0 /\ NamesOf(registerSh) = {}
  BY DEF CupsBootInit, NamesOf
<1>3. QueueInv
  BY <1>2 DEF CupsBootInit, QueueInv, TakenNames, InContainer
<1> QED
  BY <1>1, <1>3

LEMMA ConfStep == ConfInv /\ [CupsBootNext]_cupsBootVars => ConfInv'
<1> SUFFICES ASSUME ConfInv, [CupsBootNext]_cupsBootVars PROVE ConfInv'
  OBVIOUS
<1> USE DEF ConfInv, InContainer
<1>1. CASE Generate
  <2>1. CASE ~bootOptions.hostnameValid
    BY <1>1, <2>1 DEF Generate, files, inputs
  <2>2. CASE bootOptions.hostnameValid
    <3>1. /\ stock' = Template /\ cupsdConf' = CupsdConf(network, bootOptions.aliases)
          /\ bootSeen' = network /\ bootStep' = "provision"
          /\ bootOptions' = bootOptions /\ network' = network /\ cupsdUp' = cupsdUp
      BY <1>1, <2>2 DEF Generate, inputs
    <3>2. Template = StockConf
      BY DEF Template
    <3>3. stock' = None => cupsdConf' = StockConf
      BY <3>1, <3>2, BootAssumption
    <3>4. Detected(bootSeen') => Scope(cupsdConf', bootSeen')
      BY <3>1, PatchedScope
    <3> QED
      BY <3>1, <3>2, <3>3, <3>4
  <2> QED
    BY <2>1, <2>2
<1>2. CASE ProvisionAdmin \/ RunRegistration \/ FixupUuids
  BY <1>2 DEF ProvisionAdmin, RunRegistration, FixupUuids, inputs
<1>3. CASE StartCupsd \/ StopForFixup
  BY <1>3 DEF StartCupsd, StopForFixup, inputs, files
<1>4. CASE Stop \/ StartContainer
  BY <1>4 DEF Stop, StartContainer, Down, inputs, files
<1>5. CASE Recreate
  BY <1>5 DEF Recreate, inputs
<1>6. CASE Reconfigure \/ UNCHANGED cupsBootVars
  BY <1>6 DEF Reconfigure, cupsBootVars, inputs, files
<1> QED
  BY <1>1, <1>2, <1>3, <1>4, <1>5, <1>6 DEF CupsBootNext, Boot

LEMMA QueueStep == ConfInv /\ QueueInv /\ [CupsBootNext]_cupsBootVars => QueueInv'
<1> SUFFICES ASSUME ConfInv, QueueInv, [CupsBootNext]_cupsBootVars PROVE QueueInv'
  OBVIOUS
<1> USE DEF QueueInv, InContainer, TakenNames
<1>1. CASE Generate
  <2>1. bootStep = "generate" /\ registered = {} /\ registered' = {}
    BY <1>1 DEF Generate
  <2>2. CASE ~bootOptions.hostnameValid
    BY <1>1, <2>1, <2>2 DEF Generate, files, NamesOf
  <2>3. CASE bootOptions.hostnameValid
    <3>1. /\ registerSh' = Registration(bootOptions)
          /\ fixupSh' = IF FixupNames(bootOptions) = {} THEN fixupSh ELSE FixupNames(bootOptions)
          /\ bootStep' = "provision"
      BY <1>1, <2>3 DEF Generate
    <3>2. bootOptions \in CupsOptions
      BY DEF ConfInv
    <3>3. \E n \in Nat : DOMAIN registerSh' \subseteq 1 .. n
      BY <3>1, <3>2, PlacesAreFinite
    <3>4. NamesOf(registerSh)' = FixupNames(bootOptions) /\ FixupNames(bootOptions) # None
      BY <3>1, <3>2, BootAssumption DEF FixupNames, NamesOf
    <3> QED
      BY <2>1, <3>1, <3>3, <3>4
  <2> QED
    BY <2>2, <2>3
<1>2. CASE ProvisionAdmin \/ StartCupsd
  BY <1>2 DEF ProvisionAdmin, StartCupsd, inputs, files, NamesOf
<1>3. CASE RunRegistration
  <2> PICK result \in [DOMAIN registerSh -> {"registered", "failed", "no_single_PPD"}] :
       LET ok == {i \in DOMAIN registerSh : result[i] = "registered"}
           named(n) == Last({i \in ok : registerSh[i].name = n})
           taken == {registerSh[i].name : i \in ok}
       IN /\ printers' = [n \in DOMAIN printers \cup taken |->
               IF n \notin taken THEN printers[n]
               ELSE [uri  |-> registerSh[named(n)].uri,
                     uuid |-> IF n \in DOMAIN printers THEN printers[n].uuid ELSE "random"]]
          /\ registered' = registered \cup {registerSh[named(n)] : n \in taken}
    BY <1>3 DEF RunRegistration
  <2> DEFINE ok == {i \in DOMAIN registerSh : result[i] = "registered"}
             named(n) == Last({i \in ok : registerSh[i].name = n})
             taken == {registerSh[i].name : i \in ok}
  <2>1. /\ DOMAIN printers' = DOMAIN printers \cup taken
        /\ \A n \in taken : printers'[n].uri = registerSh[named(n)].uri
        /\ \A n \in DOMAIN printers \ taken : printers'[n] = printers[n]
    OBVIOUS
  <2>2. /\ registered \subseteq registered'
        /\ \A n \in taken : registerSh[named(n)] \in registered'
        /\ \A e \in registered' :
             e \in registered \/ \E n \in taken : e = registerSh[named(n)]
    OBVIOUS
  <2>3. ASSUME NEW n \in taken
        PROVE  named(n) \in DOMAIN registerSh /\ registerSh[named(n)].name = n
    <3> DEFINE S == {i \in ok : registerSh[i].name = n}
    <3>1. S # {}
      OBVIOUS
    <3>2. PICK m \in Nat : S \in SUBSET (1 .. m)
      OBVIOUS
    <3>3. Last(S) \in S
      BY <3>1, <3>2, LastIsOne
    <3> QED
      BY <3>3
  <2>4. bootStep = "register" /\ bootStep' \in {"register", "registered"}
        /\ registerSh' = registerSh /\ fixupSh' = fixupSh
    BY <1>3 DEF RunRegistration
  <2>5. taken \subseteq NamesOf(registerSh)
    BY DEF NamesOf
  <2> HIDE DEF named, taken
  <2>6. ASSUME NEW e \in registered' PROVE e.name \in NamesOf(registerSh)
    <3>1. CASE e \in registered
      BY <3>1
    <3>2. CASE \E n \in taken : e = registerSh[named(n)]
      BY <2>3, <2>5, <3>2
    <3> QED
      BY <2>2, <2>6, <3>1, <3>2
  <2>7. ASSUME NEW e \in registered'
        PROVE  /\ e.name \in DOMAIN printers'
               /\ \E f \in registered' : f.name = e.name /\ f.uri = printers'[e.name].uri
    <3>1. CASE e.name \in taken
      <4>1. registerSh[named(e.name)] \in registered'
        BY <2>2, <3>1
      <4> QED
        BY <2>1, <2>3, <3>1, <4>1
    <3>2. CASE e.name \notin taken
      <4>1. e \in registered
        BY ONLY <2>2, <2>3, <3>2, <2>7
      <4>2. PICK f \in registered : f.name = e.name /\ f.uri = printers[e.name].uri
        BY <4>1
      <4> QED
        BY <2>1, <2>2, <3>2, <4>1, <4>2
    <3> QED
      BY <3>1, <3>2
  <2>8. NamesOf(registerSh)' = NamesOf(registerSh)
    BY <2>4 DEF NamesOf
  <2> QED
    BY <2>4, <2>6, <2>7, <2>8
<1>4. CASE StopForFixup
  <2>1. /\ registerSh' = registerSh /\ fixupSh' = fixupSh /\ printers' = printers
        /\ registered' = registered /\ bootStep = "registered"
    BY <1>4 DEF StopForFixup, files
  <2>2. NamesOf(registerSh)' = NamesOf(registerSh)
    BY <2>1 DEF NamesOf
  <2>3. CASE fixupSh = None
    <3>1. registered = {} /\ bootStep' = "serving"
      BY <1>4, <2>1, <2>3 DEF StopForFixup
    <3> QED
      BY <2>1, <2>2, <3>1
  <2>4. CASE fixupSh # None
    <3>1. bootStep' = "fixup"
      BY <1>4, <2>4 DEF StopForFixup
    <3> QED
      BY <2>1, <2>2, <3>1
  <2> QED
    BY <2>3, <2>4
<1>5. CASE FixupUuids
  <2>1. /\ printers' = [n \in DOMAIN printers |->
             IF n \in fixupSh THEN [uri |-> printers[n].uri, uuid |-> "derived"] ELSE printers[n]]
        /\ bootStep = "fixup" /\ bootStep' = "start_again"
        /\ registerSh' = registerSh /\ fixupSh' = fixupSh /\ registered' = registered
    BY <1>5 DEF FixupUuids
  <2>2. \A n \in DOMAIN printers : printers'[n].uri = printers[n].uri
    BY <2>1
  <2>3. \A e \in registered : e.name \in DOMAIN printers /\ e.name \in fixupSh
    BY <2>1
  <2>4. \A e \in registered : printers'[e.name].uuid = "derived"
    BY <2>1, <2>3
  <2>5. NamesOf(registerSh)' = NamesOf(registerSh) /\ DOMAIN printers' = DOMAIN printers
    BY <2>1 DEF NamesOf
  <2>6. \A e \in registered :
          \E f \in registered : f.name = e.name /\ f.uri = printers'[e.name].uri
    BY <2>2, <2>3
  <2>7. \A e \in registered' :
          /\ e.name \in DOMAIN printers'
          /\ \E f \in registered' : f.name = e.name /\ f.uri = printers'[e.name].uri
    BY ONLY <2>1, <2>3, <2>5, <2>6
  <2>8. \A e \in registered' : printers'[e.name].uuid = "derived"
    BY ONLY <2>1, <2>4
  <2>9. \E n \in Nat : DOMAIN registerSh' \subseteq 1 .. n
    BY <2>1
  <2> QED
    BY <2>1, <2>5, <2>7, <2>8, <2>9
<1>6. CASE Stop
  BY <1>6 DEF Stop, Down, inputs, files, NamesOf
<1>7. CASE StartContainer
  BY <1>7 DEF StartContainer, inputs, files, NamesOf
<1>8. CASE Recreate
  <2>1. bootStep = "off" /\ bootStep' = "off" /\ registered = {} /\ registered' = {}
        /\ registerSh' = <<>>
    BY <1>8 DEF Recreate
  <2>2. DOMAIN registerSh' \subseteq 1 .. 0
    BY <2>1
  <2> QED
    BY <2>1, <2>2
<1>9. CASE Reconfigure \/ UNCHANGED cupsBootVars
  BY <1>9 DEF Reconfigure, cupsBootVars, inputs, files, NamesOf
<1> QED
  BY <1>1, <1>2, <1>3, <1>4, <1>5, <1>6, <1>7, <1>8, <1>9 DEF CupsBootNext, Boot

\* Through restarts with other options and another network, and new containers.
THEOREM BootInvariant == CupsBootSpec => []BootInv
<1>1. CupsBootInit => BootInv
  BY BootInitially
<1>2. BootInv /\ [CupsBootNext]_cupsBootVars => BootInv'
  BY ConfStep, QueueStep DEF BootInv
<1> QED
  BY <1>1, <1>2, PTL DEF CupsBootSpec

\* cupsd runs with the scope of the network this start has found, and when the start
\* is over, each queue it registered has its derived identity (generate_config.py,
\* run.sh), whatever earlier starts have left behind.
THEOREM BootServesOptions == CupsBootSpec => []ScopeFollowsDetection /\ []QueuesKeepIdentity
<1>1. BootInv => ScopeFollowsDetection
  BY DEF BootInv, ConfInv, InContainer, ScopeFollowsDetection, Scope, Admits
<1>2. BootInv => QueuesKeepIdentity
  BY DEF BootInv, QueueInv, QueuesKeepIdentity
<1> QED
  BY <1>1, <1>2, BootInvariant, PTL
=============================================================================
