---------------------------- MODULE CupsWorkers ----------------------------
(***************************************************************************)
(* The two background workers of the cups add-on: upload-worker.py, which   *)
(* carries every PDF of the virtual queue through incoming/, processing/    *)
(* and sent/ or failed/ while it uploads it to paperless-ngx, and           *)
(* print-history-poller.py, which appends one line per completed job.       *)
(*                                                                         *)
(* Documents are numbered in the order they are printed.  All have one      *)
(* title, so the file name of a document stands for its CUPS job id; cupsd  *)
(* numbers jobs from 1 again in a new container, while /data stays.         *)
(***************************************************************************)
EXTENDS ServiceValues, Integers, FiniteSets

CONSTANTS
  RetryCount,   \* paperless_upload.retry_count
  MaxDocuments, \* bound on documents printed
  MaxMishaps    \* bound on lost answers, failing file operations and restarts

ASSUME RetryAssumption == RetryCount \in Nat \ {0}
ASSUME NoneAssumption == None \notin Nat
ASSUME CupsBoundAssumption == MaxDocuments \in Nat /\ MaxMishaps \in Nat

VARIABLES
  job,          \* document |-> its CUPS job id
  active,       \* documents cupsd has not completed
  completed,    \* documents that lpstat -W completed lists
  incoming, processing,   \* the directories: file name |-> document
  titled,       \* [incoming |-> names, processing |-> names] with a title sidecar
  retry,        \* the retry files in processing/: name |-> attempts
  sent, failed, \* <<name, disambiguation>> |-> document
  uploader,     \* the upload worker's next step
  phase,        \* the loop of poll_once it is in
  scan,         \* names its current loop has still to look at
  at,           \* the name it works on
  prior,        \* prior_attempts
  received,     \* document |-> times paperless-ngx accepted it
  tries,        \* document |-> attempts that did not succeed
  poller,       \* where the history poller is
  lastSeen,     \* its last_seen_job_id
  seenFile,     \* print-history-state.json
  newest,       \* the id of the last job of its poll
  found,        \* documents it has still to append
  history,      \* document |-> lines in print-history.jsonl
  inOrder,      \* history: documents the poller has to record
  mishaps

outbox  == <<incoming, processing, titled, retry, sent, failed>>
work    == <<uploader, phase, scan, at, prior>>
remote  == <<received, tries>>
records == <<poller, lastSeen, seenFile, newest, found, history, inOrder>>
cupsd   == <<job, active, completed>>
cupsVars == <<cupsd, outbox, work, remote, records, mishaps>>

Documents == DOMAIN job
Put(f, x, v) == [y \in DOMAIN f \cup {x} |-> IF y = x THEN v ELSE f[y]]
Without(f, x) == [y \in DOMAIN f \ {x} |-> f[y]]
Empty == [x \in {} |-> 0]
Values(f) == {f[x] : x \in DOMAIN f}
Least(S)   == CHOOSE x \in S : \A y \in S : x <= y
Greatest(S) == CHOOSE x \in S : \A y \in S : x >= y

CupsInit ==
  /\ job = Empty /\ active = {} /\ completed = {}
  /\ incoming = Empty /\ processing = Empty /\ retry = Empty
  /\ titled = [incoming |-> {}, processing |-> {}]
  /\ sent = Empty /\ failed = Empty
  /\ uploader = "next" /\ phase = "sleep" /\ scan = {} /\ at = 0 /\ prior = 0
  /\ received = Empty /\ tries = Empty
  /\ poller = "baseline" /\ lastSeen = None /\ seenFile = None
  /\ newest = 0 /\ found = {}
  /\ history = Empty /\ inOrder = {}
  /\ mishaps = 0

Mishap == mishaps < MaxMishaps /\ mishaps' = mishaps + 1

-----------------------------------------------------------------------------
(* cupsd and cups-pdf *)

LastJob == IF active \cup completed = {} THEN 0
           ELSE Greatest({job[d] : d \in active \cup completed})

\* cups-pdf writes the PDF straight into incoming/.
PrintJob ==
  LET d == Cardinality(Documents) + 1 IN
  /\ d <= MaxDocuments
  /\ job' = Put(job, d, LastJob + 1)
  /\ active' = active \cup {d}
  /\ incoming' = Put(incoming, LastJob + 1, d)
  /\ received' = Put(received, d, 0)
  /\ tries' = Put(tries, d, 0)
  /\ history' = Put(history, d, 0)
  /\ UNCHANGED <<completed, processing, titled, retry, sent, failed, work, poller,
                 lastSeen, seenFile, newest, found, inOrder, mishaps>>

\* The best-effort hook writes the title sidecar once the PDF is there; the
\* worker may have taken the PDF away in the meantime.
PostProcess ==
  /\ \E d \in active : titled' = [titled EXCEPT !.incoming = @ \cup {job[d]}]
  /\ UNCHANGED <<cupsd, incoming, processing, retry, sent, failed, work, remote,
                 records, mishaps>>

\* A job completes; the poller owes a line to one that is in job order.
Complete ==
  \E d \in active :
    /\ active' = active \ {d}
    /\ completed' = completed \cup {d}
    /\ inOrder' = IF /\ seenFile # None /\ job[d] > seenFile
                     /\ \A e \in completed : job[e] < job[d]
                  THEN inOrder \cup {d} ELSE inOrder
    /\ UNCHANGED <<job, outbox, work, remote, poller, lastSeen, seenFile, newest, found,
                   history, mishaps>>

\* load_last_seen_job_id: without a state file the poller first takes a baseline.
FirstPoll(file) == IF file = None THEN "baseline" ELSE "poll"

\* The container is replaced: both workers start again, cupsd forgets its jobs.
Restart ==
  /\ Mishap
  /\ active' = {} /\ completed' = {} /\ inOrder' = {}
  /\ uploader' = "next" /\ phase' = "sleep" /\ scan' = {} /\ at' = 0 /\ prior' = 0
  /\ lastSeen' = seenFile /\ newest' = 0 /\ found' = {}
  /\ poller' = FirstPoll(seenFile)
  /\ UNCHANGED <<job, outbox, remote, seenFile, history>>

-----------------------------------------------------------------------------
(* upload-worker.py *)

To(pc) == uploader' = pc
NoCupsd == UNCHANGED <<cupsd, records>>

\* poll_once lists incoming/ first, then processing/, and sleeps.
ScanIncoming ==
  /\ uploader = "next" /\ phase = "sleep"
  /\ phase' = "incoming" /\ scan' = DOMAIN incoming
  /\ UNCHANGED <<uploader, at, prior, outbox, remote, mishaps>> /\ NoCupsd

ScanRetries ==
  /\ uploader = "next" /\ phase = "incoming" /\ scan = {}
  /\ phase' = "retries" /\ scan' = DOMAIN processing
  /\ UNCHANGED <<uploader, at, prior, outbox, remote, mishaps>> /\ NoCupsd

PollEnds ==
  /\ uploader = "next" /\ phase = "retries" /\ scan = {}
  /\ phase' = "sleep"
  /\ UNCHANGED <<uploader, scan, at, prior, outbox, remote, mishaps>> /\ NoCupsd

\* Path.replace puts a new document over one of its name that waits for a retry.
TakeNew ==
  /\ uploader = "next" /\ phase = "incoming" /\ scan # {}
  /\ LET n == Least(scan) IN
       /\ at' = n /\ scan' = scan \ {n}
       /\ processing' = Put(processing, n, incoming[n])
       /\ incoming' = Without(incoming, n)
  /\ To("sidecar") /\ prior' = 0
  /\ UNCHANGED <<phase, titled, retry, sent, failed, remote, mishaps>> /\ NoCupsd

TakeSidecar ==
  /\ uploader = "sidecar"
  /\ titled' = IF at \in titled.incoming
               THEN [incoming |-> titled.incoming \ {at},
                     processing |-> titled.processing \cup {at}]
               ELSE titled
  /\ To("upload")
  /\ UNCHANGED <<phase, scan, at, prior, incoming, processing, retry, sent, failed,
                 remote, mishaps>> /\ NoCupsd

\* No retry file: due at once.  Otherwise its delay may or may not be over.
TakeRetry ==
  /\ uploader = "next" /\ phase = "retries" /\ scan # {}
  /\ LET n == Least(scan) IN
       /\ at' = n /\ scan' = scan \ {n}
       /\ \/ To("upload") /\ prior' = IF n \in DOMAIN retry THEN retry[n] ELSE 0
          \/ n \in DOMAIN retry /\ UNCHANGED <<uploader, prior>>
  /\ UNCHANGED <<phase, outbox, remote, mishaps>> /\ NoCupsd

\* Mutant of Believed: the body of a 200 is not looked at.
BelievedStatus(answer) == answer \in {"task_id", "login_page"}

\* What upload_document takes for success: HTTP 200 with a task id.
Believed(answer) == answer = "task_id"

\* Mutant of Exhausted: the attempt under way is not counted.
ExhaustedEarly == prior + 2 >= RetryCount

Exhausted == prior + 1 >= RetryCount

\* One attempt; an accepted document whose answer is lost counts as a failure.
Upload ==
  \E answer \in {"task_id", "login_page", "error", "lost"} :
    /\ uploader = "upload"
    /\ IF answer \in {"task_id", "lost"}
       THEN received' = [received EXCEPT ![processing[at]] = @ + 1]
       ELSE UNCHANGED received
    /\ IF Believed(answer)
       THEN To("unlink_sidecar") /\ UNCHANGED tries
       ELSE /\ To(IF Exhausted THEN "to_failed" ELSE "save_retry")
            /\ tries' = [tries EXCEPT ![processing[at]] = @ + 1]
    /\ IF answer = "lost" THEN Mishap ELSE UNCHANGED mishaps
    /\ UNCHANGED <<phase, scan, at, prior, outbox>> /\ NoCupsd

UnlinkSidecar ==
  /\ uploader = "unlink_sidecar"
  /\ titled' = [titled EXCEPT !.processing = @ \ {at}]
  /\ To("unlink_retry")
  /\ UNCHANGED <<incoming, processing, retry, sent, failed>>

\* The last step of a failed document, the last but one of a sent one.
UnlinkRetry ==
  /\ uploader \in {"unlink_retry", "given_up"}
  /\ retry' = Without(retry, at)
  /\ To(IF uploader = "unlink_retry" THEN "to_sent" ELSE "next")
  /\ UNCHANGED <<incoming, processing, titled, sent, failed>>

\* Mutant of UniqueDestination: the plain name, whatever is there.
PlainDestination(dir, n, tag) == <<n, 0>>

\* The time and pid of the suffix make it unique: the document stands for it.
UniqueDestination(dir, n, tag) == IF <<n, 0>> \in DOMAIN dir THEN <<n, tag>> ELSE <<n, 0>>

ToSent ==
  /\ uploader = "to_sent"
  /\ sent' = Put(sent, UniqueDestination(sent, at, processing[at]), processing[at])
  /\ processing' = Without(processing, at)
  /\ To("next")
  /\ UNCHANGED <<incoming, titled, retry, failed>>

ToFailed ==
  /\ uploader = "to_failed"
  /\ failed' = Put(failed, UniqueDestination(failed, at, processing[at]), processing[at])
  /\ processing' = Without(processing, at)
  /\ To("sidecar_to_failed")
  /\ UNCHANGED <<incoming, titled, retry, sent>>

\* The sidecar follows its document into failed/.
SidecarToFailed ==
  /\ uploader = "sidecar_to_failed"
  /\ titled' = [titled EXCEPT !.processing = @ \ {at}]
  /\ To("given_up")
  /\ UNCHANGED <<incoming, processing, retry, sent, failed>>

SaveRetry ==
  /\ uploader = "save_retry"
  /\ retry' = Put(retry, at, prior + 1)
  /\ To("next")
  /\ UNCHANGED <<incoming, processing, titled, sent, failed>>

Route ==
  /\ UnlinkSidecar \/ UnlinkRetry \/ ToSent \/ ToFailed \/ SidecarToFailed \/ SaveRetry
  /\ UNCHANGED <<phase, scan, at, prior, remote, mishaps>> /\ NoCupsd

\* A file operation raises: the loop goes on with the next document.
FileError ==
  /\ uploader \notin {"next", "upload"}
  /\ Mishap
  /\ To("next")
  /\ UNCHANGED <<phase, scan, at, prior, outbox, remote>> /\ NoCupsd

Uploader ==
  \/ ScanIncoming \/ ScanRetries \/ PollEnds
  \/ TakeNew \/ TakeSidecar \/ TakeRetry \/ Upload \/ Route \/ FileError

-----------------------------------------------------------------------------
(* print-history-poller.py; a query that fails changes nothing *)

NoOutbox == UNCHANGED <<cupsd, outbox, work, remote, inOrder>>

EstablishBaseline ==
  /\ poller = "baseline"
  /\ LET id == Greatest({job[d] : d \in completed} \cup {0}) IN
       lastSeen' = id /\ seenFile' = id
  /\ poller' = "poll"
  /\ UNCHANGED <<found, newest, history, mishaps>> /\ NoOutbox

NewJobs == {d \in completed : job[d] > lastSeen}

\* Mutant of Query: the last id is saved before the lines are written.
QuerySaves ==
  /\ poller = "poll" /\ NewJobs # {}
  /\ found' = NewJobs
  /\ newest' = Greatest({job[d] : d \in NewJobs})
  /\ seenFile' = newest'
  /\ poller' = "append"
  /\ UNCHANGED <<lastSeen, history, mishaps>> /\ NoOutbox

Query ==
  /\ poller = "poll" /\ NewJobs # {}
  /\ found' = NewJobs
  /\ newest' = Greatest({job[d] : d \in NewJobs})
  /\ poller' = "append"
  /\ UNCHANGED <<lastSeen, seenFile, history, mishaps>> /\ NoOutbox

\* new_jobs in the order of their ids, one line each.
AppendHistory ==
  /\ poller = "append" /\ found # {}
  /\ \E d \in found :
       /\ \A e \in found : job[d] <= job[e]
       /\ history' = [history EXCEPT ![d] = @ + 1]
       /\ found' = found \ {d}
  /\ UNCHANGED <<poller, newest, lastSeen, seenFile, mishaps>> /\ NoOutbox

SaveLastSeen ==
  /\ poller = "append" /\ found = {}
  /\ seenFile' = newest /\ lastSeen' = newest
  /\ poller' = "poll"
  /\ UNCHANGED <<found, newest, history, mishaps>> /\ NoOutbox

\* Appending or saving raises: the next poll starts from the same last id.
PollFails ==
  /\ poller = "append"
  /\ Mishap
  /\ found' = {} /\ poller' = "poll"
  /\ UNCHANGED <<newest, lastSeen, seenFile, history>> /\ NoOutbox

Poller == EstablishBaseline \/ Query \/ AppendHistory \/ SaveLastSeen \/ PollFails

-----------------------------------------------------------------------------
CupsNext == PrintJob \/ PostProcess \/ Complete \/ Restart \/ Uploader \/ Poller

CupsSpec == CupsInit /\ [][CupsNext]_cupsVars

-----------------------------------------------------------------------------
(* Properties *)

Waiting(d) == d \in Values(incoming) \cup Values(processing)
Kept(d)    == Waiting(d) \/ d \in Values(sent) \cup Values(failed)

\* A document leaves the outbox only under a newer one with its file name, and
\* only while it waits: what sent/ and failed/ hold is there for good, whatever
\* restarts, retries and re-used job ids bring (upload-worker.py:31-35).
NothingLost ==
  [][\A d \in Documents :
       Kept(d) => Kept(d)' \/ /\ Waiting(d)
                              /\ \E e \in DOMAIN job' :
                                   e > d /\ job'[e] = job[d] /\ Waiting(e)']_cupsVars

\* What sent/ holds, paperless-ngx has: no answer but the documented one, and no
\* interruption, counts as a delivery.
SentWasAccepted == \A x \in DOMAIN sent : received[sent[x]] > 0

\* A document ends in failed/ only after retry_count attempts, unless the file
\* it replaced in processing/ left its retry file and a restart or an error hid
\* that; and each extra delivery of a document is due to a mishap.
AttemptsCounted ==
  /\ \A x \in DOMAIN failed : tries[failed[x]] >= RetryCount \/ mishaps > 0
  /\ \A d \in Documents : received[d] <= 1 + mishaps

\* In job order nothing is left out: a job that completed after every older one
\* is recorded before a later id is remembered, and one is recorded twice only
\* where the process ended or failed in between (DOCS.md:78-81).
HistoryCatchesUp ==
  /\ \A d \in inOrder : history[d] > 0 \/ seenFile < job[d]
  /\ \A d \in Documents : history[d] <= 1 + mishaps
=============================================================================
