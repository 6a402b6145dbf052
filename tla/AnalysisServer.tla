--------------------------- MODULE AnalysisServer ---------------------------
(***************************************************************************)
(* The companion server's canonical analysis document                      *)
(* (local-server/src/lib.rs): clients change it from a revision they know, *)
(* the server makes each change durable before it answers, tells the       *)
(* clients that wait for changes, and remembers the answers it gave.       *)
(*                                                                         *)
(* A document is the sequence of the changes that led to it, and its       *)
(* revision is their number.  What a change does to it is left to the      *)
(* core.  A handler that holds the engine lock keeps it to its end and     *)
(* never awaits; its steps are separate here because the process, or the   *)
(* machine, may stop between any two of them.                              *)
(***************************************************************************)
EXTENDS Integers, Sequences, SequencesExt

CONSTANTS
    Writers,        \* clients that change the document
    Followers,      \* clients that keep a copy of it
    Nobody,         \* no lock holder
    Changes,
    Bulk,           \* the changes made by tag queries
    NoContent,      \* what the journal keeps of those
    RequestIds, NoId,
    JournalCap,     \* MAX_CHANGE_HISTORY (512)
    PageCap,        \* MAX_CHANGE_PAGE (200)
    IdemCap,        \* answers remembered (512)
    RollbackMayFail, PowerMayFail,
    MaxRevision,    \* bound on the document, for model checking
    MaxFaults       \* bound on crashes and failed writes

ASSUME ServerAssumption ==
    /\ Nobody \notin Writers /\ NoId \notin RequestIds
    /\ Bulk \subseteq Changes /\ NoContent \notin Changes
    /\ JournalCap \in Nat /\ PageCap \in Nat \ {0} /\ IdemCap \in Nat
    /\ RollbackMayFail \in BOOLEAN /\ PowerMayFail \in BOOLEAN
    /\ MaxRevision \in Nat /\ MaxFaults \in Nat

VARIABLES
    up,             \* is the process running?
    engine,         \* the document in the engine
    lock,           \* the writer whose handler holds the engine lock
    job,            \* where that handler is
    journal,        \* the newest changes, each with its revision
    idem,           \* the newest successful requests that carried an id
    file,           \* the document under its name in the data directory
    afterLoss,      \* the documents it may be after a loss of power
    answer,         \* the last answer each writer got
    poll,           \* each follower's request for changes
    copy,           \* each follower's document
    faults

memory == <<engine, lock, job, journal, idem>>
disk == <<file, afterLoss>>
clients == <<answer, poll, copy>>
vars == <<up, memory, disk, clients, faults>>

Documents == Seq(Changes)
Requests == [id : RequestIds \cup {NoId}, expected : 0..MaxRevision, change : Changes]

NoJob == [at |-> "idle", before |-> <<>>]
NoAnswer == [status |-> "none"]
Done(request, revision) ==
    [status |-> "ok", revision |-> revision, change |-> request.change]

Unlocked == up /\ lock = Nobody

-----------------------------------------------------------------------------
ServerInit ==
    /\ up = TRUE
    /\ engine = <<>> /\ lock = Nobody /\ job = NoJob
    /\ journal = <<>> /\ idem = <<>>
    /\ file = <<>> /\ afterLoss = {<<>>}
    /\ answer = [w \in Writers |-> NoAnswer]
    /\ poll = [f \in Followers |-> [at |-> "read"]]
    /\ copy = [f \in Followers |-> <<>>]
    /\ faults = 0

\* Mutant: nothing is ever dropped.
PushedUnbounded(queue, entry, cap) == Append(queue, entry)

\* A bounded queue that drops its oldest entry.
Pushed(queue, entry, cap) ==
    LET all == Append(queue, entry)
    IN  IF Len(all) > cap THEN Tail(all) ELSE all

\* Mutant: only the newest answer is looked at.
RetainedNewest(id) == {i \in {Len(idem)} : i > 0 /\ idem[i].request.id = id}

Retained(id) == {i \in 1..Len(idem) : idem[i].request.id = id}

(***************************************************************************)
(* A change, under the engine lock.  A request whose id is remembered is   *)
(* answered from memory, or refused if it is another request; any other is *)
(* refused unless it comes from the current revision.  The core may refuse *)
(* it as invalid.                                                          *)
(***************************************************************************)
Answer(w, a) == answer' = [answer EXCEPT ![w] = a]

Repeat(w, request) ==
    /\ Unlocked
    /\ \E i \in Retained(request.id) :
           /\ idem[i].request = request
           /\ Answer(w, Done(request, idem[i].revision))
    /\ UNCHANGED <<up, memory, disk, poll, copy, faults>>

Refuse(w) ==
    /\ Unlocked
    /\ Answer(w, [status |-> "refused"])
    /\ UNCHANGED <<up, memory, disk, poll, copy, faults>>

Apply(w, request) ==
    /\ Unlocked
    /\ Retained(request.id) = {}
    /\ request.expected = Len(engine)
    /\ Len(engine) < MaxRevision
    /\ engine' = Append(engine, request.change)
    /\ lock' = w
    /\ job' = [at |-> "applied", before |-> engine, request |-> request]
    /\ UNCHANGED <<up, journal, idem, disk, clients, faults>>

(***************************************************************************)
(* persist_analysis: a temporary file is written and synced, renamed over  *)
(* the document, and the directory synced.  If that last step fails, the   *)
(* old document is put back the same way.                                  *)
(***************************************************************************)
Holding(w, at) == up /\ lock = w /\ job.at = at

Reach(at) == job' = [job EXCEPT !.at = at]

Release == lock' = Nobody /\ job' = NoJob

Fail(w) ==
    /\ engine' = job.before
    /\ Release
    /\ Answer(w, [status |-> "failed"])
    /\ UNCHANGED <<up, journal, idem, poll, copy>>

Fault == faults < MaxFaults /\ faults' = faults + 1

WriteFails(w) ==
    /\ Holding(w, "applied")
    /\ Fault
    /\ Fail(w)
    /\ UNCHANGED disk

Rename(w) ==
    /\ Holding(w, "applied")
    /\ Reach("renamed")
    /\ file' = engine
    /\ afterLoss' = afterLoss \cup {engine}
    /\ UNCHANGED <<up, engine, lock, journal, idem, clients, faults>>

SyncDirectory(w) ==
    /\ Holding(w, "renamed")
    /\ Reach("durable")
    /\ afterLoss' = {file}
    /\ UNCHANGED <<up, engine, lock, journal, idem, file, clients, faults>>

\* Mutant: the result of the sync is not looked at.
SyncIgnored(w) ==
    /\ Holding(w, "renamed")
    /\ Fault
    /\ Reach("durable")
    /\ UNCHANGED <<up, engine, lock, journal, idem, disk, clients>>

SyncFails(w) ==
    /\ Holding(w, "renamed")
    /\ Fault
    /\ Reach("unsynced")
    /\ UNCHANGED <<up, engine, lock, journal, idem, disk, clients>>

\* Mutant: the caller puts the engine back, the file stays.
RollBackEngine(w) ==
    /\ Holding(w, "unsynced")
    /\ Fail(w)
    /\ UNCHANGED <<disk, faults>>

RollBack(w) ==
    /\ Holding(w, "unsynced")
    /\ Fail(w)
    /\ file' = job.before
    /\ afterLoss' \in {{job.before}, afterLoss \cup {job.before}}
    /\ UNCHANGED faults

RollBackFails(w) ==
    /\ RollbackMayFail
    /\ Holding(w, "unsynced")
    /\ Fail(w)
    /\ UNCHANGED <<disk, faults>>

(***************************************************************************)
(* What is durable is journalled, announced, remembered and answered.      *)
(***************************************************************************)
Entry(change) ==
    [revision |-> Len(engine),
     change |-> IF change \in Bulk THEN NoContent ELSE change]

\* Mutant: a tag query leaves no entry.
JournalledNot(change) ==
    IF change \in Bulk THEN journal ELSE Pushed(journal, Entry(change), JournalCap)

Journalled(change) == Pushed(journal, Entry(change), JournalCap)

Journal(w) ==
    /\ Holding(w, "durable")
    /\ Reach("journalled")
    /\ journal' = Journalled(job.request.change)
    /\ UNCHANGED <<up, engine, lock, idem, disk, clients, faults>>

\* Mutant: a follower subscribes when it starts to wait, after its check.
SubscribedLate(p) == p.at = "wait"

Subscribed(p) == p.at \in {"check", "checked", "wait"}

Announce(w) ==
    /\ Holding(w, "journalled")
    /\ Reach("announced")
    /\ poll' = [f \in Followers |->
                   IF Subscribed(poll[f]) THEN [poll[f] EXCEPT !.unseen = TRUE]
                                          ELSE poll[f]]
    /\ UNCHANGED <<up, engine, lock, journal, idem, disk, answer, copy, faults>>

Remembered(request) ==
    IF request.id = NoId THEN idem
    ELSE Pushed(idem, [request |-> request, revision |-> Len(engine)], IdemCap)

Succeed(w) ==
    /\ Holding(w, "announced")
    /\ idem' = Remembered(job.request)
    /\ Release
    /\ Answer(w, Done(job.request, Len(engine)))
    /\ UNCHANGED <<up, engine, journal, disk, poll, copy, faults>>

HandlerStep(w) ==
    \/ WriteFails(w)
    \/ Rename(w)
    \/ SyncDirectory(w)
    \/ SyncFails(w)
    \/ RollBack(w)
    \/ RollBackFails(w)
    \/ Journal(w)
    \/ Announce(w)
    \/ Succeed(w)

-----------------------------------------------------------------------------
(***************************************************************************)
(* The journal from a revision on, a page at a time.  A reader is sent     *)
(* back to the document when it is ahead of it, when the journal does not  *)
(* reach back to it, or when an entry it needs has no content.             *)
(***************************************************************************)
Newer(after) == {i \in 1..Len(journal) : journal[i].revision > after}

Expired(after) ==
    \/ after > Len(engine)
    \/ /\ after < Len(engine)
       /\ Newer(after) = {} \/ journal[Min(Newer(after))].revision # after + 1

\* Mutant: an entry without content is taken for one.
ResetExpired(after) == Expired(after)

Reset(after) ==
    Expired(after) \/ \E i \in Newer(after) : journal[i].change = NoContent

ChangesSince(after) ==
    IF Reset(after) THEN [reset |-> TRUE, changes |-> <<>>]
    ELSE IF Newer(after) = {} THEN [reset |-> FALSE, changes |-> <<>>]
    ELSE LET first == Min(Newer(after))
             last == Min({first + PageCap - 1, Len(journal)})
         IN  [reset |-> FALSE,
              changes |-> [i \in 1..last - first + 1 |-> journal[first + i - 1].change]]

(***************************************************************************)
(* A follower's long poll: subscribe, look at the journal, and wait for an *)
(* announcement until the time is over.  The answer is applied to the copy *)
(* in order; after a reset the whole document is read.                     *)
(***************************************************************************)
Move(f, p) == poll' = [poll EXCEPT ![f] = p]

Subscribe(f) ==
    /\ up
    /\ poll[f].at = "idle"
    /\ Move(f, [at |-> "check", unseen |-> FALSE])
    /\ UNCHANGED <<up, memory, disk, answer, copy, faults>>

Check(f) ==
    /\ Unlocked
    /\ poll[f].at = "check"
    /\ LET response == ChangesSince(Len(copy[f]))
       IN  Move(f, IF response.reset \/ response.changes # <<>>
                   THEN [at |-> "got", response |-> response]
                   ELSE [poll[f] EXCEPT !.at = "checked"])
    /\ UNCHANGED <<up, memory, disk, answer, copy, faults>>

\* The lock is free again before the handler awaits the announcement.
Wait(f) ==
    /\ up
    /\ poll[f].at = "checked"
    /\ Move(f, [poll[f] EXCEPT !.at = "wait"])
    /\ UNCHANGED <<up, memory, disk, answer, copy, faults>>

Wake(f) ==
    /\ up
    /\ poll[f].at = "wait" /\ poll[f].unseen
    /\ Move(f, [at |-> "check", unseen |-> FALSE])
    /\ UNCHANGED <<up, memory, disk, answer, copy, faults>>

\* The deadline, or a poll that was not to wait.
TimeOut(f) ==
    /\ Unlocked
    /\ Subscribed(poll[f])
    /\ Move(f, [at |-> "got", response |-> ChangesSince(Len(copy[f]))])
    /\ UNCHANGED <<up, memory, disk, answer, copy, faults>>

\* The follower applies what it got, entry by entry; see BrowserAnalysis.
Receive(f) ==
    /\ poll[f].at = "got"
    /\ LET response == poll[f].response
       IN  IF response.reset
           THEN Move(f, [at |-> "read"]) /\ UNCHANGED copy
           ELSE /\ Move(f, [at |-> "idle"])
                /\ copy' = [copy EXCEPT ![f] = @ \o response.changes]
    /\ UNCHANGED <<up, memory, disk, answer, faults>>

\* GET /analysis.
Read(f) ==
    /\ Unlocked
    /\ poll[f].at = "read"
    /\ copy' = [copy EXCEPT ![f] = engine]
    /\ Move(f, [at |-> "idle"])
    /\ UNCHANGED <<up, memory, disk, answer, faults>>

FollowerStep(f) ==
    \/ Subscribe(f)
    \/ Check(f)
    \/ Wait(f)
    \/ Wake(f)
    \/ TimeOut(f)
    \/ Receive(f)
    \/ Read(f)

-----------------------------------------------------------------------------
(***************************************************************************)
(* The process may stop at any time, and with it everything but the file;  *)
(* open requests fail, received answers stay.  A loss of power stops the   *)
(* clients too, which are on the same machine, and may undo what was not   *)
(* synced.                                                                 *)
(***************************************************************************)
Stop ==
    /\ up /\ up' = FALSE
    /\ Fault
    /\ engine' = <<>> /\ journal' = <<>> /\ idem' = <<>>
    /\ Release
    /\ UNCHANGED answer

Crash ==
    /\ Stop
    /\ poll' = [f \in Followers |->
                   IF Subscribed(poll[f]) THEN [at |-> "idle"] ELSE poll[f]]
    /\ UNCHANGED <<disk, copy>>

LosePower ==
    /\ PowerMayFail
    /\ Stop
    /\ file' \in afterLoss /\ afterLoss' = {file'}
    /\ poll' = [f \in Followers |-> [at |-> "read"]]
    /\ copy' = [f \in Followers |-> <<>>]

Restart ==
    /\ ~up /\ up' = TRUE
    /\ engine' = file
    /\ UNCHANGED <<lock, job, journal, idem, disk, clients, faults>>

ServerNext ==
    \/ \E w \in Writers :
          \/ \E request \in Requests : Repeat(w, request) \/ Apply(w, request)
          \/ Refuse(w)
          \/ HandlerStep(w)
    \/ \E f \in Followers : FollowerStep(f)
    \/ Crash
    \/ LosePower
    \/ Restart

ServerSpec == ServerInit /\ [][ServerNext]_vars

(***************************************************************************)
(* A handler runs to its end; a follower keeps polling.                    *)
(***************************************************************************)
FairServerSpec ==
    /\ ServerSpec
    /\ \A w \in Writers : WF_vars(HandlerStep(w))
    /\ \A f \in Followers : WF_vars(FollowerStep(f))

(***************************************************************************)
(* The document all clients agree on: a change joins it when it has become *)
(* durable, or when the process stops with the change in the file.         *)
(***************************************************************************)
Uncommitted == job.at \in {"applied", "renamed", "unsynced"}

Committed == IF ~up THEN file ELSE IF Uncommitted THEN job.before ELSE engine

History == INSTANCE AnalysisHistory WITH
    history <- Committed,
    answers <- [w \in Writers |->
                  IF answer[w].status = "ok"
                  THEN [revision |-> answer[w].revision, change |-> answer[w].change]
                  ELSE [revision |-> 0]],
    copies <- copy

-----------------------------------------------------------------------------
\* Every variable has its type and every queue its bound; the lock is held
\* exactly while a handler is under way.
ServerTypeOK ==
    /\ up \in BOOLEAN
    /\ engine \in Documents /\ file \in Documents
    /\ afterLoss \subseteq Documents
    /\ lock \in Writers \cup {Nobody}
    /\ job.at \in {"idle", "applied", "renamed", "unsynced", "durable", "journalled",
                   "announced"}
    /\ job.before \in Documents
    /\ (lock = Nobody) = (job.at = "idle")
    /\ job.at # "idle" => job.request \in Requests
    /\ Len(journal) <= JournalCap /\ Len(idem) <= IdemCap
    /\ \A i \in 1..Len(journal) : journal[i] \in [revision : Nat, change : Changes \cup {NoContent}]
    /\ \A i \in 1..Len(idem) : idem[i] \in [request : Requests, revision : Nat]
    /\ \A w \in Writers : answer[w].status \in {"none", "ok", "refused", "failed"}
    /\ \A f \in Followers : poll[f].at \in {"read", "idle", "check", "checked", "wait", "got"}
    /\ copy \in [Followers -> Documents]
    /\ faults \in 0..MaxFaults

(***************************************************************************)
(* A change that was answered with success is in the document for good: in *)
(* the engine, in the file, and in whatever a loss of power may leave,     *)
(* under the revision the answer named (ARCH-008, API-009).  Repeated      *)
(* answers are no exception.                                               *)
(***************************************************************************)
Surviving == afterLoss \cup {file} \cup (IF up THEN {engine} ELSE {})

AnswersStand ==
    \A w \in Writers : answer[w].status = "ok" =>
        \A d \in Surviving : /\ answer[w].revision <= Len(d)
                             /\ d[answer[w].revision] = answer[w].change

(***************************************************************************)
(* Between two handlers the file holds what the engine holds, whatever     *)
(* writes have failed before ("a failed write must leave the prior         *)
(* document and engine projection active", ARCH-008).                      *)
(***************************************************************************)
FileIsEngine == Unlocked => file = engine

(***************************************************************************)
(* Between two handlers the journal is the newest part of the document:    *)
(* no revision is missing from it, repeated, or under another's number.    *)
(***************************************************************************)
JournalExact ==
    Unlocked => \A i \in 1..Len(journal) :
        /\ journal[i].revision = Len(engine) - Len(journal) + i
        /\ journal[i].change = engine[journal[i].revision] \/ journal[i].change = NoContent

(***************************************************************************)
(* A follower that waits has seen the current revision, or an announcement *)
(* is on its way to it: no commit is slept through.                        *)
(***************************************************************************)
NoLostWakeup ==
    Unlocked => \A f \in Followers :
        (poll[f].at = "wait" /\ ~poll[f].unseen) => Len(copy[f]) = Len(engine)

(***************************************************************************)
(* A request id stands for one remembered request, although requests with  *)
(* the same id may arrive together (API-009).                              *)
(***************************************************************************)
RequestIdsUnique ==
    \A i, j \in 1..Len(idem) :
        idem[i].request.id = idem[j].request.id => i = j

(***************************************************************************)
(* Once the server stays up and nobody writes any more, every follower     *)
(* ends up with the server's document.                                     *)
(***************************************************************************)
FollowersCatchUp == <>[]up => <>[](\A f \in Followers : copy[f] = engine)

(***************************************************************************)
(* As long as the power stays on, the server and its clients share one     *)
(* linear history (AnalysisHistory): no two documents carry one revision.  *)
(***************************************************************************)
ImplementsHistory == History!HistorySpec
=============================================================================
