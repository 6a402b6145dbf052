------------------------ MODULE AnalysisServerProofs ------------------------
(***************************************************************************)
(* Proofs about the server's document, for every number of clients, every  *)
(* length of its queues, and every way crashes, losses of power and failed *)
(* writes may fall: what was answered stands, the journal is exact, and no *)
(* commit is slept through.                                                *)
(***************************************************************************)
EXTENDS AnalysisServer, NumberFacts, TLAPS

Contents == Changes \cup {NoContent}

Jobs == {NoJob}
        \cup [at : {"applied", "renamed", "unsynced", "durable", "journalled",
                    "announced"},
              before : Documents, request : Requests]

Answers == [status : {"none", "refused", "failed"}]
           \cup [status : {"ok"}, revision : Nat, change : Changes]

Polls == [at : {"read", "idle"}]
         \cup [at : {"check", "checked", "wait"}, unseen : BOOLEAN]
         \cup [at : {"got"}, response : [reset : BOOLEAN, changes : Seq(Changes)]]

Entries == [revision : Nat, change : Contents]

Memories == [request : Requests, revision : Nat]

(***************************************************************************)
(* The inductive invariant: types, the handler under way, the answers and  *)
(* what they promise, the journal, and the followers that wait.            *)
(***************************************************************************)
TypeInv ==
    /\ up \in BOOLEAN
    /\ engine \in Documents /\ file \in Documents
    /\ afterLoss \subseteq Documents
    /\ lock \in Writers \cup {Nobody}
    /\ job \in Jobs
    /\ journal \in Seq(Entries) /\ Len(journal) <= JournalCap
    /\ idem \in Seq(Memories) /\ Len(idem) <= IdemCap
    /\ answer \in [Writers -> Answers]
    /\ poll \in [Followers -> Polls]
    /\ copy \in [Followers -> Documents]
    /\ faults \in 0..MaxFaults

\* A handler that has applied its change has extended the document by it,
\* and from its rename on the file is the engine's document, for good once
\* the directory is synced.
JobInv ==
    /\ lock = Nobody <=> job.at = "idle"
    /\ lock # Nobody =>
          /\ up
          /\ engine = Append(job.before, job.request.change)
          /\ job.at \in {"renamed", "unsynced", "durable", "journalled", "announced"}
                => file = engine
          /\ job.at \in {"durable", "journalled", "announced"} => afterLoss = {engine}

\* What may still become the document.
Kept == Surviving \cup (IF lock = Nobody THEN {} ELSE {job.before})

Holds(d, revision, change) == revision \in 1..Len(d) /\ d[revision] = change

AnswerInv ==
    /\ \A w \in Writers : answer[w].status = "ok" =>
          \A d \in Kept : Holds(d, answer[w].revision, answer[w].change)
    /\ \A i \in 1..Len(idem) : /\ up
                               /\ \A d \in Kept : Holds(d, idem[i].revision,
                                                        idem[i].request.change)

\* The document the journal tells of: a handler writes its entry late.
Written ==
    IF lock = Nobody \/ job.at \in {"journalled", "announced"} THEN engine ELSE job.before

JournalInv ==
    \A i \in 1..Len(journal) :
        /\ up
        /\ journal[i].revision = Len(Written) - Len(journal) + i
        /\ journal[i].revision \in 1..Len(Written)
        /\ journal[i].change = Written[journal[i].revision] \/ journal[i].change = NoContent

\* The document that has been announced.
Announced == IF lock = Nobody \/ job.at = "announced" THEN engine ELSE job.before

WakeInv ==
    \A f \in Followers :
        /\ up \/ ~Subscribed(poll[f])
        /\ poll[f].at \in {"checked", "wait"} /\ ~poll[f].unseen
              => Len(copy[f]) = Len(Announced)

ServerInv == TypeInv /\ JobInv /\ AnswerInv /\ JournalInv /\ WakeInv

-----------------------------------------------------------------------------
(***************************************************************************)
(* Lemmas about the operators.                                             *)
(***************************************************************************)
\* A bounded queue keeps its bound and holds the new entry and old ones.
LEMMA PushedQueue ==
    ASSUME NEW S, NEW q \in Seq(S), NEW e \in S, NEW cap \in Nat, Len(q) <= cap
    PROVE  /\ Pushed(q, e, cap) \in Seq(S)
           /\ Len(Pushed(q, e, cap)) <= cap
           /\ \/ Len(q) < cap /\ Pushed(q, e, cap) = Append(q, e)
              \/ Len(q) = cap /\ Pushed(q, e, cap) = Tail(Append(q, e))
<1>1. /\ Append(q, e) \in Seq(S) /\ Len(Append(q, e)) = Len(q) + 1
      /\ Len(q) \in Nat
  OBVIOUS
<1>2. Tail(Append(q, e)) \in Seq(S) /\ Len(Tail(Append(q, e))) = Len(q)
  BY <1>1
<1> QED
  BY <1>1, <1>2 DEF Pushed

\* A handler under way holds a well-formed job.
LEMMA HandlerJob ==
    ASSUME TypeInv, JobInv, NEW w \in Writers, NEW at, at # "idle", Holding(w, at)
    PROVE  /\ up /\ lock = w /\ lock # Nobody /\ job.at = at
           /\ job \in [at : {"applied", "renamed", "unsynced", "durable",
                           "journalled", "announced"},
                    before : Documents, request : Requests]
           /\ job.before \in Documents /\ job.request \in Requests
           /\ job.request.change \in Changes
           /\ engine = Append(job.before, job.request.change)
           /\ Len(engine) = Len(job.before) + 1
           /\ Len(job.before) \in Nat
<1>1. up /\ lock = w /\ lock # Nobody /\ job.at = at
  BY ServerAssumption DEF Holding
<1>2. job # NoJob
  BY <1>1 DEF NoJob
<1>3. job \in [at : {"applied", "renamed", "unsynced", "durable", "journalled",
                   "announced"}, before : Documents, request : Requests]
  BY <1>2 DEF TypeInv, Jobs
<1>4. job.before \in Documents /\ job.request \in Requests
  BY <1>3
<1>5. job.request.change \in Changes
  BY <1>4 DEF Requests
<1>6. engine = Append(job.before, job.request.change)
  BY <1>1 DEF JobInv
<1>7. Len(engine) = Len(job.before) + 1 /\ Len(job.before) \in Nat
  BY <1>4, <1>5, <1>6 DEF Documents
<1> QED
  BY <1>1, <1>3, <1>4, <1>5, <1>6, <1>7

\* What the journal tells a reader: changes that are there, and nothing only
\* if there is nothing new.
LEMMA JournalAnswer ==
    ASSUME TypeInv, JobInv, JournalInv, Unlocked, NEW after \in Nat
    PROVE  /\ ChangesSince(after) \in [reset : BOOLEAN, changes : Seq(Changes)]
           /\ (~ChangesSince(after).reset /\ ChangesSince(after).changes = <<>>)
                 => after = Len(engine)
<1> DEFINE first == Min(Newer(after))
           last == Min({first + PageCap - 1, Len(journal)})
           page == [i \in 1..last - first + 1 |-> journal[first + i - 1].change]
<1>1. /\ Len(journal) \in Nat /\ Len(engine) \in Nat
      /\ \A i \in 1..Len(journal) : journal[i] \in Entries
  BY DEF TypeInv, Documents
<1>2. \A i \in 1..Len(journal) : journal[i].revision = Len(engine) - Len(journal) + i
  BY DEF JournalInv, Written, Unlocked
<1>3. CASE Reset(after)
  BY <1>3 DEF ChangesSince
<1>4. CASE ~Reset(after) /\ Newer(after) = {}
  <2>1. after = Len(engine)
    BY <1>1, <1>4 DEF Reset, Expired
  <2> QED
    BY <1>4, <2>1 DEF ChangesSince
<1>5. CASE ~Reset(after) /\ Newer(after) # {}
  <2>1. Newer(after) \in SUBSET Nat
    BY DEF Newer
  <2>2. first \in Newer(after)
    BY <1>5, <2>1, LeastNat
  <2>3. first \in 1..Len(journal) /\ journal[first].revision > after
    BY <2>2 DEF Newer
  <2>4. {first + PageCap - 1, Len(journal)} \in SUBSET Nat
    BY <1>1, <2>3, ServerAssumption
  <2>5. last \in {first + PageCap - 1, Len(journal)} /\ last <= Len(journal)
    BY <2>4, LeastNat
  <2> HIDE DEF first, last
  <2>6. last \in first..Len(journal)
    BY <1>1, <2>3, <2>5, ServerAssumption
  <2>7. ASSUME NEW i \in 1..last - first + 1
        PROVE  journal[first + i - 1].change \in Changes
    <3> DEFINE j == first + i - 1
    <3>1. j \in first..Len(journal) /\ j \in 1..Len(journal)
      BY <1>1, <2>3, <2>6
    <3>2. journal[j].revision > after
      BY <1>1, <1>2, <2>3, <3>1
    <3>3. journal[j].change # NoContent
      BY <1>5, <3>1, <3>2 DEF Reset, Newer
    <3>4. journal[j].change \in Contents
      BY <1>1, <3>1 DEF Entries
    <3> QED
      BY <3>3, <3>4 DEF Contents
  <2>8. page \in Seq(Changes) /\ page # <<>>
    <3>1. last - first + 1 \in Nat /\ last - first + 1 >= 1
      BY <1>1, <2>3, <2>6
    <3>2. page \in [1..last - first + 1 -> Changes]
      BY <2>7
    <3>3. page \in Seq(Changes) /\ Len(page) = last - first + 1
      BY <3>1, <3>2
    <3> QED
      BY <3>1, <3>3
  <2>9. ChangesSince(after) = [reset |-> FALSE, changes |-> page]
    BY <1>5 DEF ChangesSince, first, last
  <2> QED
    BY <2>8, <2>9
<1> QED
  BY <1>3, <1>4, <1>5

\* The cases of a step.
LEMMA StepCases ==
    ASSUME [ServerNext]_vars, NEW P,
           UNCHANGED vars => P,
           \A w \in Writers, request \in Requests :
               Repeat(w, request) \/ Apply(w, request) => P,
           \A w \in Writers : Refuse(w) \/ HandlerStep(w) => P,
           \A f \in Followers : FollowerStep(f) => P,
           Crash \/ LosePower => P,
           Restart => P
    PROVE  P
BY DEF ServerNext

-----------------------------------------------------------------------------
(***************************************************************************)
(* Types.                                                                  *)
(***************************************************************************)
LEMMA FailType ==
    ASSUME TypeInv, JobInv, NEW w \in Writers, NEW at, at # "idle", Holding(w, at),
           Fail(w)
    PROVE  /\ up' = up /\ engine' = job.before /\ engine' \in Documents
           /\ lock' = Nobody /\ job' = NoJob
           /\ answer' \in [Writers -> Answers]
           /\ UNCHANGED <<journal, idem, poll, copy>>
<1>1. job.before \in Documents
  BY HandlerJob
<1>2. [status |-> "failed"] \in Answers
  BY DEF Answers
<1> QED
  BY <1>1, <1>2 DEF Fail, Release, Answer, TypeInv

LEMMA ReachType ==
    ASSUME TypeInv, JobInv, NEW w \in Writers, NEW at, at # "idle", Holding(w, at),
           NEW to \in {"renamed", "unsynced", "durable", "journalled", "announced"},
           Reach(to)
    PROVE  /\ job' \in Jobs /\ job'.at = to
           /\ job'.before = job.before /\ job'.request = job.request
<1>1. job \in [at : {"applied", "renamed", "unsynced", "durable", "journalled",
                   "announced"}, before : Documents, request : Requests]
  BY HandlerJob
<1>2. job' = [job EXCEPT !.at = to]
  BY DEF Reach
<1> QED
  BY <1>1, <1>2 DEF Jobs

LEMMA WriterType ==
    ASSUME TypeInv, JobInv, NEW w \in Writers, NEW request \in Requests,
           Repeat(w, request) \/ Apply(w, request) \/ Refuse(w)
    PROVE  TypeInv'
<1>1. CASE Repeat(w, request)
  <2>1. PICK i \in 1..Len(idem) :
            /\ idem[i].request = request
            /\ Answer(w, Done(request, idem[i].revision))
    BY <1>1 DEF Repeat, Retained
  <2>2. idem[i] \in Memories
    BY <2>1 DEF TypeInv
  <2>3. Done(request, idem[i].revision) \in Answers
    BY <2>2 DEF Done, Answers, Memories, Requests
  <2> QED
    BY <1>1, <2>1, <2>3 DEF Repeat, Answer, TypeInv, memory, disk
<1>2. CASE Apply(w, request)
  <2>1. engine' \in Documents
    BY <1>2 DEF Apply, TypeInv, Documents, Requests
  <2>2. job' \in Jobs
    BY <1>2 DEF Apply, Jobs, TypeInv
  <2> QED
    BY <1>2, <2>1, <2>2 DEF Apply, TypeInv, disk, clients
<1>3. CASE Refuse(w)
  <2>1. [status |-> "refused"] \in Answers
    BY DEF Answers
  <2> QED
    BY <1>3, <2>1 DEF Refuse, Answer, TypeInv, memory, disk
<1> QED
  BY <1>1, <1>2, <1>3

LEMMA HandlerType ==
    ASSUME TypeInv, JobInv, NEW w \in Writers, HandlerStep(w)
    PROVE  TypeInv'
<1>0. NoJob \in Jobs
  BY DEF Jobs
<1>1. ASSUME Fault PROVE faults' \in 0..MaxFaults
  BY <1>1, ServerAssumption DEF Fault, TypeInv
<1>2. CASE WriteFails(w)
  BY <1>0, <1>1, <1>2, FailType DEF WriteFails, TypeInv, disk
<1>3. CASE Rename(w)
  BY <1>3, ReachType DEF Rename, TypeInv, clients
<1>4. CASE SyncDirectory(w)
  BY <1>4, ReachType DEF SyncDirectory, TypeInv, clients
<1>5. CASE SyncFails(w)
  BY <1>1, <1>5, ReachType DEF SyncFails, TypeInv, disk, clients
<1>6. CASE RollBack(w)
  <2>1. engine' = job.before /\ engine' \in Documents
    BY <1>6, FailType DEF RollBack
  <2> QED
    BY <1>0, <1>6, <2>1, FailType DEF RollBack, TypeInv
<1>7. CASE RollBackFails(w)
  BY <1>0, <1>7, FailType DEF RollBackFails, TypeInv, disk
<1>8. CASE Journal(w)
  <2>1. Entry(job.request.change) \in Entries
    BY <1>8, HandlerJob DEF Journal, Entry, Entries, Contents, TypeInv, Documents
  <2>2. /\ Journalled(job.request.change) \in Seq(Entries)
        /\ Len(Journalled(job.request.change)) <= JournalCap
    BY <2>1, PushedQueue, ServerAssumption DEF Journalled, TypeInv
  <2> QED
    BY <1>8, <2>2, ReachType DEF Journal, TypeInv, disk, clients
<1>9. CASE Announce(w)
  <2>1. ASSUME NEW f \in Followers, Subscribed(poll[f])
        PROVE  [poll[f] EXCEPT !.unseen = TRUE] \in Polls
    <3>1. poll[f] \in [at : {"check", "checked", "wait"}, unseen : BOOLEAN]
      BY <2>1 DEF TypeInv, Polls, Subscribed
    <3> QED
      BY <3>1 DEF Polls
  <2>2. poll' \in [Followers -> Polls]
    BY <1>9, <2>1 DEF Announce, TypeInv
  <2> QED
    BY <1>9, <2>2, ReachType DEF Announce, TypeInv, disk
<1>10. CASE Succeed(w)
  <2>1. /\ job.request \in Requests /\ job.request.change \in Changes
        /\ Len(engine) \in Nat
    BY <1>10, HandlerJob DEF Succeed, TypeInv, Documents
  <2>2. Done(job.request, Len(engine)) \in Answers
    BY <2>1 DEF Done, Answers
  <2>3. idem' \in Seq(Memories) /\ Len(idem') <= IdemCap
    <3>1. [request |-> job.request, revision |-> Len(engine)] \in Memories
      BY <2>1 DEF Memories
    <3> QED
      BY <1>10, <3>1, PushedQueue, ServerAssumption DEF Succeed, Remembered, TypeInv
  <2> QED
    BY <1>0, <1>10, <2>2, <2>3 DEF Succeed, Release, Answer, TypeInv, disk
<1> QED
  BY <1>2, <1>3, <1>4, <1>5, <1>6, <1>7, <1>8, <1>9, <1>10 DEF HandlerStep

LEMMA FollowerType ==
    ASSUME TypeInv, JobInv, JournalInv, NEW f \in Followers, FollowerStep(f)
    PROVE  TypeInv'
<1>0. Len(copy[f]) \in Nat /\ copy[f] \in Documents
  BY DEF TypeInv, Documents
<1>1. ASSUME NEW p \in Polls, Move(f, p)
      PROVE  poll' \in [Followers -> Polls]
  BY <1>1 DEF Move, TypeInv
<1>2. CASE Subscribe(f)
  <2>1. [at |-> "check", unseen |-> FALSE] \in Polls
    BY DEF Polls
  <2> QED
    BY <1>1, <1>2, <2>1 DEF Subscribe, TypeInv, memory, disk
<1>3. CASE Check(f)
  <2> DEFINE response == ChangesSince(Len(copy[f]))
  <2>1. response \in [reset : BOOLEAN, changes : Seq(Changes)]
    BY <1>0, <1>3, JournalAnswer DEF Check
  <2>2. [at |-> "got", response |-> response] \in Polls
    BY <2>1 DEF Polls
  <2>3. [poll[f] EXCEPT !.at = "checked"] \in Polls
    BY <1>3 DEF Check, Polls, TypeInv
  <2> QED
    BY <1>1, <1>3, <2>2, <2>3 DEF Check, TypeInv, memory, disk
<1>4. CASE Wait(f)
  <2>1. [poll[f] EXCEPT !.at = "wait"] \in Polls
    BY <1>4 DEF Wait, Polls, TypeInv
  <2> QED
    BY <1>1, <1>4, <2>1 DEF Wait, TypeInv, memory, disk
<1>5. CASE Wake(f)
  <2>1. [at |-> "check", unseen |-> FALSE] \in Polls
    BY DEF Polls
  <2> QED
    BY <1>1, <1>5, <2>1 DEF Wake, TypeInv, memory, disk
<1>6. CASE TimeOut(f)
  <2> DEFINE response == ChangesSince(Len(copy[f]))
  <2>1. response \in [reset : BOOLEAN, changes : Seq(Changes)]
    BY <1>0, <1>6, JournalAnswer DEF TimeOut
  <2>2. [at |-> "got", response |-> response] \in Polls
    BY <2>1 DEF Polls
  <2> QED
    BY <1>1, <1>6, <2>2 DEF TimeOut, TypeInv, memory, disk
<1>7. CASE Receive(f)
  <2>1. poll[f].response.changes \in Seq(Changes)
    BY <1>7 DEF Receive, TypeInv, Polls
  <2>2. [at |-> "read"] \in Polls /\ [at |-> "idle"] \in Polls
    BY DEF Polls
  <2>3. copy[f] \o poll[f].response.changes \in Documents
    BY <1>0, <2>1 DEF Documents
  <2>4. copy' \in [Followers -> Documents] /\ poll' \in [Followers -> Polls]
    BY <1>1, <1>7, <2>2, <2>3 DEF Receive, TypeInv
  <2> QED
    BY <1>7, <2>4 DEF Receive, TypeInv, memory, disk
<1>8. CASE Read(f)
  <2>1. [at |-> "idle"] \in Polls
    BY DEF Polls
  <2> QED
    BY <1>1, <1>8, <2>1 DEF Read, TypeInv, memory, disk
<1> QED
  BY <1>2, <1>3, <1>4, <1>5, <1>6, <1>7, <1>8 DEF FollowerStep

LEMMA FailureType ==
    ASSUME TypeInv, Crash \/ LosePower \/ Restart
    PROVE  TypeInv'
<1>1. /\ NoJob \in Jobs
      /\ <<>> \in Documents /\ <<>> \in Seq(Entries) /\ <<>> \in Seq(Memories)
      /\ Len(<<>>) <= JournalCap /\ Len(<<>>) <= IdemCap
      /\ [at |-> "idle"] \in Polls /\ [at |-> "read"] \in Polls
  <2>1. Len(<<>>) = 0
    OBVIOUS
  <2>2. [at |-> "idle"] \in Polls /\ [at |-> "read"] \in Polls
    BY DEF Polls
  <2>3. <<>> \in Documents /\ <<>> \in Seq(Entries) /\ <<>> \in Seq(Memories)
    BY DEF Documents
  <2> QED
    BY <2>1, <2>2, <2>3, ServerAssumption DEF Jobs
<1>2. ASSUME Stop
      PROVE  /\ up' \in BOOLEAN /\ engine' \in Documents /\ lock' = Nobody
             /\ job' \in Jobs /\ answer' = answer
             /\ journal' \in Seq(Entries) /\ Len(journal') <= JournalCap
             /\ idem' \in Seq(Memories) /\ Len(idem') <= IdemCap
             /\ faults' \in 0..MaxFaults
  <2>1. faults' \in 0..MaxFaults
    BY <1>2, ServerAssumption DEF Stop, Fault, TypeInv
  <2>2. up' = FALSE /\ engine' = <<>> /\ journal' = <<>> /\ idem' = <<>>
    BY <1>2 DEF Stop
  <2>3. lock' = Nobody /\ job' = NoJob /\ answer' = answer
    BY <1>2 DEF Stop, Release
  <2> QED
    BY <1>1, <2>1, <2>2, <2>3, Zenon
<1>3. CASE Crash
  BY <1>1, <1>2, <1>3 DEF Crash, TypeInv, disk
<1>4. CASE LosePower
  BY <1>1, <1>2, <1>4 DEF LosePower, TypeInv
<1>5. CASE Restart
  BY <1>5 DEF Restart, TypeInv, disk, clients
<1> QED
  BY <1>3, <1>4, <1>5

-----------------------------------------------------------------------------
(***************************************************************************)
(* The handler under way.                                                  *)
(***************************************************************************)
LEMMA JobStep ==
    ASSUME TypeInv, JobInv, [ServerNext]_vars
    PROVE  JobInv'
<1>0. lock # Nobody => job.before \in Documents
  BY DEF TypeInv, JobInv, Jobs, NoJob, Documents
<1>1. CASE UNCHANGED vars
  BY <1>1 DEF JobInv, vars, memory, disk
<1>2. ASSUME NEW w \in Writers, NEW request \in Requests,
             Repeat(w, request) \/ Apply(w, request)
      PROVE  JobInv'
  <2>1. CASE Repeat(w, request)
    BY <2>1 DEF Repeat, JobInv, memory, disk
  <2>2. CASE Apply(w, request)
    BY <2>2, ServerAssumption DEF Apply, JobInv, Unlocked, disk
  <2> QED
    BY <1>2, <2>1, <2>2
<1>3. ASSUME NEW w \in Writers, Refuse(w) \/ HandlerStep(w)
      PROVE  JobInv'
  <2>1. CASE Refuse(w)
    BY <2>1 DEF Refuse, JobInv, memory, disk
  <2>2. CASE WriteFails(w) \/ RollBack(w) \/ RollBackFails(w)
    <3>1. lock' = Nobody /\ job' = NoJob
      BY <2>2 DEF WriteFails, RollBack, RollBackFails, Fail, Release
    <3> QED
      BY <3>1 DEF JobInv, NoJob
  <2>3. CASE Rename(w)
    BY <2>3, HandlerJob, ReachType DEF Rename, JobInv
  <2>4. CASE SyncDirectory(w)
    BY <2>4, HandlerJob, ReachType DEF SyncDirectory, JobInv
  <2>5. CASE SyncFails(w)
    BY <2>5, HandlerJob, ReachType DEF SyncFails, JobInv, disk
  <2>6. CASE Journal(w)
    BY <2>6, HandlerJob, ReachType DEF Journal, JobInv, disk
  <2>7. CASE Announce(w)
    BY <2>7, HandlerJob, ReachType DEF Announce, JobInv, disk
  <2>8. CASE Succeed(w)
    <3>1. lock' = Nobody /\ job' = NoJob
      BY <2>8 DEF Succeed, Release
    <3> QED
      BY <3>1 DEF JobInv, NoJob
  <2> QED
    BY <1>3, <2>1, <2>2, <2>3, <2>4, <2>5, <2>6, <2>7, <2>8 DEF HandlerStep
<1>4. ASSUME NEW f \in Followers, FollowerStep(f)
      PROVE  JobInv'
  <2>1. UNCHANGED <<up, memory, disk>>
    BY <1>4 DEF FollowerStep, Subscribe, Check, Wait, Wake, TimeOut, Receive, Read
  <2> QED
    BY <2>1 DEF JobInv, memory, disk
<1>5. CASE Crash \/ LosePower
  <2>1. lock' = Nobody /\ job' = NoJob
    BY <1>5 DEF Crash, LosePower, Stop, Release
  <2> QED
    BY <2>1 DEF JobInv, NoJob
<1>6. CASE Restart
  BY <1>6 DEF Restart, JobInv, disk
<1> QED
  BY <1>1, <1>2, <1>3, <1>4, <1>5, <1>6, StepCases

-----------------------------------------------------------------------------
(***************************************************************************)
(* The answers.  Whatever may become the document later may become it now, *)
(* or extends what may; so nothing that was answered is lost.              *)
(***************************************************************************)
LEMMA StillKept ==
    ASSUME AnswerInv, Kept' \subseteq Kept,
           (idem' = idem /\ up' = up) \/ idem' = <<>>,
           \A w \in Writers : answer'[w].status = "ok" => answer'[w] = answer[w]
    PROVE  AnswerInv'
<1>1. ASSUME NEW w \in Writers, answer'[w].status = "ok", NEW d \in Kept'
      PROVE  Holds(d, answer'[w].revision, answer'[w].change)
  BY <1>1 DEF AnswerInv
<1>2. ASSUME NEW i \in 1..Len(idem'), NEW d \in Kept'
      PROVE  up' /\ Holds(d, idem'[i].revision, idem'[i].request.change)
  <2>1. idem' = idem /\ up' = up
    <3>1. idem' # <<>>
      BY <1>2
    <3> QED
      BY <3>1
  <2> QED
    BY <1>2, <2>1 DEF AnswerInv
<1>3. ASSUME NEW i \in 1..Len(idem')
      PROVE  up'
  <2>1. idem' # <<>>
    BY <1>3
  <2> QED
    BY <1>3, <2>1 DEF AnswerInv
<1> QED
  BY <1>1, <1>2, <1>3 DEF AnswerInv, Holds

LEMMA ApplyAnswer ==
    ASSUME TypeInv, JobInv, AnswerInv, NEW w \in Writers, NEW request \in Requests,
           Apply(w, request)
    PROVE  AnswerInv'
<1>1. /\ up /\ lock = Nobody /\ lock' = w /\ w # Nobody /\ job'.before = engine
      /\ engine' = Append(engine, request.change)
      /\ UNCHANGED <<up, idem, file, afterLoss, answer>>
  BY ServerAssumption DEF Apply, Unlocked, disk, clients
<1>2. engine \in Kept /\ Kept' = Kept \cup {engine'}
  BY <1>1 DEF Kept, Surviving
<1>3. ASSUME NEW r, NEW c, \A d \in Kept : Holds(d, r, c)
      PROVE  \A d \in Kept' : Holds(d, r, c)
  <2>1. r \in 1..Len(engine) /\ engine[r] = c
    BY <1>2, <1>3 DEF Holds
  <2>2. engine \in Seq(Changes) /\ request.change \in Changes
    BY DEF TypeInv, Documents, Requests
  <2>3. r \in 1..Len(engine') /\ engine'[r] = c
    BY <1>1, <2>1, <2>2
  <2> QED
    BY <1>2, <1>3, <2>3 DEF Holds
<1>4. /\ \A v \in Writers : answer'[v].status = "ok" =>
            \A d \in Kept' : Holds(d, answer'[v].revision, answer'[v].change)
      /\ \A i \in 1..Len(idem') :
            /\ up'
            /\ \A d \in Kept' : Holds(d, idem'[i].revision, idem'[i].request.change)
  BY <1>1, <1>3 DEF AnswerInv
<1> QED
  BY <1>4 DEF AnswerInv, Holds

LEMMA SucceedAnswer ==
    ASSUME TypeInv, JobInv, AnswerInv, NEW w \in Writers, Succeed(w)
    PROVE  AnswerInv'
<1> DEFINE entry == [request |-> job.request, revision |-> Len(engine)]
<1>1. /\ up /\ lock # Nobody /\ file = engine /\ afterLoss = {engine}
      /\ job.request \in Requests /\ job.request.change \in Changes
      /\ job.before \in Documents
      /\ engine = Append(job.before, job.request.change)
  BY HandlerJob DEF Succeed, Holding, JobInv
<1>2. /\ lock' = Nobody /\ idem' = Remembered(job.request)
      /\ answer' = [answer EXCEPT ![w] = Done(job.request, Len(engine))]
      /\ UNCHANGED <<up, engine, file, afterLoss>>
  BY DEF Succeed, Release, Answer, disk
<1>3. engine \in Kept /\ Kept' = {engine}
  BY <1>1, <1>2 DEF Kept, Surviving
<1>4. Holds(engine, Len(engine), job.request.change)
  BY <1>1 DEF Holds, Documents
<1>5. ASSUME NEW v \in Writers, answer'[v].status = "ok"
      PROVE  Holds(engine, answer'[v].revision, answer'[v].change)
  <2>1. CASE v = w
    BY <1>2, <1>4, <2>1 DEF Done, TypeInv
  <2>2. CASE v # w
    <3>1. answer'[v] = answer[v]
      BY <1>2, <2>2 DEF TypeInv
    <3> QED
      BY <1>3, <1>5, <3>1 DEF AnswerInv
  <2> QED
    BY <2>1, <2>2
<1>6. ASSUME NEW i \in 1..Len(idem')
      PROVE  Holds(engine, idem'[i].revision, idem'[i].request.change)
  <2>1. entry \in Memories /\ Len(engine) \in Nat /\ idem \in Seq(Memories)
    BY <1>1 DEF Memories, TypeInv, Documents
  <2>2. idem' \in {idem, Append(idem, entry), Tail(Append(idem, entry))}
    <3>1. Len(idem) <= IdemCap /\ IdemCap \in Nat
      BY ServerAssumption DEF TypeInv
    <3>2. \/ Pushed(idem, entry, IdemCap) = Append(idem, entry)
          \/ Pushed(idem, entry, IdemCap) = Tail(Append(idem, entry))
      <4>1. \A S : \A q \in Seq(S), e \in S, cap \in Nat : Len(q) <= cap =>
              \/ Pushed(q, e, cap) = Append(q, e)
              \/ Pushed(q, e, cap) = Tail(Append(q, e))
        BY PushedQueue
      <4> QED
        BY <2>1, <3>1, <4>1, Zenon
    <3>3. idem' \in {idem, Pushed(idem, entry, IdemCap)}
      BY <1>2 DEF Remembered
    <3> QED
      BY <3>2, <3>3
  <2>3. idem'[i] = entry \/ \E j \in 1..Len(idem) : idem'[i] = idem[j]
    <3>1. CASE idem' = idem
      BY <3>1
    <3>2. CASE idem' = Append(idem, entry)
      BY <2>1, <3>2
    <3>3. CASE idem' = Tail(Append(idem, entry))
      <4> DEFINE all == Append(idem, entry)
      <4>1. /\ all \in Seq(Memories) /\ Len(all) = Len(idem) + 1 /\ all # <<>>
            /\ \A j \in 1..Len(all) :
                  all[j] = entry \/ (j \in 1..Len(idem) /\ all[j] = idem[j])
        BY <2>1
      <4> HIDE DEF all, entry
      <4>2. Len(Tail(all)) = Len(idem) /\ \A j \in 1..Len(idem) : Tail(all)[j] = all[j + 1]
        BY <2>1, <4>1
      <4>3. i \in 1..Len(idem) /\ idem'[i] = all[i + 1] /\ i + 1 \in 1..Len(all)
        BY <2>1, <3>3, <4>1, <4>2 DEF all
      <4> QED
        BY <4>1, <4>3
    <3> QED
      BY <2>2, <3>1, <3>2, <3>3
  <2>4. CASE idem'[i] = entry
    BY <1>4, <2>4
  <2>5. CASE \E j \in 1..Len(idem) : idem'[i] = idem[j]
    BY <1>3, <2>5 DEF AnswerInv
  <2> QED
    BY <2>3, <2>4, <2>5
<1>7. /\ \A v \in Writers : answer'[v].status = "ok" =>
            \A d \in Kept' : Holds(d, answer'[v].revision, answer'[v].change)
      /\ \A i \in 1..Len(idem') :
            /\ up'
            /\ \A d \in Kept' : Holds(d, idem'[i].revision, idem'[i].request.change)
  BY <1>1, <1>2, <1>3, <1>5, <1>6
<1> QED
  BY <1>7 DEF AnswerInv, Holds

LEMMA AnswerStep ==
    ASSUME TypeInv, JobInv, AnswerInv, [ServerNext]_vars
    PROVE  AnswerInv'
<1>1. CASE UNCHANGED vars
  BY <1>1, StillKept DEF vars, memory, disk, clients, Kept, Surviving
<1>2. ASSUME NEW w \in Writers, NEW request \in Requests,
             Repeat(w, request) \/ Apply(w, request)
      PROVE  AnswerInv'
  <2>1. CASE Repeat(w, request)
    <3>1. PICK i \in 1..Len(idem) :
              /\ idem[i].request = request
              /\ Answer(w, Done(request, idem[i].revision))
      BY <2>1 DEF Repeat, Retained
    <3>2. UNCHANGED <<up, engine, lock, job, idem, file, afterLoss>>
      BY <2>1 DEF Repeat, memory, disk
    <3>3. Kept' = Kept
      BY <3>2 DEF Kept, Surviving
    <3>4. ASSUME NEW v \in Writers, answer'[v].status = "ok"
          PROVE  \A d \in Kept : Holds(d, answer'[v].revision, answer'[v].change)
      <4>1. CASE v = w
        <5>1. /\ answer'[v].revision = idem[i].revision
              /\ answer'[v].change = idem[i].request.change
          BY <3>1, <4>1 DEF Answer, Done, TypeInv
        <5> QED
          BY <3>1, <5>1 DEF AnswerInv
      <4>2. CASE v # w
        <5>1. answer'[v] = answer[v]
          BY <3>1, <4>2 DEF Answer, TypeInv
        <5> QED
          BY <3>4, <5>1 DEF AnswerInv
      <4> QED
        BY <4>1, <4>2
    <3>5. \A j \in 1..Len(idem') :
              /\ up'
              /\ \A d \in Kept' : Holds(d, idem'[j].revision, idem'[j].request.change)
      BY <3>2, <3>3 DEF AnswerInv
    <3>6. \A v \in Writers : answer'[v].status = "ok" =>
              \A d \in Kept' : Holds(d, answer'[v].revision, answer'[v].change)
      BY <3>3, <3>4
    <3> QED
      BY <3>5, <3>6 DEF AnswerInv, Holds
  <2> QED
    BY <1>2, <2>1, ApplyAnswer
<1>3. ASSUME NEW w \in Writers, Refuse(w) \/ HandlerStep(w)
      PROVE  AnswerInv'
  <2>1. ASSUME NEW status, status # "ok", Answer(w, [status |-> status])
        PROVE  \A v \in Writers : answer'[v].status = "ok" => answer'[v] = answer[v]
    BY <2>1 DEF Answer, TypeInv
  <2>2. CASE Refuse(w)
    <3>1. Kept' = Kept
      BY <2>2 DEF Refuse, memory, disk, Kept, Surviving
    <3> QED
      BY <2>1, <2>2, <3>1, StillKept DEF Refuse, memory
  <2>3. CASE WriteFails(w) \/ RollBack(w) \/ RollBackFails(w)
    <3>1. /\ lock # Nobody /\ up /\ lock' = Nobody /\ engine' = job.before
          /\ UNCHANGED <<up, idem>> /\ Answer(w, [status |-> "failed"])
      BY <2>3, ServerAssumption
      DEF WriteFails, RollBack, RollBackFails, Fail, Release, Holding
    <3>2. /\ file' \in {file, job.before}
          /\ afterLoss' \subseteq afterLoss \cup {job.before}
      BY <2>3 DEF WriteFails, RollBack, RollBackFails, disk
    <3>3. Kept' \subseteq Kept
      BY <3>1, <3>2 DEF Kept, Surviving
    <3> QED
      BY <2>1, <3>1, <3>3, StillKept
  <2>4. CASE Rename(w) \/ SyncDirectory(w) \/ SyncFails(w) \/ Journal(w) \/ Announce(w)
    <3>1. /\ lock # Nobody /\ up /\ UNCHANGED <<up, engine, lock, idem, answer>>
          /\ \E at \in {"renamed", "durable", "unsynced", "journalled", "announced"} :
                Reach(at)
      BY <2>4, ServerAssumption
      DEF Rename, SyncDirectory, SyncFails, Journal, Announce, Holding, clients
    <3>2. job'.before = job.before
      BY <2>4, ReachType, <3>1
      DEF Rename, SyncDirectory, SyncFails, Journal, Announce
    <3>3. file' \in {file, engine} /\ afterLoss' \subseteq afterLoss \cup {engine, file}
      BY <2>4 DEF Rename, SyncDirectory, SyncFails, Journal, Announce, disk
    <3>4. Kept' \subseteq Kept
      BY <3>1, <3>2, <3>3 DEF Kept, Surviving
    <3> QED
      BY <3>1, <3>4, StillKept
  <2>5. CASE Succeed(w)
    BY <2>5, SucceedAnswer
  <2> QED
    BY <1>3, <2>2, <2>3, <2>4, <2>5 DEF HandlerStep
<1>4. ASSUME NEW f \in Followers, FollowerStep(f)
      PROVE  AnswerInv'
  <2>1. UNCHANGED <<up, memory, disk, answer>>
    BY <1>4 DEF FollowerStep, Subscribe, Check, Wait, Wake, TimeOut, Receive, Read
  <2>2. Kept' = Kept
    BY <2>1 DEF memory, disk, Kept, Surviving
  <2> QED
    BY <2>1, <2>2, StillKept DEF memory
<1>5. CASE Crash \/ LosePower
  <2>1. /\ up' = FALSE /\ lock' = Nobody /\ idem' = <<>> /\ answer' = answer
        /\ file' \in afterLoss \cup {file} /\ afterLoss' \subseteq afterLoss \cup {file'}
    BY <1>5 DEF Crash, LosePower, Stop, Release, disk
  <2>2. Kept' \subseteq Kept
    BY <2>1 DEF Kept, Surviving
  <2> QED
    BY <2>1, <2>2, StillKept
<1>6. CASE Restart
  <2>1. /\ ~up /\ up' /\ engine' = file /\ lock = Nobody
        /\ UNCHANGED <<lock, idem, file, afterLoss, answer>>
    BY <1>6 DEF Restart, JobInv, disk, clients
  <2>2. Kept' \subseteq Kept
    BY <2>1 DEF Kept, Surviving
  <2>3. idem' = <<>>
    <3>1. Len(idem) \in Nat /\ ~(1 \in 1..Len(idem))
      BY <2>1 DEF AnswerInv, TypeInv
    <3> QED
      BY <2>1, <3>1 DEF TypeInv
  <2> QED
    BY <2>1, <2>2, <2>3, StillKept
<1> QED
  BY <1>1, <1>2, <1>3, <1>4, <1>5, <1>6, StepCases

-----------------------------------------------------------------------------
(***************************************************************************)
(* The journal.                                                            *)
(***************************************************************************)
LEMMA SameJournal ==
    ASSUME JournalInv, Written' = Written,
           (journal' = journal /\ up' = up) \/ journal' = <<>>
    PROVE  JournalInv'
<1>1. ASSUME NEW i \in 1..Len(journal')
      PROVE  journal' = journal /\ up' = up
  <2>1. journal' # <<>>
    BY <1>1
  <2> QED
    BY <2>1
<1>2. ASSUME NEW i \in 1..Len(journal')
      PROVE  /\ up'
             /\ journal'[i].revision = Len(Written') - Len(journal') + i
             /\ journal'[i].revision \in 1..Len(Written')
             /\ \/ journal'[i].change = Written'[journal'[i].revision]
                \/ journal'[i].change = NoContent
  BY <1>1, <1>2 DEF JournalInv
<1> QED
  BY <1>2 DEF JournalInv

LEMMA WriteJournal ==
    ASSUME TypeInv, JobInv, JournalInv, NEW w \in Writers, Journal(w)
    PROVE  JournalInv'
<1> DEFINE entry == Entry(job.request.change)
           all == Append(journal, entry)
           n == Len(journal)
<1>1. /\ up /\ lock = w /\ lock # Nobody /\ job.at = "durable"
      /\ job.before \in Seq(Changes) /\ job.request.change \in Changes
      /\ engine = Append(job.before, job.request.change)
      /\ Len(engine) = Len(job.before) + 1 /\ Len(job.before) \in Nat
  BY HandlerJob DEF Journal, Documents
<1>2. /\ journal' = Pushed(journal, entry, JournalCap)
      /\ UNCHANGED <<up, engine, lock>> /\ job'.at = "journalled"
  BY ReachType DEF Journal, Journalled
<1>3. Written = job.before /\ Written' = engine
  BY <1>1, <1>2 DEF Written
<1>4. /\ entry \in Entries /\ entry.revision = Len(engine)
      /\ entry.change \in {job.request.change, NoContent}
  BY <1>1 DEF Entry, Entries, Contents
<1>5. journal \in Seq(Entries) /\ n \in Nat /\ n <= JournalCap /\ Len(engine) \in Nat
  BY <1>1 DEF TypeInv
<1>6. \A k \in 1..n : /\ journal[k].revision = Len(job.before) - n + k
                     /\ journal[k].revision \in 1..Len(job.before)
                     /\ \/ journal[k].change = job.before[journal[k].revision]
                        \/ journal[k].change = NoContent
  BY <1>3 DEF JournalInv
<1> HIDE DEF entry
<1>7. all \in Seq(Entries) /\ Len(all) = n + 1
  BY <1>4, <1>5
<1>8. ASSUME NEW k \in 1..n + 1
      PROVE  /\ all[k].revision = Len(engine) - (n + 1) + k
             /\ all[k].revision \in 1..Len(engine)
             /\ all[k].change = engine[all[k].revision] \/ all[k].change = NoContent
  <2>1. CASE k = n + 1
    <3>1. all[k] = entry
      BY <1>4, <1>5, <2>1
    <3>2. engine[Len(engine)] = job.request.change
      BY <1>1
    <3>3. Len(engine) \in 1..Len(engine)
      BY <1>1
    <3>4. Len(engine) = Len(engine) - (n + 1) + k
      <4>1. \A a \in Nat, b \in Nat : a = a - (b + 1) + (b + 1)
        OBVIOUS
      <4> HIDE DEF n
      <4> QED
        BY <1>5, <2>1, <4>1
    <3>5. all[k].revision = Len(engine) /\ all[k].change \in {job.request.change, NoContent}
      BY <1>4, <3>1
    <3> QED
      BY <3>2, <3>3, <3>4, <3>5
  <2>2. CASE k # n + 1
    <3>1. k \in 1..n /\ all[k] = journal[k]
      BY <1>4, <1>5, <2>2
    <3>2. \A r \in 1..Len(job.before) : r \in 1..Len(engine) /\ engine[r] = job.before[r]
      BY <1>1
    <3> QED
      BY <1>1, <1>5, <1>6, <3>1, <3>2
  <2> QED
    BY <2>1, <2>2
<1> HIDE DEF all
<1>9. journal' = all \/ (journal' = Tail(all) /\ Len(journal') = n)
  <2>1. JournalCap \in Nat
    BY ServerAssumption
  <2>2. Pushed(journal, entry, JournalCap) \in {all, Tail(all)}
    <3>1. Len(journal) <= JournalCap
      BY <1>5
    <3>2. \/ Pushed(journal, entry, JournalCap) = Append(journal, entry)
          \/ Pushed(journal, entry, JournalCap) = Tail(Append(journal, entry))
      BY <1>4, <1>5, <2>1, <3>1, PushedQueue
    <3> QED
      BY <3>2 DEF all
  <2>3. Len(Tail(all)) = n
    BY <1>5, <1>7
  <2> QED
    BY <1>2, <2>2, <2>3
<1>10. ASSUME NEW i \in 1..Len(journal')
       PROVE  /\ journal'[i].revision = Len(engine) - Len(journal') + i
              /\ journal'[i].revision \in 1..Len(engine)
              /\ \/ journal'[i].change = engine[journal'[i].revision]
                 \/ journal'[i].change = NoContent
  <2>1. CASE journal' = all
    BY <1>1, <1>5, <1>7, <1>8, <1>10, <2>1
  <2>2. CASE journal' = Tail(all) /\ Len(journal') = n
    <3>1. i + 1 \in 1..n + 1 /\ journal'[i] = all[i + 1]
      BY <1>5, <1>7, <1>10, <2>2
    <3>2. /\ all[i + 1].revision = Len(engine) - (n + 1) + (i + 1)
          /\ all[i + 1].revision \in 1..Len(engine)
          /\ \/ all[i + 1].change = engine[all[i + 1].revision]
             \/ all[i + 1].change = NoContent
      BY <1>8, <3>1
    <3>3. Len(engine) - (n + 1) + (i + 1) = Len(engine) - Len(journal') + i
      <4>1. \A a, b, c \in Nat : a - (b + 1) + (c + 1) = a - b + c
        OBVIOUS
      <4>2. i \in Nat /\ Len(journal') = n
        BY <1>10, <2>2
      <4> HIDE DEF n
      <4> QED
        BY <1>5, <4>1, <4>2
    <3> QED
      BY <3>1, <3>2, <3>3
  <2> QED
    BY <1>9, <2>1, <2>2
<1> QED
  BY <1>1, <1>2, <1>3, <1>10 DEF JournalInv

LEMMA JournalStep ==
    ASSUME TypeInv, JobInv, JournalInv, [ServerNext]_vars
    PROVE  JournalInv'
<1>1. CASE UNCHANGED vars
  BY <1>1, SameJournal DEF vars, memory, Written
<1>2. ASSUME NEW w \in Writers, NEW request \in Requests,
             Repeat(w, request) \/ Apply(w, request)
      PROVE  JournalInv'
  <2>1. CASE Repeat(w, request)
    BY <2>1, SameJournal DEF Repeat, memory, Written
  <2>2. CASE Apply(w, request)
    BY <2>2, SameJournal, ServerAssumption DEF Apply, Written, Unlocked
  <2> QED
    BY <1>2, <2>1, <2>2
<1>3. ASSUME NEW w \in Writers, Refuse(w) \/ HandlerStep(w)
      PROVE  JournalInv'
  <2>1. CASE Refuse(w)
    BY <2>1, SameJournal DEF Refuse, memory, Written
  <2>2. CASE WriteFails(w) \/ RollBack(w) \/ RollBackFails(w)
    <3>1. /\ lock # Nobody /\ job.at \in {"applied", "unsynced"}
          /\ lock' = Nobody /\ engine' = job.before /\ UNCHANGED <<up, journal>>
      BY <2>2, ServerAssumption
      DEF WriteFails, RollBack, RollBackFails, Fail, Release, Holding
    <3> QED
      BY <3>1, SameJournal DEF Written
  <2>3. CASE Rename(w) \/ SyncDirectory(w) \/ SyncFails(w)
    <3>1. /\ lock # Nobody /\ job.at \in {"applied", "renamed"}
          /\ UNCHANGED <<up, lock, journal>>
          /\ \E at \in {"renamed", "durable", "unsynced"} : Reach(at)
      BY <2>3, ServerAssumption DEF Rename, SyncDirectory, SyncFails, Holding
    <3>2. job'.before = job.before /\ job'.at \in {"renamed", "durable", "unsynced"}
      BY <2>3, <3>1, ReachType DEF Rename, SyncDirectory, SyncFails
    <3> QED
      BY <3>1, <3>2, SameJournal DEF Written
  <2>4. CASE Journal(w)
    BY <2>4, WriteJournal
  <2>5. CASE Announce(w)
    <3>1. /\ job.at = "journalled" /\ job'.at = "announced"
          /\ UNCHANGED <<up, engine, lock, journal>>
      BY <2>5, ReachType DEF Announce, Holding
    <3> QED
      BY <3>1, SameJournal DEF Written
  <2>6. CASE Succeed(w)
    <3>1. job.at = "announced" /\ lock' = Nobody /\ UNCHANGED <<up, engine, journal>>
      BY <2>6 DEF Succeed, Release, Holding
    <3> QED
      BY <3>1, SameJournal DEF Written
  <2> QED
    BY <1>3, <2>1, <2>2, <2>3, <2>4, <2>5, <2>6 DEF HandlerStep
<1>4. ASSUME NEW f \in Followers, FollowerStep(f)
      PROVE  JournalInv'
  <2>1. UNCHANGED <<up, memory>>
    BY <1>4 DEF FollowerStep, Subscribe, Check, Wait, Wake, TimeOut, Receive, Read
  <2> QED
    BY <2>1, SameJournal DEF memory, Written
<1>5. CASE Crash \/ LosePower
  <2>1. journal' = <<>>
    BY <1>5 DEF Crash, LosePower, Stop
  <2> QED
    BY <2>1 DEF JournalInv
<1>6. CASE Restart
  <2>1. journal' = journal /\ Len(journal) \in Nat /\ ~(1 \in 1..Len(journal))
    BY <1>6 DEF Restart, JournalInv, TypeInv
  <2> QED
    BY <2>1 DEF JournalInv
<1> QED
  BY <1>1, <1>2, <1>3, <1>4, <1>5, <1>6, StepCases

-----------------------------------------------------------------------------
(***************************************************************************)
(* The followers that wait.                                                *)
(***************************************************************************)
LEMMA SameWaiting ==
    ASSUME WakeInv, Announced' = Announced, UNCHANGED <<up, poll, copy>>
    PROVE  WakeInv'
BY DEF WakeInv, Subscribed

LEMMA FollowerWake ==
    ASSUME TypeInv, JobInv, JournalInv, WakeInv, NEW f \in Followers, FollowerStep(f)
    PROVE  WakeInv'
<1>1. UNCHANGED <<up, engine, lock, job>> /\ Announced' = Announced
  BY DEF FollowerStep, Subscribe, Check, Wait, Wake, TimeOut, Receive, Read, memory,
         Announced
<1>2. \A g \in Followers \ {f} : poll'[g] = poll[g] /\ copy'[g] = copy[g]
  BY DEF FollowerStep, Subscribe, Check, Wait, Wake, TimeOut, Receive, Read, Move, TypeInv
<1>3. /\ up \/ ~Subscribed(poll'[f])
      /\ poll'[f].at \in {"checked", "wait"} /\ ~poll'[f].unseen
            => Len(copy'[f]) = Len(Announced)
  <2>1. CASE Subscribe(f) \/ Wake(f)
    BY <2>1 DEF Subscribe, Wake, Move, TypeInv
  <2>2. CASE Check(f)
    <3>1. up /\ lock = Nobody /\ copy' = copy
      BY <2>2 DEF Check, Unlocked
    <3>2. CASE \/ ChangesSince(Len(copy[f])).reset
               \/ ChangesSince(Len(copy[f])).changes # <<>>
      BY <2>2, <3>1, <3>2 DEF Check, Move, TypeInv
    <3>3. CASE /\ ~ChangesSince(Len(copy[f])).reset
               /\ ChangesSince(Len(copy[f])).changes = <<>>
      <4>1. Len(copy[f]) \in Nat
        BY DEF TypeInv, Documents
      <4>2. Len(copy[f]) = Len(engine)
        BY <2>2, <3>3, <4>1, JournalAnswer DEF Check
      <4> QED
        BY <3>1, <4>2 DEF Announced
    <3> QED
      BY <3>2, <3>3
  <2>3. CASE Wait(f)
    <3>1. up /\ copy' = copy /\ poll[f].at = "checked"
      BY <2>3 DEF Wait
    <3>2. poll'[f].unseen = poll[f].unseen
      BY <2>3 DEF Wait, Move, TypeInv, Polls
    <3> QED
      BY <3>1, <3>2 DEF WakeInv
  <2>4. CASE TimeOut(f) \/ Receive(f) \/ Read(f)
    <3>1. poll'[f].at \in {"got", "read", "idle"}
      BY <2>4 DEF TimeOut, Receive, Read, Move, TypeInv
    <3> QED
      BY <3>1 DEF Subscribed
  <2> QED
    BY <2>1, <2>2, <2>3, <2>4 DEF FollowerStep
<1> QED
  BY <1>1, <1>2, <1>3 DEF WakeInv, Subscribed

LEMMA WakeStep ==
    ASSUME TypeInv, JobInv, JournalInv, WakeInv, [ServerNext]_vars
    PROVE  WakeInv'
<1>1. CASE UNCHANGED vars
  BY <1>1, SameWaiting DEF vars, memory, clients, Announced
<1>2. ASSUME NEW w \in Writers, NEW request \in Requests,
             Repeat(w, request) \/ Apply(w, request)
      PROVE  WakeInv'
  <2>1. CASE Repeat(w, request)
    BY <2>1, SameWaiting DEF Repeat, memory, Announced
  <2>2. CASE Apply(w, request)
    BY <2>2, SameWaiting, ServerAssumption DEF Apply, Announced, Unlocked, clients
  <2> QED
    BY <1>2, <2>1, <2>2
<1>3. ASSUME NEW w \in Writers, Refuse(w) \/ HandlerStep(w)
      PROVE  WakeInv'
  <2>1. CASE Refuse(w)
    BY <2>1, SameWaiting DEF Refuse, memory, Announced
  <2>2. CASE WriteFails(w) \/ RollBack(w) \/ RollBackFails(w)
    <3>1. /\ lock # Nobody /\ job.at \in {"applied", "unsynced"}
          /\ lock' = Nobody /\ engine' = job.before /\ UNCHANGED <<up, poll, copy>>
      BY <2>2, ServerAssumption
      DEF WriteFails, RollBack, RollBackFails, Fail, Release, Holding
    <3> QED
      BY <3>1, SameWaiting DEF Announced
  <2>3. CASE Rename(w) \/ SyncDirectory(w) \/ SyncFails(w) \/ Journal(w)
    <3>1. /\ lock # Nobody /\ job.at # "announced"
          /\ UNCHANGED <<up, lock, poll, copy>>
          /\ \E at \in {"renamed", "durable", "unsynced", "journalled"} : Reach(at)
      BY <2>3, ServerAssumption
      DEF Rename, SyncDirectory, SyncFails, Journal, Holding, clients
    <3>2. job'.before = job.before /\ job'.at # "announced"
      BY <2>3, <3>1, ReachType DEF Rename, SyncDirectory, SyncFails, Journal
    <3> QED
      BY <3>1, <3>2, SameWaiting DEF Announced
  <2>4. CASE Announce(w)
    <3>1. up' = up /\ up /\ poll' = [f \in Followers |->
              IF Subscribed(poll[f]) THEN [poll[f] EXCEPT !.unseen = TRUE] ELSE poll[f]]
      BY <2>4 DEF Announce, Holding
    <3>2. ASSUME NEW f \in Followers, poll'[f].at \in {"checked", "wait"}
          PROVE  poll'[f].unseen
      <4>1. CASE Subscribed(poll[f])
        <5>1. poll[f] \in [at : {"check", "checked", "wait"}, unseen : BOOLEAN]
          BY <4>1 DEF TypeInv, Polls, Subscribed
        <5> QED
          BY <3>1, <4>1, <5>1
      <4>2. CASE ~Subscribed(poll[f])
        BY <3>1, <3>2, <4>2 DEF Subscribed
      <4> QED
        BY <4>1, <4>2
    <3> QED
      BY <3>1, <3>2 DEF WakeInv
  <2>5. CASE Succeed(w)
    <3>1. /\ job.at = "announced" /\ lock' = Nobody
          /\ UNCHANGED <<up, engine, poll, copy>>
      BY <2>5 DEF Succeed, Release, Holding
    <3> QED
      BY <3>1, SameWaiting DEF Announced
  <2> QED
    BY <1>3, <2>1, <2>2, <2>3, <2>4, <2>5 DEF HandlerStep
<1>4. ASSUME NEW f \in Followers, FollowerStep(f)
      PROVE  WakeInv'
  BY <1>4, FollowerWake
<1>5. CASE Crash \/ LosePower
  <2>1. \A f \in Followers : ~Subscribed(poll'[f])
    BY <1>5 DEF Crash, LosePower, Subscribed
  <2> QED
    BY <2>1 DEF WakeInv, Subscribed
<1>6. CASE Restart
  <2>1. ~up /\ UNCHANGED <<poll, copy>>
    BY <1>6 DEF Restart, clients
  <2>2. \A f \in Followers : ~Subscribed(poll'[f])
    BY <2>1 DEF WakeInv
  <2> QED
    BY <2>2 DEF WakeInv, Subscribed
<1> QED
  BY <1>1, <1>2, <1>3, <1>4, <1>5, <1>6, StepCases

-----------------------------------------------------------------------------
(***************************************************************************)
(* The invariant holds, and with it what it was made for.                  *)
(***************************************************************************)
LEMMA ServerStart == ServerInit => ServerInv
<1> HAVE ServerInit
<1>1. /\ up /\ lock = Nobody /\ job = NoJob
      /\ engine = <<>> /\ file = <<>> /\ afterLoss = {<<>>}
      /\ journal = <<>> /\ idem = <<>> /\ faults = 0
      /\ answer = [w \in Writers |-> NoAnswer]
      /\ poll = [f \in Followers |-> [at |-> "read"]]
      /\ copy = [f \in Followers |-> <<>>]
  BY DEF ServerInit
<1>2. TypeInv
  <2>1. NoAnswer \in Answers /\ NoJob \in Jobs
    BY DEF NoAnswer, Answers, Jobs
  <2>2. [at |-> "read"] \in Polls /\ <<>> \in Documents
    BY DEF Polls, Documents
  <2>3. <<>> \in Seq(Entries) /\ <<>> \in Seq(Memories) /\ Len(<<>>) = 0
    OBVIOUS
  <2>4. journal \in Seq(Entries) /\ Len(journal) <= JournalCap
    BY <1>1, <2>3, ServerAssumption
  <2>5. idem \in Seq(Memories) /\ Len(idem) <= IdemCap
    BY <1>1, <2>3, ServerAssumption
  <2>6. faults \in 0..MaxFaults
    BY <1>1, ServerAssumption
  <2> QED
    BY <1>1, <2>1, <2>2, <2>4, <2>5, <2>6 DEF TypeInv
<1>3. JobInv
  BY <1>1 DEF JobInv, NoJob
<1>4. AnswerInv /\ JournalInv
  BY <1>1 DEF AnswerInv, JournalInv, NoAnswer
<1>5. WakeInv
  BY <1>1 DEF WakeInv, Subscribed
<1> QED
  BY <1>2, <1>3, <1>4, <1>5 DEF ServerInv

LEMMA ServerStep == ServerInv /\ [ServerNext]_vars => ServerInv'
<1> SUFFICES ASSUME ServerInv, [ServerNext]_vars PROVE ServerInv'
  OBVIOUS
<1>1. TypeInv /\ JobInv /\ AnswerInv /\ JournalInv /\ WakeInv
  BY DEF ServerInv
<1>2. TypeInv'
  <2>1. CASE UNCHANGED vars
    BY <1>1, <2>1 DEF TypeInv, vars, memory, disk, clients
  <2>2. ASSUME NEW w \in Writers, NEW request \in Requests,
               Repeat(w, request) \/ Apply(w, request)
        PROVE  TypeInv'
    BY <1>1, <2>2, WriterType
  <2>3. ASSUME NEW w \in Writers, Refuse(w) \/ HandlerStep(w)
        PROVE  TypeInv'
    <3>1. CASE Refuse(w)
      <4>1. [status |-> "refused"] \in Answers
        BY DEF Answers
      <4> QED
        BY <1>1, <3>1, <4>1 DEF Refuse, Answer, TypeInv, memory, disk
    <3> QED
      BY <1>1, <2>3, <3>1, HandlerType
  <2>4. ASSUME NEW f \in Followers, FollowerStep(f)
        PROVE  TypeInv'
    BY <1>1, <2>4, FollowerType
  <2> QED
    BY <1>1, <2>1, <2>2, <2>3, <2>4, FailureType, StepCases
<1> QED
  BY <1>1, <1>2, JobStep, AnswerStep, JournalStep, WakeStep DEF ServerInv

LEMMA ServerInvariant == ServerSpec => []ServerInv
BY ServerStart, ServerStep, PTL DEF ServerSpec

(***************************************************************************)
(* Every variable of the server keeps its type and every queue its bound.  *)
(***************************************************************************)
THEOREM ServerTypeCorrect == ServerSpec => []ServerTypeOK
<1>1. ServerInv => ServerTypeOK
  <2> HAVE ServerInv
  <2>1. TypeInv /\ JobInv
    BY DEF ServerInv
  <2>2. /\ job.at \in {"idle", "applied", "renamed", "unsynced", "durable",
                      "journalled", "announced"}
        /\ job.before \in Documents
        /\ job.at # "idle" => job.request \in Requests
    <3>1. CASE job = NoJob
      <4>1. <<>> \in Documents
        BY DEF Documents
      <4> QED
        BY <3>1, <4>1 DEF NoJob
    <3>2. CASE job # NoJob
      <4>1. job \in [at : {"applied", "renamed", "unsynced", "durable", "journalled",
                         "announced"}, before : Documents, request : Requests]
        BY <2>1, <3>2 DEF TypeInv, Jobs
      <4> QED
        BY <4>1
    <3> QED
      BY <3>1, <3>2
  <2>3. /\ \A i \in 1..Len(journal) : journal[i] \in Entries
        /\ \A i \in 1..Len(idem) : idem[i] \in Memories
    BY <2>1 DEF TypeInv
  <2>4. \A w \in Writers : answer[w].status \in {"none", "ok", "refused", "failed"}
    BY <2>1 DEF TypeInv, Answers
  <2>5. \A f \in Followers :
            poll[f].at \in {"read", "idle", "check", "checked", "wait", "got"}
    BY <2>1 DEF TypeInv, Polls
  <2>6. (lock = Nobody) = (job.at = "idle")
    BY <2>1 DEF JobInv
  <2> QED
    BY <2>1, <2>2, <2>3, <2>4, <2>5, <2>6
    DEF ServerTypeOK, TypeInv, Entries, Contents, Memories
<1> QED
  BY <1>1, ServerInvariant, PTL

(***************************************************************************)
(* A change that was answered with success, by a retry or at once, stands  *)
(* in the engine, in the file and in whatever a loss of power may leave of *)
(* it, although rollbacks may fail and remembered answers are dropped.     *)
(***************************************************************************)
THEOREM AnswersCorrect == ServerSpec => []AnswersStand
<1>1. ServerInv => AnswersStand
  <2> SUFFICES ASSUME ServerInv,
                      NEW w \in Writers, answer[w].status = "ok", NEW d \in Surviving
               PROVE  /\ answer[w].revision <= Len(d)
                      /\ d[answer[w].revision] = answer[w].change
    BY DEF AnswersStand
  <2>1. Holds(d, answer[w].revision, answer[w].change)
    BY DEF ServerInv, AnswerInv, Kept
  <2>2. d \in Documents
    BY DEF ServerInv, TypeInv, Surviving
  <2>3. answer[w].revision \in 1..Len(d) /\ Len(d) \in Nat
    BY <2>1, <2>2 DEF Holds, Documents
  <2> QED
    BY <2>1, <2>3 DEF Holds
<1> QED
  BY <1>1, ServerInvariant, PTL

(***************************************************************************)
(* Between two handlers the journal is the newest part of the document.    *)
(***************************************************************************)
THEOREM JournalCorrect == ServerSpec => []JournalExact
<1>1. ServerInv => JournalExact
  BY DEF ServerInv, JournalInv, Written, JournalExact, Unlocked
<1> QED
  BY <1>1, ServerInvariant, PTL

(***************************************************************************)
(* A follower that waits has the server's revision, or will be woken.      *)
(***************************************************************************)
THEOREM WakeupCorrect == ServerSpec => []NoLostWakeup
<1>1. ServerInv => NoLostWakeup
  BY DEF ServerInv, WakeInv, Announced, NoLostWakeup, Unlocked
<1> QED
  BY <1>1, ServerInvariant, PTL


-----------------------------------------------------------------------------
(***************************************************************************)
(* Request ids.                                                            *)
(***************************************************************************)
\* The remembered ids differ, and a handler under way has a new one.
IdsInv ==
    /\ RequestIdsUnique
    /\ \A i \in 1..Len(idem) : idem[i].request.id # NoId
    /\ lock # Nobody /\ job.request.id # NoId => Retained(job.request.id) = {}

\* What a bounded queue holds: the old entries, moved by one if the oldest
\* was dropped, and the new one last.
LEMMA PushedEntries ==
    ASSUME NEW S, NEW q \in Seq(S), NEW e \in S, NEW cap \in Nat, Len(q) <= cap
    PROVE  \E moved \in {0, 1} : \A i \in 1..Len(Pushed(q, e, cap)) :
               /\ i + moved \in 1..Len(q) + 1
               /\ Pushed(q, e, cap)[i] = IF i + moved = Len(q) + 1 THEN e ELSE q[i + moved]
<1>1. /\ Append(q, e) \in Seq(S) /\ Len(Append(q, e)) = Len(q) + 1 /\ Len(q) \in Nat
      /\ \A i \in 1..Len(q) + 1 :
             Append(q, e)[i] = IF i = Len(q) + 1 THEN e ELSE q[i]
  OBVIOUS
<1>2. CASE Len(q) < cap /\ Pushed(q, e, cap) = Append(q, e)
  <2>1. \A i \in 1..Len(Pushed(q, e, cap)) :
            /\ i + 0 \in 1..Len(q) + 1
            /\ Pushed(q, e, cap)[i] = IF i + 0 = Len(q) + 1 THEN e ELSE q[i + 0]
    BY <1>1, <1>2
  <2> QED
    BY <2>1
<1>3. CASE Len(q) = cap /\ Pushed(q, e, cap) = Tail(Append(q, e))
  <2>1. /\ Len(Pushed(q, e, cap)) = Len(q)
        /\ \A i \in 1..Len(q) : Pushed(q, e, cap)[i] = Append(q, e)[i + 1]
    BY <1>1, <1>3
  <2>2. \A i \in 1..Len(Pushed(q, e, cap)) :
            /\ i + 1 \in 1..Len(q) + 1
            /\ Pushed(q, e, cap)[i] = IF i + 1 = Len(q) + 1 THEN e ELSE q[i + 1]
    BY <1>1, <2>1
  <2> QED
    BY <2>2
<1> QED
  BY <1>2, <1>3, PushedQueue

\* A handler that succeeds remembers an id that was not remembered yet.
LEMMA RememberedIds ==
    ASSUME TypeInv, JobInv, IdsInv, NEW w \in Writers, Succeed(w)
    PROVE  IdsInv'
<1>1. /\ lock # Nobody /\ job.request \in Requests
      /\ idem' = Remembered(job.request)
      /\ lock' = Nobody /\ idem \in Seq(Memories) /\ Len(idem) <= IdemCap
      /\ Len(engine) \in Nat /\ IdemCap \in Nat
  BY HandlerJob, ServerAssumption DEF Succeed, Release, TypeInv, Documents
<1>2. CASE job.request.id = NoId
  BY <1>1, <1>2 DEF IdsInv, RequestIdsUnique, Remembered
<1>3. CASE job.request.id # NoId
  <2> DEFINE e == [request |-> job.request, revision |-> Len(engine)]
  <2>1. e \in Memories
    BY <1>1 DEF Memories
  <2>2. idem' = Pushed(idem, e, IdemCap)
    BY <1>1, <1>3 DEF Remembered
  <2>3. PICK moved \in {0, 1} : \A i \in 1..Len(idem') :
            /\ i + moved \in 1..Len(idem) + 1
            /\ idem'[i] = IF i + moved = Len(idem) + 1 THEN e ELSE idem[i + moved]
    BY <1>1, <2>1, <2>2, PushedEntries
  <2>4. \A i \in 1..Len(idem) : idem[i].request.id # job.request.id
    BY <1>1, <1>3 DEF IdsInv, Retained
  <2>5. e.request.id = job.request.id
    OBVIOUS
  <2> HIDE DEF e
  <2>6. Len(idem) \in Nat
    BY <1>1
  <2>7. ASSUME NEW i \in 1..Len(idem')
        PROVE  /\ i \in Int /\ i + moved \in Int
               /\ i + moved # Len(idem) + 1 => /\ i + moved \in 1..Len(idem)
                                               /\ idem'[i] = idem[i + moved]
    BY <2>3, <2>6
  <2>8. ASSUME NEW i \in 1..Len(idem')
        PROVE  idem'[i].request.id # NoId
    BY <1>3, <2>3, <2>5, <2>7 DEF IdsInv
  <2>9. ASSUME NEW i \in 1..Len(idem'), NEW j \in 1..Len(idem'),
               idem'[i].request.id = idem'[j].request.id
        PROVE  i = j
    <3>1. ASSUME i + moved = Len(idem) + 1, j + moved # Len(idem) + 1
          PROVE  FALSE
      BY <2>3, <2>4, <2>5, <2>7, <2>9, <3>1
    <3>2. ASSUME i + moved # Len(idem) + 1, j + moved = Len(idem) + 1
          PROVE  FALSE
      BY <2>3, <2>4, <2>5, <2>7, <2>9, <3>2
    <3>3. ASSUME i + moved # Len(idem) + 1, j + moved # Len(idem) + 1
          PROVE  i + moved = j + moved
      <4>1. idem[i + moved].request.id = idem[j + moved].request.id
        BY <2>7, <2>9, <3>3
      <4> QED
        BY <2>7, <3>3, <4>1 DEF IdsInv, RequestIdsUnique
    <3> QED
      BY <2>7, <3>1, <3>2, <3>3
  <2> QED
    BY <1>1, <2>8, <2>9 DEF IdsInv, RequestIdsUnique
<1> QED
  BY <1>2, <1>3

LEMMA IdsStep ==
    ASSUME TypeInv, JobInv, IdsInv, [ServerNext]_vars
    PROVE  IdsInv'
<1>1. ASSUME idem' = idem, lock' = lock, lock # Nobody => job'.request = job.request
      PROVE  IdsInv'
  BY <1>1 DEF IdsInv, RequestIdsUnique, Retained
<1>2. ASSUME idem' = idem, lock' = Nobody
      PROVE  IdsInv'
  BY <1>2 DEF IdsInv, RequestIdsUnique, Retained
<1>3. CASE UNCHANGED vars
  BY <1>1, <1>3 DEF vars, memory
<1>4. ASSUME NEW w \in Writers, NEW request \in Requests,
             Repeat(w, request) \/ Apply(w, request)
      PROVE  IdsInv'
  <2>1. CASE Repeat(w, request)
    BY <1>1, <2>1 DEF Repeat, memory
  <2>2. CASE Apply(w, request)
    BY <2>2 DEF Apply, IdsInv, RequestIdsUnique, Retained
  <2> QED
    BY <1>4, <2>1, <2>2
<1>5. ASSUME NEW w \in Writers, Refuse(w) \/ HandlerStep(w)
      PROVE  IdsInv'
  <2>1. CASE Refuse(w)
    BY <1>1, <2>1 DEF Refuse, memory
  <2>2. CASE WriteFails(w) \/ RollBack(w) \/ RollBackFails(w)
    BY <1>2, <2>2 DEF WriteFails, RollBack, RollBackFails, Fail, Release
  <2>3. CASE Rename(w)
    BY <1>1, <2>3, HandlerJob, ReachType DEF Rename
  <2>4. CASE SyncDirectory(w)
    BY <1>1, <2>4, HandlerJob, ReachType DEF SyncDirectory
  <2>5. CASE SyncFails(w)
    BY <1>1, <2>5, HandlerJob, ReachType DEF SyncFails
  <2>6. CASE Journal(w)
    BY <1>1, <2>6, HandlerJob, ReachType DEF Journal
  <2>7. CASE Announce(w)
    BY <1>1, <2>7, HandlerJob, ReachType DEF Announce
  <2>8. CASE Succeed(w)
    BY <2>8, RememberedIds
  <2> QED
    BY <1>5, <2>1, <2>2, <2>3, <2>4, <2>5, <2>6, <2>7, <2>8 DEF HandlerStep
<1>6. ASSUME NEW f \in Followers, FollowerStep(f)
      PROVE  IdsInv'
  <2>1. UNCHANGED memory
    BY <1>6 DEF FollowerStep, Subscribe, Check, Wait, Wake, TimeOut, Receive, Read
  <2> QED
    BY <1>1, <2>1 DEF memory
<1>7. CASE Crash \/ LosePower
  <2>1. idem' = <<>> /\ lock' = Nobody
    BY <1>7 DEF Crash, LosePower, Stop, Release
  <2> QED
    BY <2>1 DEF IdsInv, RequestIdsUnique
<1>8. CASE Restart
  BY <1>1, <1>8 DEF Restart
<1> QED
  BY <1>3, <1>4, <1>5, <1>6, <1>7, <1>8, StepCases

(***************************************************************************)
(* A request id stands for one remembered request, although requests with  *)
(* the same id may arrive together and old answers are dropped (API-009).  *)
(***************************************************************************)
THEOREM RequestIdsCorrect == ServerSpec => []RequestIdsUnique
<1>1. ServerInit => IdsInv
  BY DEF ServerInit, IdsInv, RequestIdsUnique
<1>2. ServerInv /\ IdsInv /\ [ServerNext]_vars => IdsInv'
  BY IdsStep DEF ServerInv
<1>3. IdsInv => RequestIdsUnique
  BY DEF IdsInv
<1> QED
  BY <1>1, <1>2, <1>3, ServerInvariant, PTL DEF ServerSpec

-----------------------------------------------------------------------------
(***************************************************************************)
(* The file.                                                               *)
(***************************************************************************)
\* Until the rename of a handler the file holds the document it began with.
FileInv == FileIsEngine /\ (job.at = "applied" => file = job.before)

LEMMA FileStep ==
    ASSUME ~RollbackMayFail, TypeInv, JobInv, FileInv, [ServerNext]_vars
    PROVE  FileInv'
<1>1. ASSUME UNCHANGED <<up, engine, lock, job, file>>
      PROVE  FileInv'
  BY <1>1 DEF FileInv, FileIsEngine, Unlocked
<1>2. CASE UNCHANGED vars
  BY <1>1, <1>2 DEF vars, memory, disk
<1>3. ASSUME NEW w \in Writers, NEW request \in Requests,
             Repeat(w, request) \/ Apply(w, request)
      PROVE  FileInv'
  <2>1. CASE Repeat(w, request)
    BY <1>1, <2>1 DEF Repeat, memory, disk
  <2>2. CASE Apply(w, request)
    BY <2>2, ServerAssumption DEF Apply, FileInv, FileIsEngine, Unlocked, disk
  <2> QED
    BY <1>3, <2>1, <2>2
<1>4. ASSUME NEW w \in Writers, Refuse(w) \/ HandlerStep(w)
      PROVE  FileInv'
  <2>1. CASE Refuse(w)
    BY <1>1, <2>1 DEF Refuse, memory, disk
  <2>2. CASE WriteFails(w) \/ RollBack(w)
    <3>1. job' = NoJob /\ engine' = job.before
      BY <2>2 DEF WriteFails, RollBack, Fail, Release
    <3>2. file' = job.before
      BY <2>2 DEF WriteFails, RollBack, Holding, FileInv, disk
    <3> QED
      BY <3>1, <3>2 DEF FileInv, FileIsEngine, NoJob
  <2>3. CASE Rename(w) \/ SyncDirectory(w) \/ SyncFails(w) \/ Journal(w) \/ Announce(w)
    <3>1. lock' # Nobody
      BY <2>3, HandlerJob
      DEF Rename, SyncDirectory, SyncFails, Journal, Announce
    <3>2. job'.at # "applied"
      BY <2>3, HandlerJob, ReachType
      DEF Rename, SyncDirectory, SyncFails, Journal, Announce
    <3> QED
      BY <3>1, <3>2 DEF FileInv, FileIsEngine, Unlocked
  <2>4. CASE RollBackFails(w)
    BY <2>4 DEF RollBackFails
  <2>5. CASE Succeed(w)
    <3>1. file = engine
      BY <2>5, HandlerJob DEF Succeed, JobInv
    <3> QED
      BY <2>5, <3>1 DEF Succeed, Release, FileInv, FileIsEngine, NoJob, disk
  <2> QED
    BY <1>4, <2>1, <2>2, <2>3, <2>4, <2>5 DEF HandlerStep
<1>5. ASSUME NEW f \in Followers, FollowerStep(f)
      PROVE  FileInv'
  <2>1. UNCHANGED <<up, memory, disk>>
    BY <1>5 DEF FollowerStep, Subscribe, Check, Wait, Wake, TimeOut, Receive, Read
  <2> QED
    BY <1>1, <2>1 DEF memory, disk
<1>6. CASE Crash \/ LosePower
  <2>1. ~up' /\ job' = NoJob
    BY <1>6 DEF Crash, LosePower, Stop, Release
  <2> QED
    BY <2>1 DEF FileInv, FileIsEngine, Unlocked, NoJob
<1>7. CASE Restart
  BY <1>7 DEF Restart, FileInv, FileIsEngine, disk
<1> QED
  BY <1>2, <1>3, <1>4, <1>5, <1>6, <1>7, StepCases

(***************************************************************************)
(* If rollbacks succeed, the file holds what the engine holds between two  *)
(* handlers, whatever writes have failed and wherever the process or the   *)
(* machine has stopped.  Without the assumption the run failed_rollback    *)
(* refutes it.                                                             *)
(***************************************************************************)
THEOREM FileCorrect ==
    ASSUME ~RollbackMayFail
    PROVE  ServerSpec => []FileIsEngine
<1>1. ServerInit => FileInv
  BY DEF ServerInit, FileInv, FileIsEngine, NoJob
<1>2. ServerInv /\ FileInv /\ [ServerNext]_vars => FileInv'
  BY FileStep DEF ServerInv
<1>3. FileInv => FileIsEngine
  BY DEF FileInv
<1> QED
  BY <1>1, <1>2, <1>3, ServerInvariant, PTL DEF ServerSpec

-----------------------------------------------------------------------------
(***************************************************************************)
(* The linear history.                                                     *)
(***************************************************************************)
\* The file is the committed document, or a change ahead of it.
AheadInv == file = Committed \/ \E c \in Changes : file = Append(Committed, c)

Starts(s, d) == Len(s) <= Len(d) /\ \A i \in 1..Len(s) : s[i] = d[i]

\* Copies, with the changes on their way to them, are parts of what is committed.
CopyInv ==
    \A f \in Followers :
        /\ Starts(copy[f], Committed)
        /\ poll[f].at = "got" /\ ~poll[f].response.reset
              => Starts(copy[f] \o poll[f].response.changes, Committed)

LEMMA CommittedType ==
    ASSUME TypeInv, JobInv
    PROVE  Committed \in Documents /\ Len(Committed) \in Nat
<1>1. job.before \in Documents
  <2>1. <<>> \in Documents
    BY DEF Documents
  <2> QED
    BY <2>1 DEF TypeInv, Jobs, NoJob
<1>2. Committed \in Documents
  BY <1>1 DEF TypeInv, Committed
<1> QED
  BY <1>2 DEF Documents

\* Between two handlers the committed document is the engine's.
LEMMA CommittedAtRest ==
    ASSUME JobInv, lock = Nobody
    PROVE  Committed = IF up THEN engine ELSE file
BY DEF JobInv, Committed, Uncommitted

Grows ==
    /\ AheadInv'
    /\ \/ Committed' = Committed
       \/ /\ \E c \in Changes : Committed' = Append(Committed, c)
          /\ UNCHANGED <<answer, copy>>

(***************************************************************************)
(* What is committed stays, or grows by one change: when the directory is  *)
(* synced, and when the process stops with the file ahead.                 *)
(***************************************************************************)
LEMMA CommittedGrows ==
    ASSUME ~PowerMayFail, TypeInv, JobInv, AheadInv, [ServerNext]_vars
    PROVE  Grows
<1>1. ASSUME Committed' = Committed, file' = file
      PROVE  Grows
  BY <1>1 DEF Grows, AheadInv
<1>2. ASSUME UNCHANGED <<up, engine, job, file>>
      PROVE  Grows
  <2>1. Committed' = Committed
    BY <1>2 DEF Committed, Uncommitted
  <2> QED
    BY <1>1, <1>2, <2>1
<1>3. CASE UNCHANGED vars
  BY <1>2, <1>3 DEF vars, memory, disk
<1>4. ASSUME NEW w \in Writers, NEW request \in Requests,
             Repeat(w, request) \/ Apply(w, request)
      PROVE  Grows
  <2>1. CASE Repeat(w, request)
    BY <1>2, <2>1 DEF Repeat, memory, disk
  <2>2. CASE Apply(w, request)
    <3>1. Committed = engine
      BY <2>2, CommittedAtRest DEF Apply, Unlocked
    <3>2. Committed' = engine
      BY <2>2 DEF Apply, Unlocked, Committed, Uncommitted
    <3> QED
      BY <1>1, <2>2, <3>1, <3>2 DEF Apply, disk
  <2> QED
    BY <1>4, <2>1, <2>2
<1>5. ASSUME NEW w \in Writers, Refuse(w) \/ HandlerStep(w)
      PROVE  Grows
  <2>1. CASE Refuse(w)
    BY <1>2, <2>1 DEF Refuse, memory, disk
  <2>2. CASE WriteFails(w) \/ RollBack(w) \/ RollBackFails(w)
    <3>1. Committed = job.before
      BY <2>2 DEF WriteFails, RollBack, RollBackFails, Holding, Committed, Uncommitted
    <3>2. Committed' = job.before
      BY <2>2 DEF WriteFails, RollBack, RollBackFails, Holding, Fail, Release, NoJob,
                  Committed, Uncommitted
    <3>3. file' = file \/ file' = job.before
      BY <2>2 DEF WriteFails, RollBack, RollBackFails, disk
    <3> QED
      BY <1>1, <3>1, <3>2, <3>3 DEF Grows, AheadInv
  <2>3. CASE Rename(w)
    <3>1. Committed = job.before /\ Committed' = job.before
      BY <2>3, HandlerJob, ReachType DEF Rename, Committed, Uncommitted
    <3>2. file' = Append(job.before, job.request.change) /\ job.request.change \in Changes
      BY <2>3, HandlerJob DEF Rename
    <3> QED
      BY <3>1, <3>2 DEF Grows, AheadInv
  <2>4. CASE SyncDirectory(w)
    <3>1. Committed = job.before /\ Committed' = engine
      BY <2>4, HandlerJob, ReachType DEF SyncDirectory, Committed, Uncommitted
    <3>2. engine = Append(job.before, job.request.change) /\ job.request.change \in Changes
      BY <2>4, HandlerJob DEF SyncDirectory
    <3>3. file' = engine
      BY <2>4, HandlerJob DEF SyncDirectory, JobInv
    <3> QED
      BY <2>4, <3>1, <3>2, <3>3 DEF Grows, AheadInv, SyncDirectory, clients
  <2>5. CASE SyncFails(w)
    <3>1. Committed' = Committed
      BY <2>5, HandlerJob, ReachType DEF SyncFails, Committed, Uncommitted
    <3> QED
      BY <1>1, <2>5, <3>1 DEF SyncFails, disk
  <2>6. CASE Journal(w) \/ Announce(w)
    <3>1. Committed' = Committed
      BY <2>6, HandlerJob, ReachType DEF Journal, Announce, Committed, Uncommitted
    <3> QED
      BY <1>1, <2>6, <3>1 DEF Journal, Announce, disk
  <2>7. CASE Succeed(w)
    <3>1. Committed' = Committed
      BY <2>7, HandlerJob DEF Succeed, Release, NoJob, Committed, Uncommitted
    <3> QED
      BY <1>1, <2>7, <3>1 DEF Succeed, disk
  <2> QED
    BY <1>5, <2>1, <2>2, <2>3, <2>4, <2>5, <2>6, <2>7 DEF HandlerStep
<1>6. ASSUME NEW f \in Followers, FollowerStep(f)
      PROVE  Grows
  <2>1. UNCHANGED <<up, memory, disk>>
    BY <1>6 DEF FollowerStep, Subscribe, Check, Wait, Wake, TimeOut, Receive, Read
  <2> QED
    BY <1>2, <2>1 DEF memory, disk
<1>7. CASE Crash \/ LosePower
  <2>1. Crash
    BY <1>7 DEF LosePower
  <2>2. Committed' = file /\ file' = file /\ UNCHANGED <<answer, copy>>
    BY <2>1 DEF Crash, Stop, Committed, disk
  <2> QED
    BY <2>2 DEF Grows, AheadInv
<1>8. CASE Restart
  <2>1. lock = Nobody /\ Committed = file
    BY <1>8, CommittedAtRest DEF Restart, JobInv
  <2>2. Committed' = file
    BY <1>8, <2>1 DEF Restart, JobInv, Committed, Uncommitted
  <2> QED
    BY <1>1, <1>8, <2>1, <2>2 DEF Restart, disk
<1> QED
  BY <1>3, <1>4, <1>5, <1>6, <1>7, <1>8, StepCases

-----------------------------------------------------------------------------
(***************************************************************************)
(* Parts of a document.                                                    *)
(***************************************************************************)
LEMMA StartsGrows ==
    ASSUME NEW s \in Documents, NEW d \in Documents, NEW c \in Changes, Starts(s, d)
    PROVE  Starts(s, Append(d, c))
BY DEF Documents, Starts

LEMMA StartsMore ==
    ASSUME NEW s \in Documents, NEW more \in Seq(Changes)
    PROVE  s \o more \in Documents /\ Starts(s, s \o more)
<1>1. s \o more \in Seq(Changes) /\ Len(s \o more) = Len(s) + Len(more)
      /\ Len(s) \in Nat /\ Len(more) \in Nat
  BY DEF Documents
<1>2. \A i \in 1..Len(s) : (s \o more)[i] = s[i]
  BY <1>1 DEF Documents
<1> QED
  BY <1>1, <1>2 DEF Documents, Starts

LEMMA StartsPart ==
    ASSUME NEW s \in Documents, NEW d \in Documents, Starts(s, d)
    PROVE  /\ Len(s) \in 0..Len(d)
           /\ s = SubSeq(d, 1, Len(s))
           /\ \A t \in Documents : Starts(t, s) => IsPrefix(t, s)
<1>1. Len(s) \in 0..Len(d)
  BY DEF Documents, Starts
<1>2. s = SubSeq(d, 1, Len(s))
  BY <1>1 DEF Documents, Starts
<1>3. ASSUME NEW t \in Documents, Starts(t, s)
      PROVE  IsPrefix(t, s)
  <2>1. SubSeq(t, 1, Len(t)) = SubSeq(s, 1, Len(t))
    BY <1>3 DEF Documents, Starts
  <2> QED
    BY <1>3, <2>1 DEF IsPrefix, Starts
<1> QED
  BY <1>1, <1>2, <1>3

\* What the journal tells a reader goes on from where the reader is.
LEMMA JournalPage ==
    ASSUME TypeInv, JobInv, JournalInv, Unlocked, NEW s \in Documents, Starts(s, engine),
           ~ChangesSince(Len(s)).reset
    PROVE  Starts(s \o ChangesSince(Len(s)).changes, engine)
<1> DEFINE after == Len(s)
           first == Min(Newer(after))
           last == Min({first + PageCap - 1, Len(journal)})
           page == [i \in 1..last - first + 1 |-> journal[first + i - 1].change]
<1>1. /\ Len(journal) \in Nat /\ Len(engine) \in Nat /\ after \in Nat
      /\ engine \in Documents
  BY DEF TypeInv, Documents
<1>2. \A i \in 1..Len(journal) :
          /\ journal[i].revision = Len(engine) - Len(journal) + i
          /\ journal[i].revision \in 1..Len(engine)
          /\ journal[i].change = engine[journal[i].revision] \/ journal[i].change = NoContent
  BY DEF JournalInv, Written, Unlocked
<1>3. ~Reset(after)
  BY DEF ChangesSince
<1>4. CASE Newer(after) = {}
  <2>1. ChangesSince(after).changes = <<>>
    BY <1>3, <1>4 DEF ChangesSince
  <2>2. s \o <<>> = s
    BY DEF Documents
  <2> QED
    BY <2>1, <2>2
<1>5. CASE Newer(after) # {}
  <2>1. Newer(after) \in SUBSET Nat
    BY DEF Newer
  <2>2. first \in Newer(after)
    BY <1>5, <2>1, LeastNat
  <2>3. first \in 1..Len(journal) /\ journal[first].revision > after
    BY <2>2 DEF Newer
  <2>4. journal[first].revision = after + 1
    BY <1>1, <1>2, <1>3, <2>3 DEF Reset, Expired
  <2>5. {first + PageCap - 1, Len(journal)} \in SUBSET Nat
    BY <1>1, <2>3, ServerAssumption
  <2>6. last \in {first + PageCap - 1, Len(journal)} /\ last <= Len(journal)
    BY <2>5, LeastNat
  <2>7. ChangesSince(after).changes = page
    BY <1>3, <1>5 DEF ChangesSince
  <2> HIDE DEF first, last
  <2>8. last \in first..Len(journal)
    BY <1>1, <2>3, <2>6, ServerAssumption
  <2>9. ASSUME NEW i \in 1..last - first + 1
        PROVE  /\ after + i \in 1..Len(engine)
               /\ journal[first + i - 1].change = engine[after + i]
    <3> DEFINE j == first + i - 1
    <3>1. j \in 1..Len(journal)
      BY <1>1, <2>3, <2>8
    <3> HIDE DEF after
    <3>0. after + 1 = Len(engine) - Len(journal) + first
      BY <1>2, <2>3, <2>4
    <3>2. journal[j].revision = after + i
      <4>1. journal[j].revision = Len(engine) - Len(journal) + j
        BY <1>2, <3>1
      <4> QED
        BY <1>1, <2>3, <3>0, <4>1
    <3>3. journal[j].change # NoContent
      BY <1>1, <1>3, <3>1, <3>2 DEF Reset, Newer
    <3> QED
      BY <1>2, <3>1, <3>2, <3>3
  <2>10. last - first + 1 \in Nat
    BY <1>1, <2>3, <2>8
  <2>11. engine \in [1..Len(engine) -> Changes]
    BY <1>1 DEF Documents
  <2>12. page \in [1..last - first + 1 -> Changes]
    BY <2>9, <2>11
  <2>13. page \in Seq(Changes) /\ Len(page) = last - first + 1
    BY <2>10, <2>12
  <2>14. after + Len(page) <= Len(engine)
    <3>1. after + (last - first + 1) \in 1..Len(engine)
      <4>1. last - first + 1 \in 1..last - first + 1
        BY <1>1, <2>3, <2>8
      <4> QED
        BY <4>1, <2>9
    <3>2. after \in Nat /\ Len(engine) \in Nat
      BY <1>1 DEF Documents
    <3> HIDE DEF page, after
    <3> QED
      BY <2>13, <3>1, <3>2
  <2>15. \A i \in 1..Len(page) : page[i] = engine[after + i]
    BY <2>9, <2>13
  <2> HIDE DEF page
  <2>16. Starts(s \o page, engine)
    <3>1. Len(s \o page) = after + Len(page)
      BY <2>13 DEF Documents
    <3>2. ASSUME NEW i \in 1..after + Len(page)
          PROVE  (s \o page)[i] = engine[i]
      <4>1. CASE i <= after
        BY <1>1, <2>13, <3>2, <4>1 DEF Documents, Starts
      <4>2. CASE i > after
        <5>1. i - after \in 1..Len(page) /\ after + (i - after) = i
          BY <1>1, <2>13, <3>2, <4>2
        <5>2. (s \o page)[i] = page[i - after]
          BY <1>1, <2>13, <3>2, <4>2 DEF Documents
        <5> QED
          BY <2>15, <5>1, <5>2
      <4> QED
        BY <1>1, <2>13, <4>1, <4>2
    <3> QED
      BY <2>14, <3>1, <3>2 DEF Starts
  <2> QED
    BY <2>7, <2>16
<1> QED
  BY <1>4, <1>5

-----------------------------------------------------------------------------
(***************************************************************************)
(* The copies.                                                             *)
(***************************************************************************)
CopyOf(f) ==
    /\ Starts(copy[f], Committed)
    /\ poll[f].at = "got" /\ ~poll[f].response.reset
          => Starts(copy[f] \o poll[f].response.changes, Committed)

LEMMA CopyKept ==
    ASSUME TypeInv, JobInv, Grows, NEW f \in Followers, CopyOf(f), copy'[f] = copy[f],
           poll'[f] = poll[f] \/ poll'[f].at # "got"
    PROVE  CopyOf(f)'
<1>1. Committed \in Documents
  BY CommittedType
<1>2. ASSUME NEW s \in Documents, Starts(s, Committed)
      PROVE  Starts(s, Committed')
  BY <1>1, <1>2, StartsGrows DEF Grows
<1>3. copy[f] \in Documents
  BY DEF TypeInv
<1>4. ASSUME poll[f].at = "got"
      PROVE  copy[f] \o poll[f].response.changes \in Documents
  <2>1. poll[f].response.changes \in Seq(Changes)
    BY <1>4 DEF TypeInv, Polls
  <2> QED
    BY <1>3, <2>1 DEF Documents
<1> QED
  BY <1>2, <1>3, <1>4 DEF CopyOf

LEMMA FollowerCopy ==
    ASSUME TypeInv, JobInv, JournalInv, Grows, NEW f \in Followers, CopyOf(f),
           FollowerStep(f)
    PROVE  CopyOf(f)'
<1>1. /\ Committed' = Committed /\ Committed \in Documents
      /\ copy[f] \in Documents /\ poll[f] \in Polls
      /\ f \in DOMAIN copy /\ f \in DOMAIN poll
  <2>1. UNCHANGED <<up, memory, disk>>
    BY DEF FollowerStep, Subscribe, Check, Wait, Wake, TimeOut, Receive, Read
  <2> QED
    BY <2>1, CommittedType DEF memory, disk, Committed, Uncommitted, TypeInv
<1>2. CASE Subscribe(f) \/ Wait(f) \/ Wake(f)
  <2>1. copy' = copy /\ poll'[f].at # "got"
    BY <1>1, <1>2 DEF Subscribe, Wait, Wake, Move, Polls
  <2> QED
    BY <2>1, CopyKept
<1>3. ASSUME Unlocked, copy' = copy,
             \/ poll'[f] = [at |-> "got", response |-> ChangesSince(Len(copy[f]))]
             \/ poll'[f].at # "got"
      PROVE  CopyOf(f)'
  <2>1. Committed = engine
    BY <1>3, CommittedAtRest DEF Unlocked
  <2>2. ~ChangesSince(Len(copy[f])).reset
           => Starts(copy[f] \o ChangesSince(Len(copy[f])).changes, engine)
    BY <1>1, <1>3, <2>1, JournalPage DEF CopyOf
  <2> QED
    BY <1>1, <1>3, <2>1, <2>2 DEF CopyOf
<1>4. CASE Check(f)
  <2>1. \/ poll'[f] = [at |-> "got", response |-> ChangesSince(Len(copy[f]))]
        \/ poll'[f].at # "got"
    BY <1>1, <1>4 DEF Check, Move, Polls
  <2> QED
    BY <1>3, <1>4, <2>1 DEF Check
<1>5. CASE TimeOut(f)
  BY <1>1, <1>3, <1>5 DEF TimeOut, Move
<1>6. CASE Receive(f)
  <2>1. CASE poll[f].response.reset
    <3>1. copy' = copy /\ poll'[f].at # "got"
      BY <1>1, <1>6, <2>1 DEF Receive, Move
    <3> QED
      BY <3>1, CopyKept
  <2>2. CASE ~poll[f].response.reset
    <3>1. /\ poll'[f].at # "got"
          /\ copy'[f] = copy[f] \o poll[f].response.changes
      BY <1>1, <1>6, <2>2 DEF Receive, Move
    <3> QED
      BY <1>1, <1>6, <2>2, <3>1 DEF Receive, CopyOf
  <2> QED
    BY <2>1, <2>2
<1>7. CASE Read(f)
  <2>1. copy'[f] = engine /\ poll'[f].at # "got"
    BY <1>1, <1>7 DEF Read, Move
  <2>2. Committed = engine
    BY <1>7, CommittedAtRest DEF Read, Unlocked
  <2>3. Starts(engine, engine)
    BY <1>1, <2>2 DEF Starts, Documents
  <2> QED
    BY <1>1, <2>1, <2>2, <2>3 DEF CopyOf
<1> QED
  BY <1>2, <1>4, <1>5, <1>6, <1>7 DEF FollowerStep

LEMMA CopyStep ==
    ASSUME ~PowerMayFail, TypeInv, JobInv, JournalInv, Grows, CopyInv, [ServerNext]_vars
    PROVE  CopyInv'
<1>0. \A f \in Followers : CopyOf(f)
  BY DEF CopyInv, CopyOf
<1> SUFFICES ASSUME NEW f \in Followers
             PROVE  CopyOf(f)'
  BY DEF CopyInv, CopyOf
<1>1. ASSUME copy' = copy, poll' = poll
      PROVE  CopyOf(f)'
  BY <1>0, <1>1, CopyKept
<1>2. CASE UNCHANGED vars
  BY <1>1, <1>2 DEF vars, clients
<1>3. ASSUME NEW w \in Writers, NEW request \in Requests,
             Repeat(w, request) \/ Apply(w, request)
      PROVE  CopyOf(f)'
  BY <1>1, <1>3 DEF Repeat, Apply, clients
<1>4. ASSUME NEW w \in Writers, Refuse(w) \/ HandlerStep(w)
      PROVE  CopyOf(f)'
  <2>1. CASE Announce(w)
    <3>1. copy' = copy /\ (poll'[f] = poll[f] \/ poll'[f].at # "got")
      BY <2>1 DEF Announce, Subscribed, TypeInv, Polls
    <3> QED
      BY <1>0, <3>1, CopyKept
  <2>2. CASE ~Announce(w)
    <3>1. copy' = copy /\ poll' = poll
      BY <1>4, <2>2 DEF Refuse, HandlerStep, WriteFails, Rename, SyncDirectory, SyncFails,
                        RollBack, RollBackFails, Journal, Succeed, Fail, clients
    <3> QED
      BY <1>1, <3>1
  <2> QED
    BY <2>1, <2>2
<1>5. ASSUME NEW g \in Followers, FollowerStep(g)
      PROVE  CopyOf(f)'
  <2>1. CASE f = g
    BY <1>0, <1>5, <2>1, FollowerCopy
  <2>2. CASE f # g
    <3>1. copy'[f] = copy[f] /\ poll'[f] = poll[f]
      BY <1>5, <2>2 DEF FollowerStep, Subscribe, Check, Wait, Wake, TimeOut, Receive, Read,
                        Move, TypeInv
    <3> QED
      BY <1>0, <3>1, CopyKept
  <2> QED
    BY <2>1, <2>2
<1>6. CASE Crash \/ LosePower
  <2>1. copy' = copy /\ (poll'[f] = poll[f] \/ poll'[f].at # "got")
    BY <1>6 DEF Crash, LosePower
  <2> QED
    BY <1>0, <2>1, CopyKept
<1>7. CASE Restart
  BY <1>1, <1>7 DEF Restart, clients
<1> QED
  BY <1>2, <1>3, <1>4, <1>5, <1>6, <1>7, StepCases

-----------------------------------------------------------------------------
(***************************************************************************)
(* Every step is one of the history, or none.                              *)
(***************************************************************************)
Implements == [History!HistoryNext]_(History!historyVars)

LEMMA HistorySame ==
    ASSUME Committed' = Committed, UNCHANGED <<answer, copy>>
    PROVE  Implements
BY DEF Implements, History!historyVars

LEMMA HistoryCommit ==
    ASSUME NEW c \in Changes, Committed' = Append(Committed, c), UNCHANGED <<answer, copy>>
    PROVE  Implements
<1>1. History!Commit(c)
  BY DEF History!Commit
<1> QED
  BY <1>1 DEF Implements, History!HistoryNext

LEMMA HistoryForget ==
    ASSUME TypeInv, NEW w \in Writers, NEW a, a.status # "ok", Answer(w, a),
           Committed' = Committed, copy' = copy
    PROVE  Implements
<1>1. History!Forget(w)
  BY DEF History!Forget, History!Unanswered, Answer, TypeInv
<1> QED
  BY <1>1 DEF Implements, History!HistoryNext

LEMMA HistoryAnswer ==
    ASSUME TypeInv, NEW w \in Writers, NEW request \in Requests, NEW r,
           Holds(Committed, r, request.change), Answer(w, Done(request, r)),
           Committed' = Committed, copy' = copy
    PROVE  Implements
<1>1. History!Answer(w, r)
  BY DEF History!Answer, Answer, Done, Holds, TypeInv
<1> QED
  BY <1>1 DEF Implements, History!HistoryNext, Holds

LEMMA HistoryAdvance ==
    ASSUME TypeInv, JobInv, NEW f \in Followers, NEW d \in Documents,
           Starts(copy[f], d), Starts(d, Committed), copy' = [copy EXCEPT ![f] = d],
           Committed' = Committed, answer' = answer
    PROVE  Implements
<1>1. copy[f] \in Documents /\ Committed \in Documents
  BY CommittedType DEF TypeInv
<1>2. /\ Len(d) \in 0..Len(Committed) /\ d = SubSeq(Committed, 1, Len(d))
      /\ IsPrefix(copy[f], d)
  BY <1>1, StartsPart
<1>3. History!Advance(f, Len(d))
  <2>1. History!IsPrefix(copy[f], SubSeq(Committed, 1, Len(d)))
    BY <1>2 DEF IsPrefix, History!IsPrefix
  <2> QED
    BY <1>2, <2>1 DEF History!Advance
<1> QED
  BY <1>2, <1>3 DEF Implements, History!HistoryNext

LEMMA HistoryStep ==
    ASSUME ~PowerMayFail, ServerInv, Grows, CopyInv, CopyInv', TypeInv', [ServerNext]_vars
    PROVE  Implements
<1>0. /\ TypeInv /\ JobInv /\ AnswerInv
      /\ Committed \in Documents /\ Len(Committed) \in Nat
  BY CommittedType DEF ServerInv
<1>1. ASSUME UNCHANGED <<answer, copy>>
      PROVE  Implements
  BY <1>1, HistorySame, HistoryCommit DEF Grows
<1>2. CASE UNCHANGED vars
  BY <1>1, <1>2 DEF vars, clients
<1>3. ASSUME UNCHANGED <<up, memory, disk>>
      PROVE  Committed' = Committed
  BY <1>3 DEF memory, disk, Committed, Uncommitted
<1>4. ASSUME NEW w \in Writers, NEW request \in Requests,
             Repeat(w, request) \/ Apply(w, request)
      PROVE  Implements
  <2>1. CASE Repeat(w, request)
    <3>1. PICK i \in 1..Len(idem) :
              idem[i].request = request /\ Answer(w, Done(request, idem[i].revision))
      BY <2>1 DEF Repeat, Retained
    <3>2. Committed = engine /\ engine \in Kept
      BY <1>0, <2>1, CommittedAtRest DEF Repeat, Unlocked, Kept, Surviving
    <3>3. Holds(Committed, idem[i].revision, request.change)
      BY <1>0, <3>1, <3>2 DEF AnswerInv
    <3> QED
      BY <1>0, <1>3, <2>1, <3>1, <3>3, HistoryAnswer DEF Repeat
  <2>2. CASE Apply(w, request)
    BY <1>1, <2>2 DEF Apply, clients
  <2> QED
    BY <1>4, <2>1, <2>2
<1>5. ASSUME NEW w \in Writers, Refuse(w) \/ HandlerStep(w)
      PROVE  Implements
  <2>1. CASE Refuse(w)
    BY <1>0, <1>3, <2>1, HistoryForget DEF Refuse
  <2>2. CASE WriteFails(w) \/ RollBack(w) \/ RollBackFails(w)
    <3>1. /\ Answer(w, [status |-> "failed"]) /\ copy' = copy
          /\ Committed = job.before /\ Committed' = job.before
      BY <2>2 DEF WriteFails, RollBack, RollBackFails, Holding, Fail, Release, NoJob,
                  Committed, Uncommitted
    <3> QED
      BY <1>0, <3>1, HistoryForget
  <2>3. CASE Succeed(w)
    <3>1. /\ Answer(w, Done(job.request, Len(engine))) /\ copy' = copy
          /\ Committed = engine /\ Committed' = engine
      BY <1>0, <2>3, HandlerJob DEF Succeed, Release, NoJob, Committed, Uncommitted
    <3>2. /\ job.request \in Requests /\ job.before \in Documents
          /\ job.request.change \in Changes
          /\ engine = Append(job.before, job.request.change)
      BY <1>0, <2>3, HandlerJob DEF Succeed
    <3>3. Holds(engine, Len(engine), job.request.change)
      BY <3>2 DEF Holds, Documents
    <3> QED
      BY <1>0, <3>1, <3>2, <3>3, HistoryAnswer
  <2>4. CASE ~(Refuse(w) \/ WriteFails(w) \/ RollBack(w) \/ RollBackFails(w) \/ Succeed(w))
    <3>1. UNCHANGED <<answer, copy>>
      BY <1>5, <2>4 DEF HandlerStep, Rename, SyncDirectory, SyncFails, Journal, Announce,
                        clients
    <3> QED
      BY <1>1, <3>1
  <2> QED
    BY <2>1, <2>2, <2>3, <2>4
<1>6. ASSUME NEW f \in Followers, FollowerStep(f)
      PROVE  Implements
  <2>1. UNCHANGED <<up, memory, disk, answer>>
    BY <1>6 DEF FollowerStep, Subscribe, Check, Wait, Wake, TimeOut, Receive, Read
  <2>2. Committed' = Committed
    BY <1>3, <2>1
  <2>3. CASE copy' = copy
    BY <1>1, <2>1, <2>3
  <2>4. CASE Receive(f) /\ ~poll[f].response.reset
    <3> DEFINE d == copy[f] \o poll[f].response.changes
    <3>1. copy[f] \in Documents /\ poll[f].response.changes \in Seq(Changes)
      BY <1>0, <2>4 DEF Receive, TypeInv, Polls
    <3>2. d \in Documents /\ Starts(copy[f], d)
      BY <3>1, StartsMore DEF Documents
    <3>3. Starts(d, Committed) /\ copy' = [copy EXCEPT ![f] = d]
      BY <2>4 DEF Receive, CopyInv
    <3> QED
      BY <1>0, <2>1, <2>2, <3>2, <3>3, HistoryAdvance
  <2>5. CASE Read(f)
    <3>1. Committed = engine /\ engine \in Documents
      BY <1>0, <2>5, CommittedAtRest DEF Read, Unlocked
    <3>2. Starts(engine, engine)
      BY <3>1 DEF Starts, Documents
    <3>3. Starts(copy[f], engine)
      BY <3>1 DEF CopyInv
    <3> QED
      BY <1>0, <2>1, <2>2, <2>5, <3>1, <3>2, <3>3, HistoryAdvance DEF Read
  <2> QED
    BY <1>6, <2>3, <2>4, <2>5 DEF FollowerStep, Subscribe, Check, Wait, Wake, TimeOut, Receive
<1>7. CASE Crash \/ LosePower
  BY <1>1, <1>7 DEF Crash, LosePower, Stop
<1>8. CASE Restart
  BY <1>1, <1>8 DEF Restart, clients
<1> QED
  BY <1>2, <1>4, <1>5, <1>6, <1>7, <1>8, StepCases

(***************************************************************************)
(* As long as the power stays on, the server implements the history of     *)
(* AnalysisHistory: one line of changes, answers that stand in it, copies  *)
(* that only move forward along it.                                        *)
(***************************************************************************)
THEOREM HistoryImplemented ==
    ASSUME ~PowerMayFail
    PROVE  ServerSpec => ImplementsHistory
<1>1. ServerInit => History!HistoryInit
  BY DEF ServerInit, History!HistoryInit, History!Unanswered, Committed, Uncommitted,
         NoJob, NoAnswer
<1>2. ServerInit => AheadInv /\ CopyInv
  BY DEF ServerInit, AheadInv, CopyInv, Starts, Committed, Uncommitted, NoJob
<1>3. ServerInv /\ AheadInv /\ CopyInv /\ [ServerNext]_vars => AheadInv' /\ CopyInv'
  BY CommittedGrows, CopyStep DEF ServerInv, Grows
<1>4. /\ ServerInv /\ ServerInv' /\ AheadInv /\ CopyInv /\ CopyInv' /\ [ServerNext]_vars
      => [History!HistoryNext]_(History!historyVars)
  BY CommittedGrows, HistoryStep DEF ServerInv, Implements
<1> QED
  BY <1>1, <1>2, <1>3, <1>4, ServerInvariant, PTL
  DEF ServerSpec, ImplementsHistory, History!HistorySpec
=============================================================================
