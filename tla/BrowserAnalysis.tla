-------------------------- MODULE BrowserAnalysis ---------------------------
(***************************************************************************)
(* A page's copy of the analysis document (web/analysis-port.ts, with      *)
(* web/main.ts, web/heap/analysis.ts and web/local-server.ts): connecting  *)
(* to the companion server and leaving it, reading the document, changing  *)
(* it, and following the changes of others.                                *)
(*                                                                         *)
(* An action is what the page runs between two awaits.  The page's worker  *)
(* answers in the order it is asked, so it is asked and works in one step, *)
(* and only its answers wait.  A document is the changes that led to it.   *)
(***************************************************************************)
EXTENDS Integers, Sequences, SequencesExt

CONSTANTS
    NoDocument,     \* null
    Retained,       \* changes the server's journal keeps
    OwnEarly,       \* may the page have analysis of its own, saved or changed while
                    \* standalone, before it has left its last server?
    MaxConnects,    \* bound on connections
    MaxChanges,     \* bound on the page's changes
    MaxOthers,      \* bound on the changes of others
    MaxFaults       \* bound on failed requests

ASSUME BrowserAssumption ==
    /\ Retained \in Nat /\ OwnEarly \in BOOLEAN
    /\ {MaxConnects, MaxChanges, MaxOthers, MaxFaults} \subseteq Nat

VARIABLES
    log,            \* the changes the server committed
    server,         \* the port's server: none, configured, or active (with a trace)
    generation,     \* of the connection
    installed,      \* the port's document
    canonical,      \* the document the page works on
    marks,          \* the page's own saved marks: are there any, and are they shown
                    \* instead of canonical
    core,           \* the document in the worker
    replies,        \* the worker's answers on their way
    queue,          \* the port's serial operations, the running one first
    feed,           \* the change feed
    commit,         \* where the page's own change is
    link,           \* main.ts: the connection and the trace
    used            \* counters, for the bounds

portVars == <<server, generation, installed>>
shown == <<canonical, marks>>
pageVars == <<commit, link>>
vars == <<log, portVars, shown, core, replies, queue, feed, pageVars, used>>

-----------------------------------------------------------------------------
(***************************************************************************)
(* Documents.                                                              *)
(***************************************************************************)
Blank == [revision |-> 0, changes |-> <<>>]
Saved == [revision |-> 0, changes |-> <<[by |-> "autosave", at |-> 0]>>]
Committed(r) == [revision |-> r, changes |-> SubSeq(log, 1, r)]

Changed(d, change) ==
    [revision |-> d.revision + 1, changes |-> Append(d.changes, change)]

(***************************************************************************)
(* Requests to the worker and what it answers.                             *)
(***************************************************************************)
Replace(d) == [ok |-> TRUE, document |-> d]
Read == [ok |-> TRUE, document |-> core]

\* Mutant: the worker does not look at the revision.
ChangeAny(expected, change) == [ok |-> TRUE, document |-> Changed(core, change)]

Change(expected, change) ==
    IF core.revision = expected
    THEN [ok |-> TRUE, document |-> Changed(core, change)]
    ELSE [ok |-> FALSE, document |-> core]

\* inbox: the answers left once the step has taken its own
Request(inbox, to, answer) ==
    /\ core' = answer.document
    /\ replies' = Append(inbox, [to |-> to, ok |-> answer.ok,
                                 document |-> answer.document])

NoRequest(inbox) == replies' = inbox /\ UNCHANGED core

Reply == Head(replies)
Answered(to) == replies # <<>> /\ Reply.to = to
Rest == Tail(replies)

-----------------------------------------------------------------------------
Off == [at |-> "off", after |-> 0, since |-> 0]
Waiting == [at |-> "waiting", after |-> 0, since |-> 0]
Queued == [at |-> "queued", after |-> 0, since |-> 0]

\* Mutant: the changes after those the server has now.
PollingAtServer(d) == [at |-> "polling", after |-> Len(log), since |-> Len(log)]

\* A request for changes, made when the server is at Len(log).
Polling(d) == [at |-> "polling", after |-> d.revision, since |-> Len(log)]

Operation(task, by) ==
    [task |-> task, by |-> by, at |-> "start", generation |-> generation,
     document |-> NoDocument, since |-> 0, from |-> 1, upto |-> 0, reset |-> FALSE]

ReadBy(by) == Operation("read", by)
ChangeOf(d) == [Operation("change", "commit") EXCEPT !.document = d]

Op == Head(queue)
Running(task, at) == queue # <<>> /\ Op.task \in task /\ Op.at = at
Move(op) == queue' = <<op>> \o Tail(queue)

\* Mutant: an operation of an earlier connection goes on.
CurrentAlways(op) == TRUE

Current(op) == op.generation = generation

Fault == used.faults < MaxFaults /\ used' = [used EXCEPT !.faults = @ + 1]

\* Bound: analysis of the page's own comes after the last connection is left.
MayBeOwn == OwnEarly \/ (server = "none" /\ used.connects = MaxConnects)

Show(d) == canonical' = d /\ marks' = [marks EXCEPT !.applied = FALSE]

(***************************************************************************)
(* A page that was opened by the companion, or one that has a trace of the *)
(* server's and left it.                                                   *)
(***************************************************************************)
BrowserInit ==
    /\ log = <<>>
    /\ server = "none" /\ generation = 0 /\ installed = NoDocument
    /\ core = Blank /\ replies = <<>> /\ queue = <<>> /\ feed = Off
    /\ commit = "idle" /\ marks = [saved |-> FALSE, applied |-> FALSE]
    /\ \E rendered \in BOOLEAN :
          /\ canonical \in IF rendered THEN {Blank} ELSE {NoDocument}
          /\ link = [status |-> "standalone", rendered |-> rendered, loaded |-> rendered,
                     pending |-> FALSE, config |-> FALSE, load |-> "none"]
    /\ used = [connects |-> 0, changes |-> 0, others |-> 0, faults |-> 0]

-----------------------------------------------------------------------------
(***************************************************************************)
(* How the callers of readAnalysis go on.                                  *)
(***************************************************************************)

\* resetStandaloneAnalysis and restoreMarksAutosave: the page shows the document,
\* or, standalone, the marks it finds saved, by whatever tab.  If there are any, the
\* memberships are asked for next.
ResetReturns(d, inbox) ==
    /\ canonical' = d
    /\ \E saved \in BOOLEAN :
          /\ marks.saved => saved
          /\ saved => marks.saved \/ MayBeOwn
          /\ marks' = [saved |-> saved, applied |-> saved /\ server = "none"]
          /\ IF saved THEN Request(inbox, "dump", Read) ELSE NoRequest(inbox)

ReadReturns(d, inbox) ==
    /\ installed' = d
    /\ IF Op.by = "reset" THEN ResetReturns(d, inbox) ELSE Show(d) /\ NoRequest(inbox)
    /\ queue' = Tail(queue) \o (IF Op.by = "first" THEN <<ChangeOf(d)>> ELSE <<>>)
    /\ feed' = IF Op.by = "feed" \/ feed.at = "off" THEN Polling(d) ELSE feed
    /\ commit' = IF Op.by = "again" THEN "idle" ELSE commit
    /\ UNCHANGED <<server, generation>>

ReadFails(inbox) ==
    /\ NoRequest(inbox)
    /\ queue' = Tail(queue)
    /\ feed' = IF Op.by = "feed" /\ Current(Op) THEN Waiting ELSE feed
    /\ commit' = IF Op.by \in {"first", "again"} THEN "idle" ELSE commit
    /\ UNCHANGED <<portVars, shown>>

(***************************************************************************)
(* readServerSnapshot: the document is fetched and installed in the worker *)
(* first, and after each await the connection must still be the same.      *)
(***************************************************************************)
Fetch(inbox) ==
    IF Current(Op)
    THEN /\ NoRequest(inbox)
         /\ Move([Op EXCEPT !.at = "fetching", !.since = Len(log)])
         /\ UNCHANGED <<portVars, shown, feed, commit>>
    ELSE ReadFails(inbox)

StartRead ==
    /\ Running({"read"}, "start")
    /\ Fetch(replies)
    /\ UNCHANGED <<log, link, used>>

SnapshotArrives ==
    /\ Running({"read", "deltas"}, "fetching")
    /\ \E r \in Op.since..Len(log) :
          IF Current(Op)
          THEN /\ Request(replies, "port", Replace(Committed(r)))
               /\ Move([Op EXCEPT !.at = "replacing", !.document = Committed(r)])
               /\ UNCHANGED <<portVars, shown, feed, commit>>
          ELSE ReadFails(replies)
    /\ UNCHANGED <<log, link, used>>

SnapshotFails ==
    /\ Running({"read", "deltas"}, "fetching")
    /\ Fault
    /\ ReadFails(replies)
    /\ UNCHANGED <<log, link>>

SnapshotInstalled ==
    /\ Running({"read", "deltas"}, "replacing")
    /\ Answered("port")
    /\ IF Current(Op) THEN ReadReturns(Op.document, Rest) ELSE ReadFails(Rest)
    /\ UNCHANGED <<log, link, used>>

-----------------------------------------------------------------------------
(***************************************************************************)
(* readAnalysis, by whoever the page is connected to: the worker answers   *)
(* "to", the server's document is read in its turn, or there is neither.   *)
(***************************************************************************)
ReadAnalysis(inbox, others, to, by) ==
    /\ IF server = "none" THEN Request(inbox, to, Read) ELSE NoRequest(inbox)
    /\ queue' = IF server = "active" THEN Append(others, ReadBy(by)) ELSE others

Reading(local, connected, none) ==
    CASE server = "none" -> local [] server = "active" -> connected [] OTHER -> none

(***************************************************************************)
(* commitCanonicalAnalysis: the next change is made to the document the    *)
(* page shows, read first if it shows none; changes wait for each other.   *)
(***************************************************************************)
Own == [by |-> "standalone", at |-> Len(core.changes) + 1]

ChangeAnalysis(d, inbox) ==
    /\ IF server = "none"
       THEN Request(inbox, "commit", Change(d.revision, Own))
       ELSE NoRequest(inbox)
    /\ queue' = IF server = "active" THEN Append(queue, ChangeOf(d)) ELSE queue
    /\ commit' = Reading("local", "change", "idle")

StartCommit ==
    /\ commit = "idle" /\ link.loaded
    /\ server = "none" => MayBeOwn
    /\ used.changes < MaxChanges
    /\ used' = [used EXCEPT !.changes = @ + 1]
    /\ IF canonical = NoDocument
       THEN /\ ReadAnalysis(replies, queue, "commit", "first")
            /\ commit' = Reading("localFirst", "change", "idle")
            /\ UNCHANGED shown
       ELSE /\ ChangeAnalysis(canonical, replies)
            /\ IF server = "configured" THEN Show(canonical) ELSE UNCHANGED shown
    /\ UNCHANGED <<log, portVars, feed, link>>

\* Someone changed the document first: it is read again.
Conflict(inbox, others) ==
    /\ ReadAnalysis(inbox, others, "commit", "again")
    /\ commit' = Reading("localRead", "again", "idle")

\* Standalone: the worker's answers to a read, to the change, and to the read after it.
LocalCommitReply ==
    /\ Answered("commit")
    /\ \/ /\ commit = "localFirst"
          /\ Show(Reply.document)
          /\ ChangeAnalysis(Reply.document, Rest)
       \/ /\ commit = "local"
          /\ IF Reply.ok
             THEN Request(Rest, "commit", Read) /\ commit' = "localRead" /\ UNCHANGED queue
             ELSE Conflict(Rest, queue)
          /\ UNCHANGED shown
       \/ /\ commit = "localRead"
          /\ Show(Reply.document)
          /\ NoRequest(Rest)
          /\ commit' = "idle"
          /\ UNCHANGED queue
    /\ UNCHANGED <<log, portVars, feed, link, used>>

-----------------------------------------------------------------------------
(***************************************************************************)
(* changeAnalysis, connected.  The document the change is made from is put *)
(* back into the worker, the server is asked, and what it committed is     *)
(* applied by the worker.                                                  *)
(***************************************************************************)
ChangeFails(inbox) ==
    /\ NoRequest(inbox)
    /\ queue' = Tail(queue)
    /\ commit' = "idle"
    /\ Show(canonical)
    /\ UNCHANGED <<portVars, feed>>

StartChange ==
    /\ Running({"change"}, "start")
    /\ IF Current(Op)
       THEN /\ Request(replies, "port", Replace(Op.document))
            /\ Move([Op EXCEPT !.at = "restoring"])
            /\ UNCHANGED <<portVars, shown, feed, commit>>
       ELSE ChangeFails(replies)
    /\ UNCHANGED <<log, link, used>>

DocumentRestored ==
    /\ Running({"change"}, "restoring")
    /\ Answered("port")
    /\ installed' = Op.document
    /\ Move([Op EXCEPT !.at = "posting"])
    /\ NoRequest(Rest)
    /\ UNCHANGED <<log, server, generation, shown, feed, pageVars, used>>

Accepts(r) == r = Len(log)

ServerAnswers ==
    /\ Running({"change"}, "posting")
    /\ IF Accepts(Op.document.revision)
       THEN /\ log' = Append(log, [by |-> "page", at |-> Len(log) + 1])
            /\ Move([Op EXCEPT !.at = "committed", !.upto = Len(log) + 1])
       ELSE /\ Move([Op EXCEPT !.at = "refused"])
            /\ UNCHANGED log
    /\ UNCHANGED <<portVars, shown, core, replies, feed, pageVars, used>>

\* The request, or the answer to it, is lost.
PostFails ==
    /\ \E at \in {"posting", "committed"} : Running({"change"}, at)
    /\ Fault
    /\ ChangeFails(replies)
    /\ UNCHANGED <<log, link>>

Refused ==
    /\ Running({"change"}, "refused")
    /\ Conflict(replies, Tail(queue))
    /\ UNCHANGED <<log, portVars, shown, feed, link, used>>

ChangeCommitted ==
    /\ Running({"change"}, "committed")
    /\ IF Current(Op) /\ Op.upto = Op.document.revision + 1
       THEN /\ Request(replies, "port", Change(Op.document.revision, log[Op.upto]))
            /\ Move([Op EXCEPT !.at = "applying"])
            /\ UNCHANGED <<portVars, shown, feed, commit>>
       ELSE ChangeFails(replies)
    /\ UNCHANGED <<log, link, used>>

ChangeApplied ==
    /\ Running({"change"}, "applying")
    /\ Answered("port")
    /\ IF Reply.ok /\ Reply.document.revision = Op.upto
       THEN /\ Request(Rest, "port", Read)
            /\ Move([Op EXCEPT !.at = "reading"])
            /\ UNCHANGED <<portVars, shown, feed, commit>>
       ELSE ChangeFails(Rest)
    /\ UNCHANGED <<log, link, used>>

ChangeReturns ==
    /\ Running({"change"}, "reading")
    /\ Answered("port")
    /\ installed' = Reply.document /\ Show(Reply.document)
    /\ queue' = Tail(queue)
    /\ commit' = "idle"
    /\ NoRequest(Rest)
    /\ UNCHANGED <<log, server, generation, feed, link, used>>

-----------------------------------------------------------------------------
(***************************************************************************)
(* The change feed: a held request for the changes after the installed     *)
(* revision, whose answer is worked off in its turn.                       *)
(***************************************************************************)
PollAnswers ==
    /\ feed.at = "polling"
    /\ \E r \in feed.since..Len(log) :
          queue' = Append(queue,
                       [Operation("deltas", "feed") EXCEPT
                            !.from = feed.after + 1, !.upto = r,
                            !.reset = feed.after > r \/ feed.after + Retained < r])
    /\ feed' = Queued
    /\ UNCHANGED <<log, portVars, shown, core, replies, pageVars, used>>

PollFails ==
    /\ feed.at = "polling"
    /\ Fault
    /\ feed' = Waiting
    /\ UNCHANGED <<log, portVars, shown, core, replies, queue, pageVars>>

Retry ==
    /\ feed.at = "waiting"
    /\ feed' = IF installed = NoDocument THEN Off ELSE Polling(installed)
    /\ UNCHANGED <<log, portVars, shown, core, replies, queue, pageVars, used>>

\* The first change of the answer that the document does not have.
FirstNew(d) == Max({Op.from, d.revision + 1})

(***************************************************************************)
(* The changes one by one, from where the loop is, on the document "d"     *)
(* that is installed now.  A gap leads to a snapshot.                      *)
(***************************************************************************)
Apply(d, inbox) ==
    IF d = NoDocument \/ FirstNew(d) > Op.upto
    THEN /\ NoRequest(inbox)
         /\ queue' = Tail(queue)
         /\ feed' = IF Current(Op) /\ d # NoDocument THEN Polling(d) ELSE feed
    ELSE IF FirstNew(d) = d.revision + 1
    THEN /\ Request(inbox, "port", Change(d.revision, log[FirstNew(d)]))
         /\ Move([Op EXCEPT !.at = "applying", !.from = FirstNew(d) + 1])
         /\ UNCHANGED feed
    ELSE /\ NoRequest(inbox)
         /\ IF Current(Op)
            THEN /\ Move([Op EXCEPT !.at = "fetching", !.since = Len(log)])
                 /\ UNCHANGED feed
            ELSE queue' = Tail(queue) /\ UNCHANGED feed

StartDeltas ==
    /\ Running({"deltas"}, "start")
    /\ IF ~Current(Op)
       THEN /\ NoRequest(replies) /\ queue' = Tail(queue)
            /\ UNCHANGED <<portVars, shown, feed, commit>>
       ELSE IF Op.reset
       THEN Fetch(replies)
       ELSE /\ Apply(installed, replies)
            /\ UNCHANGED <<portVars, shown, commit>>
    /\ UNCHANGED <<log, link, used>>

DeltaApplied ==
    /\ Running({"deltas"}, "applying")
    /\ Answered("port")
    /\ IF Reply.ok /\ Reply.document.revision = Op.from - 1
       THEN /\ Request(Rest, "port", Read)
            /\ Move([Op EXCEPT !.at = "reading"])
            /\ UNCHANGED <<portVars, shown, feed, commit>>
       ELSE Fetch(Rest)
    /\ UNCHANGED <<log, link, used>>

DeltaInstalled ==
    /\ Running({"deltas"}, "reading")
    /\ Answered("port")
    /\ installed' = Reply.document /\ Show(Reply.document)
    /\ Apply(Reply.document, Rest)
    /\ UNCHANGED <<log, server, generation, pageVars, used>>

\* Anyone else changes the document.
OthersCommit ==
    /\ used.others < MaxOthers
    /\ used' = [used EXCEPT !.others = @ + 1]
    /\ log' = Append(log, [by |-> "others", at |-> Len(log) + 1])
    /\ UNCHANGED <<portVars, shown, core, replies, queue, feed, pageVars>>

-----------------------------------------------------------------------------
(***************************************************************************)
(* useServerAnalysis: another connection, or none.                         *)
(***************************************************************************)
UseServer(state) ==
    /\ server' = state
    /\ generation' = generation + 1
    /\ installed' = NoDocument
    /\ feed' = Off

\* loadCanonicalAnalysis on a connection that was just made.
LoadFrom(others) == Append(others, [ReadBy("page") EXCEPT !.generation = generation + 1])

Connect ==
    /\ link.status = "standalone"
    /\ used.connects < MaxConnects
    /\ used' = [used EXCEPT !.connects = @ + 1]
    /\ link' = [link EXCEPT !.status = "connecting"]
    /\ UseServer("configured")
    /\ UNCHANGED <<log, shown, core, replies, queue, commit>>

ConnectFails ==
    /\ link.status = "connecting"
    /\ Fault
    /\ link' = [link EXCEPT !.status = "failed"]
    /\ UseServer("configured")
    /\ UNCHANGED <<log, shown, core, replies, queue, commit>>

(***************************************************************************)
(* The server answered.  A page that has its trace reads the analysis, one *)
(* that waits for the trace goes on waiting, any other asks for the trace. *)
(***************************************************************************)
Connected ==
    /\ link.status = "connecting"
    /\ \/ /\ link.rendered
          /\ UseServer("active")
          /\ queue' = LoadFrom(queue)
          /\ link' = [link EXCEPT !.status = "connected"]
          /\ UNCHANGED core
       \/ /\ ~link.rendered /\ link.pending
          /\ UseServer("configured")
          /\ link' = [link EXCEPT !.status = "connected"]
          /\ UNCHANGED <<core, queue>>
       \/ /\ ~link.rendered /\ ~link.pending
          /\ UseServer("configured")
          /\ link' = [link EXCEPT !.status = "connected", !.loaded = FALSE,
                                  !.load = "fetching"]
          /\ core' = Blank
          /\ UNCHANGED queue
    /\ UNCHANGED <<log, shown, replies, commit, used>>

TraceAnswers ==
    /\ link.load = "fetching"
    /\ link' = [link EXCEPT !.load = "streaming", !.pending = TRUE, !.config = TRUE]
    /\ UNCHANGED <<log, portVars, shown, core, replies, queue, feed, commit, used>>

TraceFails ==
    /\ link.load \in {"fetching", "streaming"}
    /\ Fault
    /\ link' = [link EXCEPT !.load = "none", !.pending = FALSE, !.loaded = FALSE]
    /\ UNCHANGED <<log, portVars, shown, core, replies, queue, feed, commit>>

\* The last of the trace is sent; the worker will answer that it is loaded.
TraceEnds ==
    /\ link.load = "streaming"
    /\ link' = [link EXCEPT !.load = "parsing"]
    /\ Request(replies, "load", Read)
    /\ UNCHANGED <<log, portVars, shown, queue, feed, commit, used>>

(***************************************************************************)
(* onLoaded: the trace is the server's.  If the page is still connected as *)
(* when it asked for it, the analysis is the server's too.                 *)
(***************************************************************************)
Loaded ==
    /\ Answered("load")
    /\ link' = [link EXCEPT !.rendered = link.pending, !.pending = FALSE,
                            !.config = FALSE, !.loaded = TRUE, !.load = "none"]
    /\ IF link.config
       THEN /\ UseServer("active")
            /\ queue' = LoadFrom(queue)
            /\ NoRequest(Rest)
       ELSE /\ ReadAnalysis(Rest, queue, "page", "page")
            /\ UNCHANGED <<portVars, feed>>
    /\ UNCHANGED <<log, shown, commit, used>>

PageReadsWorker ==
    /\ Answered("page")
    /\ Show(Reply.document)
    /\ NoRequest(Rest)
    /\ UNCHANGED <<log, portVars, queue, feed, pageVars, used>>

(***************************************************************************)
(* Disconnect.  A trace that is being sent is given up; on one that is     *)
(* loaded, the worker's analysis is emptied.                               *)
(***************************************************************************)
Disconnect ==
    /\ link.status # "standalone"
    /\ UseServer("none")
    /\ link' = [link EXCEPT !.status = "standalone", !.config = FALSE,
                    !.pending = @ /\ link.load # "streaming",
                    !.load = IF @ = "parsing" THEN @ ELSE "none"]
    /\ IF link.loaded THEN Request(replies, "reset", Replace(Blank)) ELSE NoRequest(replies)
    /\ UNCHANGED <<log, shown, queue, commit, used>>

(***************************************************************************)
(* resetStandaloneAnalysis and seedStandaloneAnalysis: each replaces the   *)
(* worker's document and reads it back, from whoever the page is connected *)
(* to by then.  The second puts back what the page shows.                  *)
(***************************************************************************)
ResetDone ==
    /\ Answered("reset")
    /\ ReadAnalysis(Rest, queue, "resetRead", "reset")
    /\ UNCHANGED <<log, portVars, shown, feed, pageVars, used>>

ResetRead ==
    /\ Answered("resetRead")
    /\ ResetReturns(Reply.document, Rest)
    /\ UNCHANGED <<log, portVars, queue, feed, pageVars, used>>

Displayed == IF marks.applied THEN Saved ELSE [canonical EXCEPT !.revision = 0]

Seed ==
    /\ Answered("dump")
    /\ IF server = "none" THEN Request(Rest, "seed", Replace(Displayed)) ELSE NoRequest(Rest)
    /\ UNCHANGED <<log, portVars, shown, queue, feed, pageVars, used>>

SeedDone ==
    /\ Answered("seed")
    /\ ReadAnalysis(Rest, queue, "page", "page")
    /\ UNCHANGED <<log, portVars, shown, feed, pageVars, used>>

-----------------------------------------------------------------------------
ServeRead == StartRead \/ SnapshotArrives \/ SnapshotInstalled
ServeChange == StartChange \/ DocumentRestored \/ ServerAnswers \/ Refused
               \/ ChangeCommitted \/ ChangeApplied \/ ChangeReturns
ServeDeltas == StartDeltas \/ DeltaApplied \/ DeltaInstalled
Serve == ServeRead \/ ServeChange \/ ServeDeltas
Follow == PollAnswers \/ Retry
Receive == LocalCommitReply \/ Loaded \/ PageReadsWorker
           \/ ResetDone \/ ResetRead \/ Seed \/ SeedDone
LoadTrace == TraceAnswers \/ TraceEnds
Fails == SnapshotFails \/ PostFails \/ PollFails \/ ConnectFails \/ TraceFails

BrowserNext ==
    \/ Serve \/ Follow \/ Receive \/ LoadTrace \/ Fails
    \/ Connect \/ Connected \/ Disconnect
    \/ StartCommit \/ OthersCommit

BrowserSpec == BrowserInit /\ [][BrowserNext]_vars

(***************************************************************************)
(* Answers arrive, and the page runs what they start.  Nobody has to       *)
(* connect, disconnect, change the document or fail.                       *)
(***************************************************************************)
FairBrowserSpec ==
    BrowserSpec /\ WF_vars(Serve) /\ WF_vars(Follow) /\ WF_vars(Receive)
                /\ WF_vars(LoadTrace) /\ WF_vars(Connected)

-----------------------------------------------------------------------------
(***************************************************************************)
(* Once a connection has read the document, what the port, the page and    *)
(* the worker hold is the server's document at some revision, whatever was *)
(* under way when it was made (ARCH-008).                                  *)
(***************************************************************************)
Mirrors(d) == d.revision <= Len(log) /\ d = Committed(d.revision)

FollowsServer ==
    server = "active" /\ installed # NoDocument
    => Mirrors(installed) /\ Mirrors(canonical) /\ Mirrors(core)

\* Once nothing is under way, a page that follows the server shows its document.
ShowsCommitted ==
    feed # Off /\ queue = <<>> /\ replies = <<>> => Mirrors(canonical)

(***************************************************************************)
(* After a disconnection, once the worker has answered everything, the     *)
(* page works on the worker's document, and what that has is the page's    *)
(* own, up to the first change the page makes itself.  (Disconnect gives   *)
(* the page its own analysis back, spec/08-architecture.md:173-175.)       *)
(***************************************************************************)
ServersOwn == {"page", "others"}

PageCameFirst(d) ==
    \A i \in 1..Len(d.changes) : d.changes[i].by \in ServersOwn =>
        \E j \in 1..(i - 1) : d.changes[j].by = "standalone"

LeavesServer ==
    server = "none" /\ link.loaded /\ replies = <<>>
    => canonical = core /\ PageCameFirst(core)

(***************************************************************************)
(* What spec/08-architecture.md:173-175 says without an exception: no      *)
(* change of the server's is in the standalone document.  The loop over    *)
(* deltas goes on over a disconnection, though, and once the page has      *)
(* changed the emptied document itself, the next delta may find the        *)
(* revision it expects.                                                    *)
(***************************************************************************)
NothingCopied ==
    server = "none" /\ link.loaded /\ replies = <<>>
    => \A i \in 1..Len(core.changes) : core.changes[i].by \notin ServersOwn

(***************************************************************************)
(* A page whose feed runs shows, in the end, the server's document, and so *)
(* does its worker.                                                        *)
(***************************************************************************)
UpToDate == canonical = Committed(Len(log)) /\ core = canonical

CatchesUp == <>[](feed # Off => UpToDate)
=============================================================================
