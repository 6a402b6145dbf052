----------------------- MODULE BrowserAnalysisProofs ------------------------
(***************************************************************************)
(* Proofs about the page's copy of the analysis document: once a           *)
(* connection has read the document, the page, its port and its worker     *)
(* hold the server's.                                                      *)
(***************************************************************************)
EXTENDS BrowserAnalysis, SequenceTheorems, TLAPS

-----------------------------------------------------------------------------
(***************************************************************************)
(* What is true of the connection whatever the page's own analysis is.     *)
(***************************************************************************)
Links == [status : {"standalone", "connecting", "failed", "connected"},
          rendered : BOOLEAN, loaded : BOOLEAN, pending : BOOLEAN, config : BOOLEAN,
          load : {"none", "fetching", "streaming", "parsing"}]

Counters == [connects : Nat, changes : Nat, others : Nat, faults : Nat]

Linked ==
    /\ server \in {"none", "configured", "active"}
    /\ link \in Links
    /\ used \in Counters /\ used.connects <= MaxConnects
    /\ server = "none" <=> link.status = "standalone"
    /\ server = "none" => ~link.config /\ link.load \in {"none", "parsing"}

\* The page has left the server for good.
Left == server = "none" /\ used.connects = MaxConnects

-----------------------------------------------------------------------------
(***************************************************************************)
(* Until then every document there is, in the worker, on its way from it,  *)
(* in the port, on the page and in an operation of whatever connection, is *)
(* the server's at some revision.  Afterwards it may be the page's own.    *)
(***************************************************************************)
Commits == [by : {"page", "others"}, at : Nat]
AnyChange == [by : {"page", "others", "standalone", "autosave"}, at : Nat]
Documents == [revision : Nat, changes : Seq(AnyChange)]

Committeds == {Committed(r) : r \in 0..Len(log)}
Known == IF Left THEN Documents ELSE Committeds
OrNone == Known \cup {NoDocument}

\* Where there are saved marks, they are asked for and put into the worker.
Recipients ==
    {"port", "commit", "page", "load", "reset", "resetRead"}
        \cup IF marks.saved THEN {"dump", "seed"} ELSE {}
Answers == [to : Recipients, ok : BOOLEAN, document : Known]

AnyOperation ==
    [task : {"read", "change", "deltas"},
     by : {"first", "again", "feed", "reset", "page", "commit"},
     at : {"start", "fetching", "replacing", "restoring", "posting", "refused",
           "committed", "applying", "reading"},
     generation : Nat, document : OrNone, since : Nat, from : Nat, upto : 0..Len(log),
     reset : BOOLEAN]

\* The latest connection an operation can be of.
Newest == IF server = "active" THEN generation ELSE generation - 1

\* A change starts from a document the page shows; a snapshot has arrived;
\* deltas that are applied are past the first.
Operations ==
    {op \in AnyOperation :
        /\ op.generation <= Newest
        /\ op.task = "change" <=> op.by = "commit"
        /\ op.task = "change" => op.document \in Known /\ canonical \in Known
        /\ op.at = "replacing" => op.document \in Known
        /\ op.task = "deltas" /\ op.at \in {"applying", "reading"} => op.from >= 2}

\* Only the feed of a server in use runs.
Feeds ==
    IF server = "active"
    THEN [at : {"off", "waiting", "queued", "polling"}, after : Nat, since : Nat]
    ELSE {Off}

Marks == [saved : BOOLEAN, applied : BOOLEAN]

Mirrored ==
    /\ log \in Seq(Commits)
    /\ generation \in Nat
    /\ installed \in OrNone /\ canonical \in OrNone
    /\ installed # NoDocument \/ marks.saved => canonical \in Known
    /\ marks \in Marks /\ (marks.saved => Left)
    /\ core \in Known
    /\ replies \in Seq(Answers)
    /\ queue \in Seq(Operations)
    /\ feed \in Feeds
    /\ commit = "localFirst" => used.connects = MaxConnects

BrowserInv == Linked /\ Mirrored

-----------------------------------------------------------------------------
(***************************************************************************)
(* The connection, and that a page that left for good stays away.          *)
(***************************************************************************)
LEMMA Counted ==
    ASSUME Linked, Fault
    PROVE  used' \in Counters /\ used'.connects = used.connects
BY DEF Linked, Fault, Counters

LEMMA LinkedInit == BrowserInit => Linked
BY BrowserAssumption DEF BrowserInit, Linked, Links, Counters

\* The operations leave the connection alone.
LEMMA ServeQuiet ==
    ASSUME Serve
    PROVE  UNCHANGED <<server, link, used>>
<1>1. CASE StartRead
  BY <1>1 DEF StartRead, Fetch, ReadFails, portVars, shown
<1>2. CASE SnapshotArrives
  BY <1>2 DEF SnapshotArrives, ReadFails, portVars, shown
<1>3. CASE SnapshotInstalled
  BY <1>3 DEF SnapshotInstalled, ReadReturns, ReadFails, portVars, shown
<1>4. CASE ServeChange
  BY <1>4 DEF ServeChange, StartChange, DocumentRestored, ServerAnswers, Refused,
              ChangeCommitted, ChangeApplied, ChangeReturns, ChangeFails, portVars,
              pageVars
<1>5. CASE ServeDeltas
  BY <1>5 DEF ServeDeltas, StartDeltas, DeltaApplied, DeltaInstalled, Fetch, ReadFails,
              portVars, pageVars
<1> QED  BY <1>1, <1>2, <1>3, <1>4, <1>5 DEF Serve, ServeRead

LEMMA ReceiveQuiet ==
    ASSUME Receive, ~Loaded
    PROVE  UNCHANGED <<server, link, used>>
BY DEF Receive, LocalCommitReply, PageReadsWorker, ResetDone, ResetRead, Seed, SeedDone,
       portVars, pageVars

LEMMA FollowQuiet ==
    ASSUME Follow
    PROVE  UNCHANGED <<server, link, used>>
BY DEF Follow, PollAnswers, Retry, portVars, shown, pageVars

\* Losing a request counts, and leaves the connection alone otherwise.
LEMMA LossQuiet ==
    ASSUME SnapshotFails \/ PostFails \/ PollFails
    PROVE  Fault /\ UNCHANGED <<server, link>>
BY DEF SnapshotFails, PostFails, PollFails, ReadFails, ChangeFails, portVars, shown, pageVars

LEMMA LinkedStep ==
    ASSUME Linked, [BrowserNext]_vars
    PROVE  Linked' /\ (Left => Left')
<1> USE BrowserAssumption
<1>1. CASE UNCHANGED <<server, link, used>>
  BY <1>1 DEF Linked, Left
<1>2. CASE UNCHANGED vars
  BY <1>1, <1>2 DEF vars, portVars, shown, pageVars
<1>3. CASE Serve
  BY <1>1, <1>3, ServeQuiet
<1>4. CASE Follow
  BY <1>1, <1>4, FollowQuiet
<1>5. CASE Receive
  <2>1. CASE ~Loaded
    BY <1>1, <1>5, <2>1, ReceiveQuiet
  <2>2. CASE Loaded
    <3>1. link' \in Links /\ link'.status = link.status /\ ~link'.config
          /\ link'.load = "none"
      BY <2>2 DEF Loaded, Linked, Links
    <3>2. used' = used
      BY <2>2 DEF Loaded
    <3>3. CASE link.config
      BY <2>2, <3>1, <3>2, <3>3 DEF Loaded, UseServer, Linked, Left
    <3>4. CASE ~link.config
      BY <2>2, <3>1, <3>2, <3>4 DEF Loaded, portVars, shown, Linked, Left
    <3> QED  BY <3>3, <3>4
  <2> QED  BY <2>1, <2>2
<1>6. CASE LoadTrace
  <2>1. UNCHANGED <<server, used>> /\ link' \in Links /\ link'.status = link.status
    BY <1>6 DEF LoadTrace, TraceAnswers, TraceEnds, portVars, shown, Linked, Links
  <2>2. link.status # "standalone"
    BY <1>6 DEF LoadTrace, TraceAnswers, TraceEnds, Linked
  <2> QED  BY <2>1, <2>2 DEF Linked, Left
<1>7. CASE Fails
  <2>1. CASE SnapshotFails \/ PostFails \/ PollFails
    BY <2>1, LossQuiet, Counted DEF Linked, Left
  <2>2. CASE ConnectFails
    <3>1. link' \in Links /\ link'.status = "failed" /\ server' = "configured" /\ server # "none"
      BY <2>2 DEF ConnectFails, UseServer, Linked, Links
    <3>2. Fault
      BY <2>2 DEF ConnectFails
    <3> QED  BY <3>1, <3>2, Counted DEF Linked, Left
  <2>3. CASE TraceFails
    <3>1. /\ link' \in Links /\ link'.status = link.status /\ link'.config = link.config
          /\ link'.load = "none" /\ server' = server
      BY <2>3 DEF TraceFails, portVars, shown, Linked, Links
    <3>2. Fault
      BY <2>3 DEF TraceFails
    <3> QED  BY <3>1, <3>2, Counted DEF Linked, Left
  <2> QED  BY <1>7, <2>1, <2>2, <2>3 DEF Fails
<1>8. CASE Connect
  <2>1. link' \in Links /\ link'.status = "connecting" /\ server' = "configured"
    BY <1>8 DEF Connect, UseServer, Linked, Links
  <2>2. used' \in Counters /\ used'.connects = used.connects + 1
    BY <1>8 DEF Connect, Linked, Counters
  <2>3. used.connects < MaxConnects /\ used.connects \in Nat
    BY <1>8 DEF Connect, Linked, Counters
  <2> QED  BY <2>1, <2>2, <2>3 DEF Linked, Left
<1>9. CASE Connected
  <2>1. /\ link' \in Links /\ link'.status = "connected" /\ link.status = "connecting"
        /\ server' \in {"configured", "active"} /\ used' = used
    BY <1>9 DEF Connected, UseServer, Linked, Links
  <2> QED  BY <2>1 DEF Linked, Left
<1>10. CASE Disconnect
  <2>1. PICK p \in BOOLEAN : p = (link.pending /\ link.load # "streaming")
    OBVIOUS
  <2>2. link' = [link EXCEPT !.status = "standalone", !.config = FALSE, !.pending = p,
                    !.load = IF @ = "parsing" THEN @ ELSE "none"]
    BY <1>10, <2>1, Zenon DEF Disconnect
  <2>3. /\ link' \in Links /\ link'.status = "standalone" /\ ~link'.config
        /\ link'.load \in {"none", "parsing"}
    BY <2>2 DEF Linked, Links
  <2>4. server' = "none" /\ used' = used /\ server # "none"
    BY <1>10 DEF Disconnect, UseServer, Linked
  <2> QED  BY <2>3, <2>4 DEF Linked, Left
<1>11. CASE StartCommit \/ OthersCommit
  <2>1. used.changes + 1 \in Nat /\ used.others + 1 \in Nat
    BY DEF Linked, Counters
  <2>2. /\ \/ used' = [used EXCEPT !.changes = used.changes + 1]
           \/ used' = [used EXCEPT !.others = used.others + 1]
        /\ UNCHANGED <<server, link>>
    BY <1>11, Zenon DEF StartCommit, OthersCommit, portVars, shown, pageVars
  <2>3. used' \in Counters /\ used'.connects = used.connects
    BY <2>1, <2>2 DEF Linked, Counters
  <2> QED  BY <2>2, <2>3 DEF Linked, Left
<1> QED
  BY <1>2, <1>3, <1>4, <1>5, <1>6, <1>7, <1>8, <1>9, <1>10, <1>11 DEF BrowserNext

-----------------------------------------------------------------------------
(***************************************************************************)
(* The server's documents.                                                 *)
(***************************************************************************)
LEMMA CommittedDocument ==
    ASSUME NEW r \in 0..Len(log)
    PROVE  Committed(r) \in Committeds /\ Committed(r).revision = r
BY DEF Committeds, Committed

LEMMA OfCommitted ==
    ASSUME NEW d \in Committeds
    PROVE  d.revision \in 0..Len(log) /\ d = Committed(d.revision)
BY DEF Committeds, Committed

\* One more change of the log makes the next document.
LEMMA NextCommitted ==
    ASSUME log \in Seq(Commits), NEW r \in 0..Len(log), r + 1 <= Len(log)
    PROVE  Changed(Committed(r), log[r + 1]) = Committed(r + 1)
<1>1. Len(log) \in Nat
  BY LenProperties
<1>2. SubSeq(log, 1, r + 1) = SubSeq(log, 1, r) \o <<log[r + 1]>>
  <2>1. 1 \in 1..Len(log) /\ r + 1 \in 1..Len(log) /\ (r + 1) - 1 = r
    BY <1>1
  <2> QED  BY <2>1, SubSeqRecursiveSecond
<1>3. SubSeq(log, 1, r) \in Seq(Commits)
  <2>1. \A i \in 1..r : log[i] \in Commits
    BY <1>1, ElementOfSeq
  <2> QED  BY <2>1, SubSeqProperties
<1>4. log[r + 1] \in Commits
  BY <1>1, ElementOfSeq
<1>5. Append(SubSeq(log, 1, r), log[r + 1]) = SubSeq(log, 1, r) \o <<log[r + 1]>>
  BY <1>3, <1>4, AppendIsConcat
<1> QED  BY <1>2, <1>5 DEF Changed, Committed

\* What is committed stays.
LEMMA CommittedsGrow ==
    ASSUME log \in Seq(Commits), NEW c \in Commits, log' = Append(log, c)
    PROVE  /\ log' \in Seq(Commits) /\ Len(log') = Len(log) + 1
           /\ Committeds \subseteq Committeds'
<1>1. /\ log' \in Seq(Commits) /\ Len(log') = Len(log) + 1 /\ Len(log) \in Nat
      /\ \A i \in 1..Len(log) : log'[i] = log[i]
  BY AppendProperties, LenProperties
<1>2. ASSUME NEW r \in 0..Len(log)
      PROVE  SubSeq(log', 1, r) = SubSeq(log, 1, r)
  <2>1. /\ \A i \in 1..r : log[i] \in Commits
        /\ \A i \in 1..r : log'[i] \in Commits /\ log'[i] = log[i]
    BY <1>1, ElementOfSeq
  <2>2. /\ SubSeq(log, 1, r) \in Seq(Commits)
        /\ Len(SubSeq(log, 1, r)) = r
        /\ \A i \in 1..r : SubSeq(log, 1, r)[i] = log[i]
    BY <2>1, <1>1, SubSeqProperties
  <2>3. /\ SubSeq(log', 1, r) \in Seq(Commits)
        /\ Len(SubSeq(log', 1, r)) = r
        /\ \A i \in 1..r : SubSeq(log', 1, r)[i] = log'[i]
    BY <2>1, <1>1, SubSeqProperties
  <2> QED  BY <2>1, <2>2, <2>3, SeqEqual
<1>3. ASSUME NEW d \in Committeds
      PROVE  d \in Committeds'
  <2>1. PICK r \in 0..Len(log) : d = [revision |-> r, changes |-> SubSeq(log, 1, r)]
    BY DEF Committeds, Committed
  <2>2. d = [revision |-> r, changes |-> SubSeq(log', 1, r)] /\ r \in 0..Len(log')
    BY <2>1, <1>1, <1>2
  <2> QED  BY <2>2 DEF Committeds, Committed
<1> QED  BY <1>1, <1>3

LEMMA CommittedsAreDocuments ==
    ASSUME log \in Seq(Commits)
    PROVE  Committeds \subseteq Known /\ Known \subseteq Documents
<1>1. ASSUME NEW d \in Committeds
      PROVE  d \in Documents
  <2>1. PICK r \in 0..Len(log) : d = [revision |-> r, changes |-> SubSeq(log, 1, r)]
    BY DEF Committeds, Committed
  <2>2. Len(log) \in Nat
    BY LenProperties
  <2>3. \A i \in 1..r : log[i] \in AnyChange
    <3>1. \A i \in 1..r : log[i] \in Commits
      BY <2>2, ElementOfSeq
    <3> QED  BY <3>1 DEF Commits, AnyChange
  <2>4. SubSeq(log, 1, r) \in Seq(AnyChange)
    BY <2>2, <2>3, SubSeqProperties
  <2> QED  BY <2>1, <2>2, <2>4 DEF Documents
<1> QED  BY <1>1 DEF Known

LEMMA OfKnown ==
    ASSUME log \in Seq(Commits), NEW d \in Known
    PROVE  d.revision \in Nat
BY CommittedsAreDocuments DEF Documents

LEMMA SameServer ==
    ASSUME UNCHANGED <<log, server, generation>>, used'.connects = used.connects
    PROVE  /\ Known' = Known /\ OrNone' = OrNone
           /\ (marks.saved => marks'.saved) => Answers \subseteq Answers'
           /\ Newest' = Newest /\ Feeds' = Feeds
<1>1. Committeds' = Committeds /\ (Left' <=> Left)
  BY DEF Committeds, Committed, Left
<1>2. Known' = Known
  BY <1>1 DEF Known, Documents, AnyChange
<1> QED  BY <1>2 DEF OrNone, Answers, Newest, Feeds, Off, Recipients

-----------------------------------------------------------------------------
(***************************************************************************)
(* Messages and operations.                                                *)
(***************************************************************************)
LEMMA FirstReply ==
    ASSUME Mirrored, replies # <<>>
    PROVE  Reply \in Answers /\ Rest \in Seq(Answers)
BY HeadTailProperties DEF Mirrored, Reply, Rest

LEMMA FirstOp ==
    ASSUME Mirrored, queue # <<>>
    PROVE  Op \in Operations /\ Tail(queue) \in Seq(Operations)
BY HeadTailProperties DEF Mirrored, Op

LEMMA Requested ==
    ASSUME NEW inbox \in Seq(Answers), NEW to \in Recipients, NEW answer,
           answer.ok \in BOOLEAN, answer.document \in Known,
           Request(inbox, to, answer)
    PROVE  core' \in Known /\ replies' \in Seq(Answers)
<1>1. PICK m : m = [to |-> to, ok |-> answer.ok, document |-> answer.document]
  OBVIOUS
<1>2. m \in Answers
  BY <1>1 DEF Answers
<1>3. replies' = Append(inbox, m) /\ core' = answer.document
  BY <1>1, Zenon DEF Request
<1> QED  BY <1>2, <1>3, AppendProperties

LEMMA NotRequested ==
    ASSUME Mirrored, NEW inbox \in Seq(Answers), NoRequest(inbox)
    PROVE  core' \in Known /\ replies' \in Seq(Answers)
BY DEF Mirrored, NoRequest

LEMMA ChangedDocument ==
    ASSUME NEW d \in Documents,
           NEW c \in AnyChange
    PROVE  Changed(d, c) \in Documents
<1>1. Append(d.changes, c)
        \in Seq(AnyChange)
  BY AppendProperties DEF Documents
<1> QED  BY <1>1 DEF Changed, Documents

\* Asked for the change the log has next, the worker answers with a document
\* of the server's, whether it applies the change or not.
LEMMA ChangeAnswered ==
    ASSUME Mirrored, NEW d \in Known, d.revision + 1 <= Len(log)
    PROVE  /\ Change(d.revision, log[d.revision + 1]).ok \in BOOLEAN
           /\ Change(d.revision, log[d.revision + 1]).document \in Known
<1>1. core \in Known /\ log \in Seq(Commits) /\ d.revision \in Nat /\ Len(log) \in Nat
  BY OfKnown, LenProperties DEF Mirrored
<1>2. CASE core.revision = d.revision /\ ~Left
  <2>1. core = Committed(d.revision) /\ d.revision \in 0..Len(log)
    BY <1>1, <1>2, OfCommitted DEF Known
  <2>2. Changed(core, log[d.revision + 1]) = Committed(d.revision + 1)
    BY <1>1, <2>1, NextCommitted
  <2>3. d.revision + 1 \in 0..Len(log)
    BY <1>1, <2>1
  <2>4. Committed(d.revision + 1) \in Known
    BY <1>1, <2>3, CommittedDocument, CommittedsAreDocuments
  <2> QED  BY <1>2, <2>2, <2>4 DEF Change
<1>3. CASE core.revision = d.revision /\ Left
  <2>1. log[d.revision + 1] \in Commits
    BY <1>1, ElementOfSeq
  <2>2. Changed(core, log[d.revision + 1]) \in Known
    BY <1>1, <1>3, <2>1, ChangedDocument DEF Known, Commits, AnyChange
  <2> QED  BY <1>3, <2>2 DEF Change
<1>4. CASE core.revision # d.revision
  BY <1>1, <1>4 DEF Change
<1> QED  BY <1>2, <1>3, <1>4

\* A change of the page's own is made when it left for good.
LEMMA OwnChangeAnswered ==
    ASSUME Mirrored, Left, NEW revision
    PROVE  Change(revision, Own).ok \in BOOLEAN /\ Change(revision, Own).document \in Known
<1>1. core \in Documents
  BY DEF Mirrored, Known
<1>2. Own \in AnyChange
  BY <1>1, LenProperties DEF Own, Documents, AnyChange
<1>3. Changed(core, Own) \in Documents
  BY <1>1, <1>2, ChangedDocument
<1> QED  BY <1>1, <1>3 DEF Change, Known

LEMMA Moved ==
    ASSUME Mirrored, queue # <<>>, NEW op \in Operations, Move(op)
    PROVE  queue' \in Seq(Operations)
<1>1. Tail(queue) \in Seq(Operations) /\ <<op>> \in Seq(Operations)
  BY FirstOp
<1> QED  BY <1>1, ConcatProperties DEF Move

LEMMA OperationsKept ==
    ASSUME log' = log, Known \subseteq Known', Newest \in Int, Newest' \in Int,
           Newest <= Newest',
           canonical' = canonical \/ canonical' \in Known
    PROVE  \A q : q \in Seq(Operations) => q \in Seq(Operations')
<1>1. OrNone \subseteq OrNone'
  BY DEF OrNone
<1>2. AnyOperation \subseteq AnyOperation'
  BY <1>1 DEF AnyOperation
<1>3. ASSUME NEW op \in Operations
      PROVE  op \in Operations'
  <2>1. op \in AnyOperation' /\ op.generation <= Newest'
    BY <1>2 DEF Operations, AnyOperation
  <2> QED  BY <2>1 DEF Operations
<1>4. Operations \subseteq Operations'
  BY <1>3
<1> QED  BY <1>4, SeqMonotonic

LEMMA NewestInt == Mirrored => Newest \in Int
BY DEF Mirrored, Newest

\* The saved marks are found once the page left for good, and shows something.
Remarks ==
    /\ marks' \in Marks /\ (marks.saved => marks'.saved)
    /\ marks'.saved => marks.saved \/ (Left /\ canonical' \in Known)

(***************************************************************************)
(* What a step that commits nothing has to establish, on the same          *)
(* connection and on another.                                              *)
(***************************************************************************)
LEMMA MirroredKept ==
    ASSUME Mirrored, UNCHANGED <<log, server, generation>>,
           used'.connects = used.connects,
           canonical' = canonical \/ canonical' \in Known,
           \/ installed' = installed \/ installed' = NoDocument
           \/ installed' \in Known /\ canonical' \in Known,
           core' \in Known, replies' \in Seq(Answers) \/ replies' \in Seq(Answers'),
           queue' \in Seq(Operations) \/ queue' \in Seq(Operations'),
           feed' \in Feeds, Remarks,
           commit' = "localFirst" => used'.connects = MaxConnects
    PROVE  Mirrored'
<1>1. /\ Known' = Known /\ OrNone' = OrNone /\ Answers \subseteq Answers'
      /\ Newest' = Newest /\ Feeds' = Feeds /\ Newest \in Int /\ (Left' <=> Left)
  BY SameServer, NewestInt DEF Remarks, Left
<1>2. queue' \in Seq(Operations')
  BY <1>1, OperationsKept
<1>3. log' \in Seq(Commits) /\ generation' \in Nat
  BY DEF Mirrored
<1>4. canonical' \in OrNone /\ installed' \in OrNone
  BY DEF Mirrored, OrNone
<1>5. installed' # NoDocument \/ marks'.saved => canonical' \in Known
  BY DEF Mirrored, Remarks
<1>6. marks' \in Marks' /\ (marks'.saved => Left')
  BY <1>1 DEF Mirrored, Remarks, Marks
<1>7. replies' \in Seq(Answers')
  BY <1>1, SeqMonotonic
<1> QED  BY <1>1, <1>2, <1>3, <1>4, <1>5, <1>6, <1>7 DEF Mirrored

LEMMA Reconnected ==
    ASSUME Mirrored, NEW state, UseServer(state), log' = log, Left => Left',
           marks' = marks
    PROVE  /\ Known \subseteq Known' /\ Newest' \in Int /\ Newest <= Newest'
           /\ generation <= Newest' /\ (state = "active" => Newest' = generation + 1)
           /\ Answers \subseteq Answers' /\ OrNone \subseteq OrNone'
<1>1. Committeds' = Committeds /\ Documents' = Documents
  BY DEF Committeds, Committed, Documents, AnyChange
<1>2. Known \subseteq Known'
  BY <1>1, CommittedsAreDocuments DEF Known, Mirrored
<1> QED  BY <1>2 DEF Answers, OrNone, Newest, UseServer, Mirrored, Recipients

LEMMA MirroredAgain ==
    ASSUME Mirrored, NEW state, UseServer(state), UNCHANGED <<log, shown>>,
           Left => Left',
           core' \in Known, replies' \in Seq(Answers),
           queue' \in Seq(Operations) \/ queue' \in Seq(Operations'),
           commit' = "localFirst" => used'.connects = MaxConnects
    PROVE  Mirrored'
<1>1. /\ Known \subseteq Known' /\ Newest' \in Int /\ Newest <= Newest'
      /\ Answers \subseteq Answers' /\ OrNone \subseteq OrNone' /\ Newest \in Int
  BY Reconnected, NewestInt DEF shown
<1>2. queue' \in Seq(Operations')
  BY <1>1, OperationsKept DEF shown
<1>3. replies' \in Seq(Answers')
  BY <1>1, SeqMonotonic
<1>4. log' \in Seq(Commits) /\ generation' \in Nat /\ feed' = Off /\ installed' = NoDocument
  BY DEF Mirrored, UseServer
<1>5. feed' \in Feeds'
  BY <1>4 DEF Feeds, Off
<1>6. NoDocument \in OrNone /\ canonical' \in OrNone
  BY DEF OrNone, Mirrored, shown
<1>7. /\ marks' \in Marks' /\ (marks'.saved => Left')
      /\ marks'.saved => canonical' \in Known
  BY DEF Mirrored, Marks, shown
<1> QED  BY <1>1, <1>2, <1>3, <1>4, <1>5, <1>6, <1>7 DEF Mirrored

\* A commit leaves everything there is valid.
LEMMA Grown ==
    ASSUME Mirrored, Len(log) \in Nat, Len(log') = Len(log) + 1,
           Committeds \subseteq Committeds',
           UNCHANGED <<server, generation, shown>>, used'.connects = used.connects
    PROVE  /\ Known \subseteq Known' /\ Operations \subseteq Operations'
           /\ Answers \subseteq Answers' /\ OrNone \subseteq OrNone' /\ Feeds' = Feeds
<1>1. Known \subseteq Known' /\ Newest' = Newest /\ UNCHANGED <<canonical, marks>>
  BY DEF Known, Left, Newest, Documents, AnyChange, shown
<1>2. OrNone \subseteq OrNone'
  BY <1>1 DEF OrNone
<1>3. 0..Len(log) \subseteq 0..Len(log')
  OBVIOUS
<1>4. AnyOperation \subseteq AnyOperation'
  BY <1>2, <1>3 DEF AnyOperation
<1>5. Operations \subseteq Operations'
  BY <1>1, <1>4 DEF Operations
<1> QED  BY <1>1, <1>2, <1>5 DEF Answers, Feeds, Off, Recipients

LEMMA MirroredGrown ==
    ASSUME Mirrored, log' \in Seq(Commits), Len(log') = Len(log) + 1,
           Committeds \subseteq Committeds',
           UNCHANGED <<portVars, shown, core, replies, feed, pageVars>>,
           used'.connects = used.connects,
           queue' \in Seq(Operations')
    PROVE  Mirrored'
<1>1. Len(log) \in Nat
  BY LenProperties DEF Mirrored
<1>2. UNCHANGED <<server, generation, installed, canonical, core, feed, commit, marks>>
  BY DEF portVars, shown, pageVars
<1>3. /\ (Left' <=> Left) /\ Marks' = Marks
      /\ Known \subseteq Known' /\ Answers \subseteq Answers' /\ OrNone \subseteq OrNone'
      /\ Feeds' = Feeds
  BY <1>1, <1>2, Grown DEF Left, Marks, shown
<1>4. replies' \in Seq(Answers')
  BY <1>3, SeqMonotonic DEF Mirrored
<1>5. Commits' = Commits
  BY DEF Commits
<1> QED  BY <1>2, <1>3, <1>4, <1>5 DEF Mirrored

\* The bounds on the counters stay where they are, and the saved marks.
LEMMA BoundKept ==
    ASSUME Mirrored, used'.connects = used.connects
    PROVE  /\ marks' = marks => Remarks
           /\ commit' = commit => (commit' = "localFirst" => used'.connects = MaxConnects)
BY DEF Mirrored, Remarks

\* The page shows another document.
LEMMA ShownKept ==
    ASSUME Mirrored, NEW d, Show(d)
    PROVE  canonical' = d /\ Remarks
BY DEF Mirrored, Show, Remarks, Marks

-----------------------------------------------------------------------------
(***************************************************************************)
(* The ends of an operation.                                               *)
(***************************************************************************)
LEMMA PollingFeeds ==
    ASSUME Mirrored, server = "active", NEW d \in Known
    PROVE  Polling(d) \in Feeds
<1>1. d.revision \in Nat /\ Len(log) \in Nat
  BY OfKnown, LenProperties DEF Mirrored
<1> QED  BY <1>1 DEF Polling, Feeds

LEMMA OtherFeeds ==
    Off \in Feeds /\ (server = "active" => Waiting \in Feeds /\ Queued \in Feeds)
BY DEF Off, Waiting, Queued, Feeds

\* An operation of the present connection: there is one.
LEMMA CurrentActive ==
    ASSUME Mirrored, queue # <<>>, Current(Op)
    PROVE  server = "active"
<1>1. Op \in Operations /\ generation \in Nat
  BY FirstOp DEF Mirrored
<1> QED  BY <1>1 DEF Operations, AnyOperation, Current, Newest

LEMMA ReadFailed ==
    ASSUME Mirrored, queue # <<>>, NEW inbox \in Seq(Answers), ReadFails(inbox),
           log' = log, used'.connects = used.connects
    PROVE  Mirrored'
<1>1. core' \in Known /\ replies' \in Seq(Answers)
  BY NotRequested DEF ReadFails
<1>2. queue' \in Seq(Operations)
  BY FirstOp DEF ReadFails
<1>3. feed' \in Feeds
  BY OtherFeeds, CurrentActive DEF ReadFails, Mirrored
<1>4. commit' = "localFirst" => used'.connects = MaxConnects
  BY DEF ReadFails, Mirrored
<1>5. UNCHANGED <<server, generation, canonical, installed>> /\ Remarks
  BY BoundKept DEF ReadFails, portVars, shown
<1> QED  BY <1>1, <1>2, <1>3, <1>4, <1>5, MirroredKept

LEMMA ChangeFailed ==
    ASSUME Mirrored, queue # <<>>, NEW inbox \in Seq(Answers), ChangeFails(inbox),
           log' = log, used'.connects = used.connects
    PROVE  Mirrored'
<1>1. core' \in Known /\ replies' \in Seq(Answers)
  BY NotRequested DEF ChangeFails
<1>2. queue' \in Seq(Operations)
  BY FirstOp DEF ChangeFails
<1>3. feed' \in Feeds
  BY DEF ChangeFails, Mirrored
<1>4. commit' = "localFirst" => used'.connects = MaxConnects
  BY DEF ChangeFails
<1>5. UNCHANGED <<server, generation, canonical, installed>> /\ Remarks
  BY ShownKept DEF ChangeFails, portVars
<1> QED  BY <1>1, <1>2, <1>3, <1>4, <1>5, MirroredKept

\* A new operation is one of the port's, a new change once the page shows what
\* it is made from.
LEMMA ReadsAreOperations ==
    ASSUME Mirrored, NEW by \in {"first", "again", "feed", "reset", "page"}
    PROVE  /\ server = "active" => ReadBy(by) \in Operations
           /\ [ReadBy(by) EXCEPT !.generation = generation + 1] \in AnyOperation
           /\ ReadBy(by).task = "read" /\ ReadBy(by).by = by /\ ReadBy(by).at = "start"
<1>1. Len(log) \in Nat /\ generation \in Nat
  BY LenProperties DEF Mirrored
<1>2. NoDocument \in OrNone
  BY DEF OrNone
<1>3. PICK op : op = ReadBy(by)
  OBVIOUS
<1>4. op = [task |-> "read", by |-> by, at |-> "start", generation |-> generation,
            document |-> NoDocument, since |-> 0, from |-> 1, upto |-> 0, reset |-> FALSE]
  BY <1>3, Zenon DEF ReadBy, Operation
<1>5. op \in AnyOperation
  BY <1>1, <1>2, <1>4 DEF AnyOperation
<1>6. [op EXCEPT !.generation = generation + 1] \in AnyOperation
  BY <1>1, <1>5 DEF AnyOperation
<1>7. ASSUME server = "active"
      PROVE  op \in Operations
  BY <1>1, <1>4, <1>5, <1>7 DEF Operations, Newest
<1>8. op.task = "read" /\ op.by = by /\ op.at = "start"
  BY <1>4
<1> QED  BY <1>3, <1>6, <1>7, <1>8

LEMMA ChangesAreOperations ==
    ASSUME Mirrored, NEW d \in Known, UNCHANGED <<log, server, generation>>,
           used'.connects = used.connects, server = "active", canonical' \in Known
    PROVE  ChangeOf(d) \in Operations'
<1>1. Len(log) \in Nat /\ generation \in Nat
  BY LenProperties DEF Mirrored
<1>2. Known' = Known /\ OrNone' = OrNone /\ Newest' = generation
  BY SameServer DEF Newest
<1>3. PICK op : op = ChangeOf(d)
  OBVIOUS
<1>4. op = [task |-> "change", by |-> "commit", at |-> "start", generation |-> generation,
            document |-> d, since |-> 0, from |-> 1, upto |-> 0, reset |-> FALSE]
  BY <1>3 DEF ChangeOf, Operation
<1>5. d \in Known' /\ d \in OrNone'
  BY <1>2 DEF OrNone
<1>6. op \in Operations'
  BY <1>1, <1>2, <1>4, <1>5 DEF Operations, AnyOperation
<1> QED  BY <1>3, <1>6

\* What a return finds saved, it finds once the page left for good.
LEMMA Returned ==
    ASSUME ~OwnEarly, Mirrored, NEW d \in Known, NEW inbox \in Seq(Answers),
           ResetReturns(d, inbox), UNCHANGED <<log, server, generation>>,
           used'.connects = used.connects
    PROVE  canonical' = d /\ core' \in Known /\ replies' \in Seq(Answers') /\ Remarks
<1>1. PICK saved \in BOOLEAN :
        /\ marks.saved => saved
        /\ saved => marks.saved \/ MayBeOwn
        /\ marks' = [saved |-> saved, applied |-> saved /\ server = "none"]
        /\ IF saved THEN Request(inbox, "dump", Read) ELSE NoRequest(inbox)
  BY DEF ResetReturns
<1>2. canonical' = d /\ marks' \in Marks /\ marks'.saved = saved
  BY <1>1 DEF ResetReturns, Marks
<1>3. Remarks
  BY <1>1, <1>2 DEF Remarks, MayBeOwn, Left
<1>4. inbox \in Seq(Answers')
  BY <1>1, <1>2, SameServer, SeqMonotonic
<1>5. CASE ~saved
  BY <1>1, <1>2, <1>3, <1>4, <1>5 DEF NoRequest, Mirrored
<1>6. CASE saved
  <2>1. PICK m : m = [to |-> "dump", ok |-> TRUE, document |-> core]
    OBVIOUS
  <2>2. core' = core /\ replies' = Append(inbox, m)
    BY <1>1, <1>6, <2>1 DEF Request, Read
  <2>3. m \in Answers'
    BY <1>2, <1>6, <2>1, SameServer DEF Answers, Recipients, Mirrored
  <2> QED  BY <1>2, <1>3, <1>4, <2>2, <2>3, AppendProperties DEF Mirrored
<1> QED  BY <1>5, <1>6

LEMMA ReadReturned ==
    ASSUME ~OwnEarly, Mirrored, queue # <<>>, NEW inbox \in Seq(Answers), NEW d \in Known,
           Current(Op), ReadReturns(d, inbox), log' = log, used'.connects = used.connects
    PROVE  Mirrored'
<1>1. /\ installed' \in Known /\ server = "active" /\ UNCHANGED <<server, generation>>
  BY CurrentActive DEF ReadReturns
<1>2. /\ core' \in Known
      /\ replies' \in Seq(Answers) \/ replies' \in Seq(Answers')
      /\ canonical' \in Known /\ Remarks
  <2>1. CASE ResetReturns(d, inbox)
    BY <1>1, <2>1, Returned
  <2>2. CASE Show(d) /\ NoRequest(inbox)
    BY <2>2, NotRequested, ShownKept
  <2> QED  BY <2>1, <2>2 DEF ReadReturns
<1>3. queue' \in Seq(Operations')
  <2>1. Tail(queue) \in Seq(Operations')
    BY <1>1, <1>2, FirstOp, OperationsKept, SameServer, NewestInt
  <2>2. <<ChangeOf(d)>> \in Seq(Operations') /\ <<>> \in Seq(Operations')
    BY <1>1, <1>2, ChangesAreOperations
  <2>3. PICK next \in Seq(Operations') : queue' = Tail(queue) \o next
    BY <2>2, Zenon DEF ReadReturns
  <2> QED  BY <2>1, <2>3, ConcatProperties
<1>4. feed' \in Feeds
  BY <1>1, PollingFeeds DEF ReadReturns, Mirrored
<1>5. commit' = "localFirst" => used'.connects = MaxConnects
  BY DEF ReadReturns, Mirrored
<1> QED  BY <1>1, <1>2, <1>3, <1>4, <1>5, MirroredKept

LEMMA Fetched ==
    ASSUME Mirrored, queue # <<>>, NEW inbox \in Seq(Answers), Fetch(inbox),
           log' = log, used'.connects = used.connects
    PROVE  Mirrored'
<1>1. CASE ~Current(Op)
  BY <1>1, ReadFailed DEF Fetch
<1>2. CASE Current(Op)
  <2>1. core' \in Known /\ replies' \in Seq(Answers)
    BY <1>2, NotRequested DEF Fetch
  <2>2. [Op EXCEPT !.at = "fetching", !.since = Len(log)] \in Operations
    <3>1. Op \in Operations /\ Len(log) \in Nat
      BY FirstOp, LenProperties DEF Mirrored
    <3> QED  BY <3>1 DEF Operations, AnyOperation
  <2>3. queue' \in Seq(Operations)
    BY <1>2, <2>2, Moved DEF Fetch
  <2>4. /\ UNCHANGED <<server, generation, installed, canonical, marks, commit>>
        /\ feed' \in Feeds
    BY <1>2 DEF Fetch, portVars, shown, Mirrored
  <2> QED  BY <2>1, <2>3, <2>4, MirroredKept, BoundKept
<1> QED  BY <1>1, <1>2

-----------------------------------------------------------------------------
(***************************************************************************)
(* Reading and changing the document, connected or not.                    *)
(***************************************************************************)
LEMMA WorkerRead ==
    ASSUME Mirrored
    PROVE  Read.ok \in BOOLEAN /\ Read.document \in Known
BY DEF Mirrored, Read

LEMMA WorkerReplaced ==
    ASSUME NEW d \in Known
    PROVE  Replace(d).ok \in BOOLEAN /\ Replace(d).document \in Known
BY DEF Replace

LEMMA AnalysisRead ==
    ASSUME Mirrored, NEW inbox \in Seq(Answers), NEW others \in Seq(Operations),
           NEW to \in Recipients,
           NEW by \in {"first", "again", "feed", "reset", "page"},
           ReadAnalysis(inbox, others, to, by)
    PROVE  core' \in Known /\ replies' \in Seq(Answers) /\ queue' \in Seq(Operations)
<1>1. core' \in Known /\ replies' \in Seq(Answers)
  BY Requested, NotRequested, WorkerRead DEF ReadAnalysis
<1>2. server = "active" => Append(others, ReadBy(by)) \in Seq(Operations)
  BY ReadsAreOperations, AppendProperties
<1>3. queue' \in Seq(Operations)
  BY <1>2 DEF ReadAnalysis
<1> QED  BY <1>1, <1>3

LEMMA Conflicted ==
    ASSUME Mirrored, NEW inbox \in Seq(Answers), NEW others \in Seq(Operations),
           Conflict(inbox, others),
           UNCHANGED <<log, portVars, shown, feed, used>>
    PROVE  Mirrored'
<1>1. core' \in Known /\ replies' \in Seq(Answers) /\ queue' \in Seq(Operations)
  BY AnalysisRead DEF Conflict, Recipients
<1>2. commit' # "localFirst"
  BY DEF Conflict, Reading
<1>3. /\ UNCHANGED <<server, generation, installed, canonical, marks>>
      /\ feed' \in Feeds
  BY DEF portVars, shown, Mirrored
<1> QED  BY <1>1, <1>2, <1>3, MirroredKept, BoundKept

\* A connected page's change goes to the port.
LEMMA ChangeAsked ==
    ASSUME Mirrored, server # "none" \/ Left, NEW d \in Known,
           NEW inbox \in Seq(Answers), ChangeAnalysis(d, inbox),
           UNCHANGED <<log, server, generation>>, used'.connects = used.connects,
           canonical' \in Known
    PROVE  /\ core' \in Known /\ replies' \in Seq(Answers)
           /\ queue' \in Seq(Operations')
           /\ commit' # "localFirst"
<1>1. core' \in Known /\ replies' \in Seq(Answers)
  BY NotRequested, OwnChangeAnswered, Requested DEF ChangeAnalysis, Recipients
<1>2. /\ queue \in Seq(Operations')
      /\ server = "active" => ChangeOf(d) \in Operations'
  BY OperationsKept, SameServer, NewestInt, ChangesAreOperations DEF Mirrored
<1>3. server = "active" => Append(queue, ChangeOf(d)) \in Seq(Operations')
  BY <1>2, AppendProperties
<1>4. queue' \in Seq(Operations')
  BY <1>2, <1>3 DEF ChangeAnalysis
<1>5. commit' # "localFirst"
  BY DEF ChangeAnalysis, Reading
<1> QED  BY <1>1, <1>4, <1>5

(***************************************************************************)
(* The changes of an answer are the log's, each made from the document the *)
(* port has.                                                               *)
(***************************************************************************)
LEMMA Applied ==
    ASSUME Mirrored, queue # <<>>, NEW d \in OrNone, NEW inbox \in Seq(Answers),
           Apply(d, inbox)
    PROVE  /\ core' \in Known /\ replies' \in Seq(Answers)
           /\ queue' \in Seq(Operations) /\ feed' \in Feeds
<1>1. Op \in Operations /\ Tail(queue) \in Seq(Operations) /\ Len(log) \in Nat
  BY FirstOp, LenProperties DEF Mirrored
<1>2. d # NoDocument => d \in Known
  BY DEF OrNone
<1>3. feed \in Feeds
  BY DEF Mirrored
<1>4. CASE d = NoDocument \/ FirstNew(d) > Op.upto
  <2>1. NoRequest(inbox) /\ queue' = Tail(queue)
        /\ feed' = IF Current(Op) /\ d # NoDocument THEN Polling(d) ELSE feed
    BY <1>4, Zenon DEF Apply
  <2>2. feed' \in Feeds
    BY <2>1, <1>2, <1>3, PollingFeeds, CurrentActive
  <2> QED  BY <2>1, <2>2, <1>1, NotRequested
<1>5. CASE ~(d = NoDocument \/ FirstNew(d) > Op.upto) /\ FirstNew(d) = d.revision + 1
  <2>1. /\ Request(inbox, "port", Change(d.revision, log[d.revision + 1]))
        /\ Move([Op EXCEPT !.at = "applying", !.from = d.revision + 1 + 1])
        /\ UNCHANGED feed
    BY <1>5 DEF Apply
  <2>2. d \in Known /\ d.revision \in Nat
    BY <1>2, <1>5, OfKnown DEF Mirrored
  <2>3. Op.upto \in 0..Len(log)
    BY <1>1 DEF Operations, AnyOperation
  <2>4. d.revision + 1 <= Len(log)
    <3>1. ~(d.revision + 1 > Op.upto)
      BY <1>5
    <3> QED  BY <1>1, <2>2, <2>3, <3>1
  <2>5. core' \in Known /\ replies' \in Seq(Answers)
    BY <2>1, <2>2, <2>4, Requested, ChangeAnswered DEF Recipients
  <2>6. [Op EXCEPT !.at = "applying", !.from = d.revision + 1 + 1] \in Operations
    <3>1. \A op \in Operations, n \in Nat : n >= 2 =>
             [op EXCEPT !.at = "applying", !.from = n] \in Operations
      BY DEF Operations, AnyOperation
    <3>2. d.revision + 1 + 1 \in Nat /\ d.revision + 1 + 1 >= 2
      BY <2>2
    <3> QED  BY <1>1, <3>1, <3>2, Zenon
  <2> QED  BY <2>1, <2>5, <2>6, <1>3, Moved
<1>6. CASE ~(d = NoDocument \/ FirstNew(d) > Op.upto) /\ FirstNew(d) # d.revision + 1
  <2>1. /\ NoRequest(inbox) /\ UNCHANGED feed
        /\ \/ Move([Op EXCEPT !.at = "fetching", !.since = Len(log)])
           \/ queue' = Tail(queue)
    BY <1>6, Zenon DEF Apply
  <2>2. [Op EXCEPT !.at = "fetching", !.since = Len(log)] \in Operations
    BY <1>1 DEF Operations, AnyOperation
  <2>3. queue' \in Seq(Operations)
    BY <1>1, <2>1, <2>2, Moved
  <2> QED  BY <2>1, <2>3, <1>3, NotRequested
<1> QED  BY <1>4, <1>5, <1>6

-----------------------------------------------------------------------------
(***************************************************************************)
(* The steps of the port's operations.                                     *)
(***************************************************************************)
LEMMA PortReply ==
    ASSUME Mirrored, Answered("port")
    PROVE  Reply \in Answers /\ Reply.document \in Known /\ Rest \in Seq(Answers)
BY FirstReply DEF Answered, Answers

\* An operation goes on to another stage.
LEMMA OperationMoves ==
    ASSUME NEW op \in Operations
    PROVE  /\ \A at \in {"restoring", "posting", "refused", "applying", "reading"} :
                 (at \in {"applying", "reading"} =>
                    op.task = "change" \/ op.at = "applying")
                 => [op EXCEPT !.at = at] \in Operations
           /\ \A d \in Known : op.task # "change" =>
                 [op EXCEPT !.at = "replacing", !.document = d] \in Operations
<1>1. \A at \in {"restoring", "posting", "refused"} : [op EXCEPT !.at = at] \in Operations
  BY DEF Operations, AnyOperation
<1>2. ASSUME NEW at \in {"applying", "reading"}, op.task = "change" \/ op.at = "applying"
      PROVE  [op EXCEPT !.at = at] \in Operations
  BY <1>2 DEF Operations, AnyOperation
<1>3. ASSUME NEW d \in Known, op.task # "change"
      PROVE  [op EXCEPT !.at = "replacing", !.document = d] \in Operations
  BY <1>3 DEF Operations, AnyOperation, OrNone
<1> QED  BY <1>1, <1>2, <1>3

LEMMA ServeReadMirrored ==
    ASSUME ~OwnEarly, Mirrored, ServeRead
    PROVE  Mirrored'
<1>1. replies \in Seq(Answers)
  BY DEF Mirrored
<1>2. CASE StartRead
  BY <1>1, <1>2, Fetched DEF StartRead, Running
<1>3. CASE SnapshotArrives
  <2>1. /\ queue # <<>> /\ Op.task \in {"read", "deltas"}
        /\ UNCHANGED <<log, link, used>>
    BY <1>3 DEF SnapshotArrives, Running
  <2>2. Op \in Operations /\ Op.since \in Nat
    BY <2>1, FirstOp DEF Operations, AnyOperation
  <2>3. PICK r \in Op.since..Len(log) :
          IF Current(Op)
          THEN /\ Request(replies, "port", Replace(Committed(r)))
               /\ Move([Op EXCEPT !.at = "replacing", !.document = Committed(r)])
               /\ UNCHANGED <<portVars, shown, feed, commit>>
          ELSE ReadFails(replies)
    BY <1>3, Zenon DEF SnapshotArrives
  <2>4. Len(log) \in Nat
    BY LenProperties DEF Mirrored
  <2>5. r \in 0..Len(log)
    BY <2>2, <2>4
  <2>6. CASE ~Current(Op)
    BY <1>1, <2>1, <2>3, <2>6, ReadFailed
  <2>7. CASE Current(Op)
    <3>1. Committed(r) \in Known
      BY <2>5, CommittedDocument, CommittedsAreDocuments DEF Mirrored
    <3>2. core' \in Known /\ replies' \in Seq(Answers)
      BY <1>1, <2>3, <2>7, <3>1, Requested, WorkerReplaced DEF Recipients
    <3>3. queue' \in Seq(Operations)
      <4>1. [Op EXCEPT !.at = "replacing", !.document = Committed(r)] \in Operations
        BY <2>1, <2>2, <3>1, OperationMoves
      <4> QED  BY <2>1, <2>3, <2>7, <4>1, Moved
    <3>4. /\ UNCHANGED <<server, generation, installed, canonical, marks, commit>>
          /\ feed' \in Feeds
      BY <2>3, <2>7 DEF portVars, shown, Mirrored
    <3> QED  BY <2>1, <3>2, <3>3, <3>4, MirroredKept, BoundKept
  <2> QED  BY <2>6, <2>7
<1>4. CASE SnapshotInstalled
  <2>1. /\ queue # <<>> /\ Op.at = "replacing" /\ UNCHANGED <<log, link, used>>
        /\ Rest \in Seq(Answers)
        /\ IF Current(Op) THEN ReadReturns(Op.document, Rest) ELSE ReadFails(Rest)
    BY <1>4, PortReply DEF SnapshotInstalled, Running
  <2>2. Op.document \in Known
    BY <2>1, FirstOp DEF Operations
  <2> QED  BY <2>1, <2>2, ReadReturned, ReadFailed
<1> QED  BY <1>2, <1>3, <1>4 DEF ServeRead

\* A change of the page's own that the server takes is the log's next.
LEMMA ServerAnswersMirrored ==
    ASSUME Mirrored, ServerAnswers
    PROVE  Mirrored'
<1>1. /\ queue # <<>> /\ Op \in Operations
      /\ UNCHANGED <<portVars, shown, core, replies, feed, pageVars, used>>
  BY FirstOp DEF ServerAnswers, Running
<1>2. log \in Seq(Commits) /\ Len(log) \in Nat /\ replies \in Seq(Answers)
  BY LenProperties DEF Mirrored
<1>3. CASE ~Accepts(Op.document.revision)
  <2>1. Move([Op EXCEPT !.at = "refused"]) /\ log' = log
    BY <1>3 DEF ServerAnswers
  <2>2. queue' \in Seq(Operations)
    BY <1>1, <2>1, OperationMoves, Moved
  <2>3. /\ UNCHANGED <<server, generation, installed, canonical, marks, commit>>
        /\ core' \in Known /\ feed' \in Feeds
    BY <1>1 DEF portVars, shown, pageVars, Mirrored
  <2> QED  BY <1>1, <1>2, <2>1, <2>2, <2>3, MirroredKept, BoundKept
<1>4. CASE Accepts(Op.document.revision)
  <2>1. /\ log' = Append(log, [by |-> "page", at |-> Len(log) + 1])
        /\ Move([Op EXCEPT !.at = "committed", !.upto = Len(log) + 1])
    BY <1>4 DEF ServerAnswers
  <2>2. [by |-> "page", at |-> Len(log) + 1] \in Commits
    BY <1>2 DEF Commits
  <2>3. /\ log' \in Seq(Commits) /\ Len(log') = Len(log) + 1
        /\ Committeds \subseteq Committeds'
    BY <1>2, <2>1, <2>2, CommittedsGrow
  <2>4. Operations \subseteq Operations'
    BY <1>1, <1>2, <2>3, Grown DEF portVars, shown
  <2>5. [Op EXCEPT !.at = "committed", !.upto = Len(log) + 1] \in Operations'
    <3>1. Len(log) + 1 \in 0..Len(log')
      BY <1>2, <2>3
    <3>2. Op \in Operations'
      BY <1>1, <2>4
    <3> QED  BY <3>1, <3>2 DEF Operations, AnyOperation
  <2>6. queue' \in Seq(Operations')
    <3>1. Tail(queue) \in Seq(Operations')
      BY <1>1, <2>4, FirstOp, SeqMonotonic
    <3>2. PICK op \in Operations' : queue' = <<op>> \o Tail(queue)
      BY <2>1, <2>5, Zenon DEF Move
    <3>3. <<op>> \in Seq(Operations')
      BY <3>2
    <3> QED  BY <3>1, <3>2, <3>3, ConcatProperties
  <2> QED  BY <1>1, <2>3, <2>6, MirroredGrown
<1> QED  BY <1>3, <1>4

LEMMA ServeChangeMirrored ==
    ASSUME Mirrored, ServeChange
    PROVE  Mirrored'
<1>1. replies \in Seq(Answers) /\ log \in Seq(Commits) /\ Len(log) \in Nat
      /\ generation \in Nat /\ feed \in Feeds
  BY LenProperties DEF Mirrored
<1>2. CASE StartChange
  <2>1. /\ queue # <<>> /\ Op.task = "change" /\ UNCHANGED <<log, link, used>>
        /\ IF Current(Op)
           THEN /\ Request(replies, "port", Replace(Op.document))
                /\ Move([Op EXCEPT !.at = "restoring"])
                /\ UNCHANGED <<portVars, shown, feed, commit>>
           ELSE ChangeFails(replies)
    BY <1>2 DEF StartChange, Running
  <2>2. CASE ~Current(Op)
    BY <1>1, <2>1, <2>2, ChangeFailed
  <2>3. CASE Current(Op)
    <3>1. Op \in Operations /\ Op.document \in Known
      BY <2>1, FirstOp DEF Operations
    <3>2. core' \in Known /\ replies' \in Seq(Answers)
      BY <1>1, <2>1, <2>3, <3>1, Requested, WorkerReplaced DEF Recipients
    <3>3. queue' \in Seq(Operations)
      BY <2>1, <2>3, <3>1, OperationMoves, Moved
    <3>4. UNCHANGED <<server, generation, installed, canonical, feed, marks, commit>>
      BY <2>1, <2>3 DEF portVars, shown
    <3> QED  BY <1>1, <2>1, <3>2, <3>3, <3>4, MirroredKept, BoundKept
  <2> QED  BY <2>2, <2>3
<1>3. CASE DocumentRestored
  <2>1. /\ queue # <<>> /\ Op.task = "change" /\ Rest \in Seq(Answers)
        /\ installed' = Op.document
        /\ Move([Op EXCEPT !.at = "posting"])
        /\ NoRequest(Rest)
        /\ UNCHANGED <<log, server, generation, shown, feed, pageVars, used>>
    BY <1>3, PortReply DEF DocumentRestored, Running
  <2>2. Op \in Operations /\ Op.document \in Known /\ canonical \in Known
    BY <2>1, FirstOp DEF Operations
  <2>3. queue' \in Seq(Operations)
    BY <2>1, <2>2, OperationMoves, Moved
  <2>4. UNCHANGED <<canonical, marks, commit>>
    BY <2>1 DEF pageVars, shown
  <2>5. core' \in Known /\ replies' \in Seq(Answers)
    BY <2>1, NotRequested
  <2> QED  BY <1>1, <2>1, <2>2, <2>3, <2>4, <2>5, MirroredKept, BoundKept
<1>4. CASE ServerAnswers
  BY <1>4, ServerAnswersMirrored
<1>5. CASE Refused
  <2>1. /\ queue # <<>> /\ Conflict(replies, Tail(queue))
        /\ UNCHANGED <<log, portVars, shown, feed, link, used>>
    BY <1>5 DEF Refused, Running
  <2> QED  BY <1>1, <2>1, FirstOp, Conflicted
<1>6. CASE ChangeCommitted
  <2>1. /\ queue # <<>> /\ Op.task = "change" /\ UNCHANGED <<log, link, used>>
        /\ IF Current(Op) /\ Op.upto = Op.document.revision + 1
           THEN /\ Request(replies, "port", Change(Op.document.revision, log[Op.upto]))
                /\ Move([Op EXCEPT !.at = "applying"])
                /\ UNCHANGED <<portVars, shown, feed, commit>>
           ELSE ChangeFails(replies)
    BY <1>6 DEF ChangeCommitted, Running
  <2>2. CASE ~(Current(Op) /\ Op.upto = Op.document.revision + 1)
    BY <1>1, <2>1, <2>2, ChangeFailed
  <2>3. CASE Current(Op) /\ Op.upto = Op.document.revision + 1
    <3>1. Op \in Operations /\ Op.document \in Known /\ Op.upto \in 0..Len(log)
      BY <2>1, FirstOp DEF Operations, AnyOperation
    <3>2. PICK d \in Known : d = Op.document
      BY <3>1
    <3>3. /\ Request(replies, "port", Change(d.revision, log[d.revision + 1]))
          /\ Move([Op EXCEPT !.at = "applying"])
          /\ UNCHANGED <<server, generation, installed, canonical, feed, commit, marks>>
      BY <2>1, <2>3, <3>2 DEF portVars, shown
    <3>4. d.revision + 1 <= Len(log)
      BY <1>1, <2>3, <3>1, <3>2
    <3>5. core' \in Known /\ replies' \in Seq(Answers)
      BY <1>1, <3>3, <3>4, ChangeAnswered, Requested DEF Recipients
    <3>6. queue' \in Seq(Operations)
      BY <2>1, <3>1, <3>3, OperationMoves, Moved
    <3> QED  BY <1>1, <2>1, <3>3, <3>5, <3>6, MirroredKept, BoundKept
  <2> QED  BY <2>2, <2>3
<1>7. CASE ChangeApplied
  <2>1. /\ queue # <<>> /\ Op.task = "change" /\ UNCHANGED <<log, link, used>> /\ Rest \in Seq(Answers)
        /\ \/ /\ Request(Rest, "port", Read)
              /\ Move([Op EXCEPT !.at = "reading"])
              /\ UNCHANGED <<portVars, shown, feed, commit>>
           \/ ChangeFails(Rest)
    BY <1>7, PortReply DEF ChangeApplied, Running
  <2>2. CASE ChangeFails(Rest)
    BY <2>1, <2>2, ChangeFailed
  <2>3. CASE /\ Request(Rest, "port", Read)
             /\ Move([Op EXCEPT !.at = "reading"])
             /\ UNCHANGED <<portVars, shown, feed, commit>>
    <3>1. core' \in Known /\ replies' \in Seq(Answers)
      BY <2>1, <2>3, WorkerRead, Requested DEF Recipients
    <3>2. queue' \in Seq(Operations)
      BY <2>1, <2>3, FirstOp, OperationMoves, Moved
    <3>3. UNCHANGED <<server, generation, installed, canonical, feed, marks, commit>>
      BY <2>3 DEF portVars, shown
    <3> QED  BY <1>1, <2>1, <3>1, <3>2, <3>3, MirroredKept, BoundKept
  <2> QED  BY <2>1, <2>2, <2>3
<1>8. CASE ChangeReturns
  <2>1. /\ queue # <<>> /\ Rest \in Seq(Answers) /\ Reply.document \in Known
        /\ installed' = Reply.document /\ canonical' = Reply.document /\ Remarks
        /\ queue' = Tail(queue) /\ commit' = "idle" /\ NoRequest(Rest)
        /\ UNCHANGED <<log, server, generation, feed, link, used>>
    BY <1>8, PortReply, ShownKept DEF ChangeReturns, Running
  <2>2. core' \in Known /\ replies' \in Seq(Answers) /\ queue' \in Seq(Operations)
    BY <2>1, NotRequested, FirstOp
  <2> QED  BY <1>1, <2>1, <2>2, MirroredKept
<1> QED
  BY <1>2, <1>3, <1>4, <1>5, <1>6, <1>7, <1>8 DEF ServeChange

LEMMA ServeDeltasMirrored ==
    ASSUME Mirrored, ServeDeltas
    PROVE  Mirrored'
<1>1. replies \in Seq(Answers) /\ generation \in Nat /\ feed \in Feeds
  BY DEF Mirrored
<1>2. CASE StartDeltas
  <2>1. queue # <<>> /\ UNCHANGED <<log, link, used>>
    BY <1>2 DEF StartDeltas, Running
  <2>2. CASE ~Current(Op)
    <3>1. /\ NoRequest(replies) /\ queue' = Tail(queue)
          /\ UNCHANGED <<server, generation, installed, canonical, feed, commit, marks>>
      BY <1>2, <2>2 DEF StartDeltas, portVars, shown
    <3>2. core' \in Known /\ replies' \in Seq(Answers) /\ queue' \in Seq(Operations)
      BY <1>1, <2>1, <3>1, NotRequested, FirstOp
    <3> QED  BY <1>1, <2>1, <3>1, <3>2, MirroredKept, BoundKept
  <2>3. CASE Current(Op) /\ Op.reset
    BY <1>1, <1>2, <2>1, <2>3, Fetched DEF StartDeltas
  <2>4. CASE Current(Op) /\ ~Op.reset
    <3>1. /\ Apply(installed, replies)
          /\ UNCHANGED <<server, generation, installed, canonical, commit, marks>>
      BY <1>2, <2>4 DEF StartDeltas, portVars, shown
    <3>2. installed \in OrNone
      BY DEF Mirrored
    <3>3. /\ core' \in Known /\ replies' \in Seq(Answers)
          /\ queue' \in Seq(Operations) /\ feed' \in Feeds
      BY <1>1, <2>1, <3>1, <3>2, Applied
    <3> QED  BY <1>1, <2>1, <3>1, <3>3, MirroredKept, BoundKept
  <2> QED  BY <2>2, <2>3, <2>4
<1>3. CASE DeltaApplied
  <2>1. /\ queue # <<>> /\ Op.at = "applying" /\ UNCHANGED <<log, link, used>> /\ Rest \in Seq(Answers)
        /\ \/ /\ Request(Rest, "port", Read)
              /\ Move([Op EXCEPT !.at = "reading"])
              /\ UNCHANGED <<portVars, shown, feed, commit>>
           \/ Fetch(Rest)
    BY <1>3, PortReply DEF DeltaApplied, Running
  <2>2. CASE Fetch(Rest)
    BY <2>1, <2>2, Fetched
  <2>3. CASE /\ Request(Rest, "port", Read)
             /\ Move([Op EXCEPT !.at = "reading"])
             /\ UNCHANGED <<portVars, shown, feed, commit>>
    <3>1. core' \in Known /\ replies' \in Seq(Answers)
      BY <2>1, <2>3, WorkerRead, Requested DEF Recipients
    <3>2. queue' \in Seq(Operations)
      BY <2>1, <2>3, FirstOp, OperationMoves, Moved
    <3>3. UNCHANGED <<server, generation, installed, canonical, feed, marks, commit>>
      BY <2>3 DEF portVars, shown
    <3> QED  BY <1>1, <2>1, <3>1, <3>2, <3>3, MirroredKept, BoundKept
  <2> QED  BY <2>1, <2>2, <2>3
<1>4. CASE DeltaInstalled
  <2>1. /\ queue # <<>> /\ Rest \in Seq(Answers) /\ Reply.document \in Known
        /\ installed' = Reply.document /\ canonical' = Reply.document /\ Remarks
        /\ Apply(Reply.document, Rest)
        /\ UNCHANGED <<log, server, generation, commit, used>>
    BY <1>4, PortReply, ShownKept DEF DeltaInstalled, Running, pageVars
  <2>2. Reply.document \in OrNone
    BY <2>1 DEF OrNone
  <2>3. /\ core' \in Known /\ replies' \in Seq(Answers)
        /\ queue' \in Seq(Operations) /\ feed' \in Feeds
    BY <2>1, <2>2, Applied
  <2> QED  BY <1>1, <2>1, <2>3, MirroredKept, BoundKept
<1> QED  BY <1>2, <1>3, <1>4 DEF ServeDeltas

-----------------------------------------------------------------------------
(***************************************************************************)
(* The feed, and what is lost.                                             *)
(***************************************************************************)
LEMMA FeedActive ==
    ASSUME Mirrored, feed.at # "off"
    PROVE  server = "active" /\ feed.after \in Nat /\ feed.since \in Nat
BY DEF Mirrored, Feeds, Off

LEMMA FollowMirrored ==
    ASSUME Mirrored, Follow
    PROVE  Mirrored'
<1>1. /\ replies \in Seq(Answers) /\ queue \in Seq(Operations) /\ generation \in Nat
      /\ feed \in Feeds /\ Len(log) \in Nat /\ core \in Known
  BY LenProperties DEF Mirrored
<1>2. CASE PollAnswers
  <2> server = "active" /\ feed.after \in Nat /\ feed.since \in Nat
    BY <1>2, FeedActive DEF PollAnswers
  <2>1. PICK r \in feed.since..Len(log) :
          queue' = Append(queue,
                       [Operation("deltas", "feed") EXCEPT
                            !.from = feed.after + 1, !.upto = r,
                            !.reset = feed.after > r \/ feed.after + Retained < r])
    BY <1>2, Zenon DEF PollAnswers
  <2>2. PICK b \in BOOLEAN : b = (feed.after > r \/ feed.after + Retained < r)
    OBVIOUS
  <2>3. PICK op : op = [Operation("deltas", "feed") EXCEPT
                            !.from = feed.after + 1, !.upto = r, !.reset = b]
    OBVIOUS
  <2>4. queue' = Append(queue, op)
    BY <2>1, <2>2, <2>3, Zenon
  <2>5. op \in Operations
    <3>1. r \in 0..Len(log) /\ feed.after + 1 \in Nat
      BY <1>1
    <3>2. op = [task |-> "deltas", by |-> "feed", at |-> "start",
                generation |-> generation, document |-> NoDocument, since |-> 0,
                from |-> feed.after + 1, upto |-> r, reset |-> b]
      BY <2>3 DEF Operation
    <3>3. NoDocument \in OrNone
      BY DEF OrNone
    <3> QED  BY <1>1, <3>1, <3>2, <3>3 DEF Operations, AnyOperation, Newest
  <2>6. queue' \in Seq(Operations)
    BY <1>1, <2>4, <2>5, AppendProperties
  <2>7. /\ feed' \in Feeds
        /\ UNCHANGED <<log, server, generation, installed, canonical, core, replies, commit,
                       marks, used>>
    BY <1>2, OtherFeeds DEF PollAnswers, portVars, shown, pageVars
  <2> QED  BY <1>1, <2>6, <2>7, MirroredKept, BoundKept
<1>3. CASE Retry
  <2>1. UNCHANGED <<log, server, generation, installed, canonical, core, replies, queue, commit,
                    marks, used>>
    BY <1>3 DEF Retry, portVars, shown, pageVars
  <2>2. feed' \in Feeds
    <3>1. installed # NoDocument => installed \in Known
      BY DEF Mirrored, OrNone
    <3> QED  BY <1>3, <3>1, OtherFeeds, PollingFeeds, FeedActive DEF Retry
  <2> QED  BY <1>1, <2>1, <2>2, MirroredKept, BoundKept
<1> QED  BY <1>2, <1>3 DEF Follow

LEMMA LossMirrored ==
    ASSUME Mirrored, used'.connects = used.connects,
           SnapshotFails \/ PostFails \/ PollFails
    PROVE  Mirrored'
<1>1. /\ replies \in Seq(Answers) /\ queue \in Seq(Operations) /\ generation \in Nat
      /\ core \in Known
  BY DEF Mirrored
<1>2. CASE SnapshotFails
  BY <1>1, <1>2, ReadFailed DEF SnapshotFails, Running
<1>3. CASE PostFails
  BY <1>1, <1>3, ChangeFailed DEF PostFails, Running
<1>4. CASE PollFails
  <2>1. /\ UNCHANGED <<log, server, generation, installed, canonical, core, replies, queue,
                       commit, marks>>
        /\ feed' \in Feeds
    BY <1>4, OtherFeeds, FeedActive DEF PollFails, portVars, shown, pageVars
  <2> QED  BY <1>1, <2>1, MirroredKept, BoundKept
<1> QED  BY <1>2, <1>3, <1>4

-----------------------------------------------------------------------------
(***************************************************************************)
(* What the page does with the worker's answers.                           *)
(***************************************************************************)
LEMMA SavedDocument == Saved \in Documents
<1>1. [by |-> "autosave", at |-> 0] \in AnyChange
  BY DEF AnyChange
<1>2. <<[by |-> "autosave", at |-> 0]>> \in Seq(AnyChange)
  BY <1>1
<1> QED  BY <1>2 DEF Saved, Documents

LEMMA LoadsAreOperations ==
    ASSUME Mirrored, UseServer("active"), UNCHANGED <<log, shown>>, Left => Left'
    PROVE  LoadFrom(queue) \in Seq(Operations')
<1>1. /\ Known \subseteq Known' /\ Newest' = generation + 1 /\ Newest' \in Int
      /\ Newest <= Newest' /\ OrNone \subseteq OrNone' /\ generation \in Nat
  BY Reconnected DEF Mirrored, shown
<1>2. queue \in Seq(Operations')
  BY <1>1, NewestInt, OperationsKept DEF Mirrored, shown
<1>3. PICK op \in AnyOperation :
        /\ op = [ReadBy("page") EXCEPT !.generation = generation + 1]
        /\ op.task = "read" /\ op.by = "page" /\ op.at = "start"
        /\ op.generation = generation + 1
  <2>1. PICK read : read = ReadBy("page")
    OBVIOUS
  <2>2. read = [task |-> "read", by |-> "page", at |-> "start", generation |-> generation,
                document |-> NoDocument, since |-> 0, from |-> 1, upto |-> 0,
                reset |-> FALSE]
    BY <2>1, Zenon DEF ReadBy, Operation
  <2>3. [read EXCEPT !.generation = generation + 1] \in AnyOperation
    BY <2>1, ReadsAreOperations
  <2> QED  BY <2>1, <2>2, <2>3
<1>4. op \in AnyOperation'
  BY <1>1 DEF AnyOperation
<1>5. op \in Operations'
  <2>1. op.generation <= Newest'
    BY <1>1, <1>3
  <2>2. op.task # "change" /\ op.by # "commit" /\ op.at # "replacing" /\ op.task # "deltas"
    BY <1>3
  <2> QED  BY <1>4, <2>1, <2>2 DEF Operations
<1>6. Append(queue, op) \in Seq(Operations')
  BY <1>2, <1>5, AppendProperties
<1> QED  BY <1>3, <1>6 DEF LoadFrom

\* Only a page that has left for good puts analysis of its own into the worker.
LEMMA ReceiveMirrored ==
    ASSUME ~OwnEarly, Linked, Mirrored, Receive, Left => Left'
    PROVE  Mirrored'
<1>1. /\ replies \in Seq(Answers) /\ queue \in Seq(Operations) /\ generation \in Nat
      /\ core \in Known /\ feed \in Feeds
  BY DEF Mirrored
<1>2. CASE LocalCommitReply
  <2>1. /\ Reply.document \in Known /\ Rest \in Seq(Answers)
        /\ UNCHANGED <<log, portVars, feed, link, used>>
    BY <1>2, FirstReply DEF LocalCommitReply, Answered, Answers
  <2>2. UNCHANGED <<server, generation, installed>>
    BY <2>1 DEF portVars, shown
  <2>3. CASE /\ commit = "localFirst" /\ Show(Reply.document)
             /\ ChangeAnalysis(Reply.document, Rest)
    <3>1. server # "none" \/ Left
      BY <2>3 DEF Mirrored, Left
    <3>2. canonical' \in Known /\ Remarks
      BY <2>1, <2>3, ShownKept
    <3>3. /\ core' \in Known /\ replies' \in Seq(Answers)
          /\ queue' \in Seq(Operations') /\ commit' # "localFirst"
      BY <2>1, <2>2, <2>3, <3>1, <3>2, ChangeAsked
    <3>4. feed' \in Feeds /\ log' = log /\ used' = used
      BY <1>1, <2>1
    <3> QED  BY <2>2, <3>2, <3>3, <3>4, MirroredKept
  <2>4. CASE /\ UNCHANGED shown
             /\ \/ Request(Rest, "commit", Read) /\ commit' = "localRead" /\ UNCHANGED queue
                \/ Conflict(Rest, queue)
    <3>1. CASE Conflict(Rest, queue)
      BY <1>1, <2>1, <2>4, <3>1, Conflicted
    <3>2. CASE Request(Rest, "commit", Read) /\ commit' = "localRead" /\ UNCHANGED queue
      <4>1. core' \in Known /\ replies' \in Seq(Answers)
        BY <2>1, <3>2, WorkerRead, Requested DEF Recipients
      <4>2. UNCHANGED <<canonical, marks>>
        BY <2>4 DEF shown
      <4> QED  BY <1>1, <2>1, <2>2, <3>2, <4>1, <4>2, MirroredKept, BoundKept
    <3> QED  BY <2>4, <3>1, <3>2
  <2>5. CASE /\ Show(Reply.document) /\ NoRequest(Rest) /\ commit' = "idle"
             /\ UNCHANGED queue
    <3>1. core' \in Known /\ replies' \in Seq(Answers)
      BY <2>1, <2>5, NotRequested
    <3>2. canonical' \in Known /\ Remarks
      BY <2>1, <2>5, ShownKept
    <3> QED  BY <1>1, <2>1, <2>2, <2>5, <3>1, <3>2, MirroredKept
  <2> QED  BY <1>2, <2>3, <2>4, <2>5 DEF LocalCommitReply
<1>3. CASE Loaded
  <2>1. Rest \in Seq(Answers) /\ UNCHANGED <<log, shown, canonical, commit, marks, used>>
    BY <1>3, FirstReply DEF Loaded, Answered, shown
  <2>2. CASE link.config
    <3>1. UseServer("active") /\ queue' = LoadFrom(queue) /\ NoRequest(Rest)
      BY <1>3, <2>2 DEF Loaded
    <3>2. /\ core' \in Known /\ replies' \in Seq(Answers)
          /\ queue' \in Seq(Operations')
      BY <2>1, <3>1, NotRequested, LoadsAreOperations
    <3>3. commit' = "localFirst" => used'.connects = MaxConnects
      BY <2>1 DEF Mirrored
    <3> QED  BY <2>1, <3>1, <3>2, <3>3, MirroredAgain
  <2>3. CASE ~link.config
    <3>1. ReadAnalysis(Rest, queue, "page", "page") /\ UNCHANGED <<server, generation, installed, feed>>
      BY <1>3, <2>3 DEF Loaded, portVars, shown
    <3>2. core' \in Known /\ replies' \in Seq(Answers) /\ queue' \in Seq(Operations)
      BY <1>1, <2>1, <3>1, AnalysisRead DEF Recipients
    <3> QED  BY <1>1, <2>1, <3>1, <3>2, MirroredKept, BoundKept
  <2> QED  BY <2>2, <2>3
<1>4. CASE PageReadsWorker
  <2>1. /\ Reply.document \in Known /\ Rest \in Seq(Answers)
        /\ canonical' = Reply.document /\ NoRequest(Rest) /\ Remarks
        /\ UNCHANGED <<log, server, generation, installed, queue, feed, commit, used>>
    BY <1>4, FirstReply, ShownKept DEF PageReadsWorker, Answered, Answers, portVars, shown, pageVars
  <2>2. core' \in Known /\ replies' \in Seq(Answers)
    BY <2>1, NotRequested
  <2> QED  BY <1>1, <2>1, <2>2, MirroredKept, BoundKept
<1>5. CASE ResetDone
  <2>1. /\ Rest \in Seq(Answers) /\ ReadAnalysis(Rest, queue, "resetRead", "reset")
        /\ UNCHANGED <<log, server, generation, installed, canonical, marks, feed, commit, used>>
    BY <1>5, FirstReply DEF ResetDone, Answered, portVars, shown, pageVars
  <2>2. core' \in Known /\ replies' \in Seq(Answers) /\ queue' \in Seq(Operations)
    BY <1>1, <2>1, AnalysisRead DEF Recipients
  <2> QED  BY <1>1, <2>1, <2>2, MirroredKept, BoundKept
<1>6. CASE ResetRead
  <2>1. /\ Reply.document \in Known /\ Rest \in Seq(Answers)
        /\ ResetReturns(Reply.document, Rest)
        /\ UNCHANGED <<log, server, generation, installed, queue, feed, commit, used>>
    BY <1>6, FirstReply DEF ResetRead, Answered, Answers, portVars, pageVars
  <2>2. /\ canonical' \in Known /\ core' \in Known /\ replies' \in Seq(Answers')
        /\ Remarks
    BY <2>1, Returned
  <2> QED  BY <1>1, <2>1, <2>2, MirroredKept, BoundKept
<1>7. CASE Seed
  <2>1. marks.saved /\ Rest \in Seq(Answers)
    BY <1>7, FirstReply DEF Seed, Answered, Answers, Recipients
  <2>2. Left /\ canonical \in Known /\ Displayed \in Known
    <3>1. Left /\ canonical \in Documents
      BY <2>1 DEF Mirrored, Known
    <3>2. [canonical EXCEPT !.revision = 0] \in Documents
      BY <3>1 DEF Documents
    <3> QED  BY <3>1, <3>2, SavedDocument DEF Displayed, Known
  <2>3. /\ Request(Rest, "seed", Replace(Displayed)) \/ NoRequest(Rest)
        /\ UNCHANGED <<log, server, generation, installed, canonical, marks, queue, feed,
                       commit, used>>
    BY <1>7 DEF Seed, portVars, shown, pageVars
  <2>4. core' \in Known /\ replies' \in Seq(Answers)
    <3>1. "seed" \in Recipients
      BY <2>1 DEF Recipients
    <3> QED  BY <2>1, <2>2, <2>3, <3>1, NotRequested, WorkerReplaced, Requested
  <2> QED  BY <1>1, <2>3, <2>4, MirroredKept, BoundKept
<1>8. CASE SeedDone
  <2>1. /\ Rest \in Seq(Answers) /\ ReadAnalysis(Rest, queue, "page", "page")
        /\ UNCHANGED <<log, server, generation, installed, canonical, marks, feed, commit, used>>
    BY <1>8, FirstReply DEF SeedDone, Answered, portVars, shown, pageVars
  <2>2. core' \in Known /\ replies' \in Seq(Answers) /\ queue' \in Seq(Operations)
    BY <1>1, <2>1, AnalysisRead DEF Recipients
  <2> QED  BY <1>1, <2>1, <2>2, MirroredKept, BoundKept
<1> QED
  BY <1>2, <1>3, <1>4, <1>5, <1>6, <1>7, <1>8 DEF Receive

-----------------------------------------------------------------------------
(***************************************************************************)
(* Connecting, loading the trace, leaving, and changes.                    *)
(***************************************************************************)
LEMMA BlankCommitted ==
    ASSUME log \in Seq(Commits)
    PROVE  Blank \in Known
<1>1. Len(log) \in Nat /\ SubSeq(log, 1, 0) = <<>>
  BY LenProperties, SubSeqEmpty
<1>2. Committed(0) \in Known
  BY <1>1, CommittedDocument, CommittedsAreDocuments
<1> QED  BY <1>1, <1>2 DEF Committed, Blank

LEMMA ConnectionMirrored ==
    ASSUME Linked, Mirrored, Connect \/ Connected \/ ConnectFails, Left => Left'
    PROVE  Mirrored'
<1>1. /\ replies \in Seq(Answers) /\ queue \in Seq(Operations)
      /\ core \in Known /\ Blank \in Known
  BY BlankCommitted DEF Mirrored
<1>2. CASE Connect
  <2>1. /\ used.connects < MaxConnects
        /\ UNCHANGED <<log, shown, core, replies, queue, commit>>
        /\ UseServer("configured")
    BY <1>2 DEF Connect
  <2>2. commit # "localFirst"
    BY <2>1, BrowserAssumption DEF Mirrored, Linked, Counters
  <2> QED  BY <1>1, <2>1, <2>2, MirroredAgain
<1>3. CASE Connected
  <2>1. /\ UNCHANGED <<log, shown, replies, commit, used>>
        /\ core' \in Known
        /\ \/ UseServer("active") /\ queue' = LoadFrom(queue)
           \/ UseServer("configured") /\ queue' = queue
    BY <1>1, <1>3 DEF Connected
  <2>2. commit' = "localFirst" => used'.connects = MaxConnects
    BY <2>1 DEF Mirrored
  <2>3. CASE UseServer("active") /\ queue' = LoadFrom(queue)
    <3>1. queue' \in Seq(Operations')
      BY <2>1, <2>3, LoadsAreOperations
    <3> QED  BY <1>1, <2>1, <2>2, <2>3, <3>1, MirroredAgain
  <2>4. CASE UseServer("configured") /\ queue' = queue
    BY <1>1, <2>1, <2>2, <2>4, MirroredAgain
  <2> QED  BY <2>1, <2>3, <2>4
<1>4. CASE ConnectFails
  <2>1. /\ UNCHANGED <<log, shown, core, replies, queue, commit>>
        /\ UseServer("configured") /\ Fault
    BY <1>4 DEF ConnectFails
  <2>2. used'.connects = used.connects
    BY <2>1, Counted
  <2>3. commit' = "localFirst" => used'.connects = MaxConnects
    BY <2>1, <2>2 DEF Mirrored
  <2> QED  BY <1>1, <2>1, <2>3, MirroredAgain
<1> QED  BY <1>2, <1>3, <1>4

LEMMA TraceMirrored ==
    ASSUME Linked, Mirrored, LoadTrace \/ TraceFails
    PROVE  Mirrored'
<1>1. /\ replies \in Seq(Answers) /\ queue \in Seq(Operations)
      /\ core \in Known /\ generation \in Nat /\ feed \in Feeds
  BY DEF Mirrored
<1>2. CASE TraceAnswers
  <2>1. UNCHANGED <<log, server, generation, installed, canonical, core, replies, queue, feed,
                    commit, marks, used>>
    BY <1>2 DEF TraceAnswers, portVars, shown
  <2> QED  BY <1>1, <2>1, MirroredKept, BoundKept
<1>3. CASE TraceEnds
  <2>1. /\ UNCHANGED <<log, server, generation, installed, canonical, queue, feed, commit,
                       marks, used>>
        /\ Request(replies, "load", Read)
    BY <1>3 DEF TraceEnds, portVars, shown
  <2>2. core' \in Known /\ replies' \in Seq(Answers)
    BY <1>1, <2>1, WorkerRead, Requested DEF Recipients
  <2> QED  BY <1>1, <2>1, <2>2, MirroredKept, BoundKept
<1>4. CASE TraceFails
  <2>1. /\ UNCHANGED <<log, server, generation, installed, canonical, core, replies, queue, feed,
                       commit, marks>>
        /\ Fault
    BY <1>4 DEF TraceFails, portVars, shown
  <2>2. used'.connects = used.connects
    BY <2>1, Counted
  <2> QED  BY <1>1, <2>1, <2>2, MirroredKept, BoundKept
<1> QED  BY <1>2, <1>3, <1>4 DEF LoadTrace

LEMMA DisconnectMirrored ==
    ASSUME Mirrored, Disconnect, Left => Left'
    PROVE  Mirrored'
<1>1. /\ replies \in Seq(Answers) /\ queue \in Seq(Operations) /\ Blank \in Known
  BY BlankCommitted DEF Mirrored
<1>2. /\ UseServer("none") /\ UNCHANGED <<log, shown, queue, commit, used>>
      /\ Request(replies, "reset", Replace(Blank)) \/ NoRequest(replies)
  BY DEF Disconnect
<1>3. core' \in Known /\ replies' \in Seq(Answers)
  BY <1>1, <1>2, WorkerReplaced, Requested, NotRequested DEF Recipients
<1>4. commit' = "localFirst" => used'.connects = MaxConnects
  BY <1>2 DEF Mirrored
<1> QED  BY <1>1, <1>2, <1>3, <1>4, MirroredAgain

\* A page without a server that may change its analysis has left for good.
LEMMA StartCommitMirrored ==
    ASSUME ~OwnEarly, Linked, Mirrored, StartCommit
    PROVE  Mirrored'
<1>1. /\ replies \in Seq(Answers) /\ queue \in Seq(Operations)
      /\ core \in Known /\ generation \in Nat /\ feed \in Feeds
  BY DEF Mirrored
<1>2. /\ UNCHANGED <<log, server, generation, installed, canonical, feed>> /\ Remarks
      /\ used' = [used EXCEPT !.changes = used.changes + 1]
      /\ server # "none" \/ Left
  <2>1. UNCHANGED shown \/ Show(canonical)
    BY DEF StartCommit
  <2>2. canonical' = canonical /\ Remarks
    BY <2>1, ShownKept DEF shown, Remarks, Mirrored
  <2> QED  BY <2>2 DEF StartCommit, portVars, MayBeOwn, Left
<1>3. used'.connects = used.connects
  BY <1>2 DEF Linked, Counters
<1>4. CASE canonical = NoDocument
  <2>1. /\ ReadAnalysis(replies, queue, "commit", "first")
        /\ commit' = Reading("localFirst", "change", "idle")
    BY <1>4 DEF StartCommit
  <2>2. commit' = "localFirst" => used'.connects = MaxConnects
    BY <1>2, <1>3, <2>1 DEF Reading, Left
  <2>3. core' \in Known /\ replies' \in Seq(Answers) /\ queue' \in Seq(Operations)
    BY <1>1, <2>1, AnalysisRead DEF Recipients
  <2> QED  BY <1>1, <1>2, <1>3, <2>2, <2>3, MirroredKept, BoundKept
<1>5. CASE canonical # NoDocument
  <2>1. ChangeAnalysis(canonical, replies)
    BY <1>5 DEF StartCommit
  <2>2. canonical \in Known
    BY <1>5 DEF Mirrored, OrNone
  <2>3. /\ core' \in Known /\ replies' \in Seq(Answers)
        /\ queue' \in Seq(Operations') /\ commit' # "localFirst"
    BY <1>1, <1>2, <2>1, <2>2, ChangeAsked
  <2> QED  BY <1>1, <1>2, <1>3, <2>2, <2>3, MirroredKept, BoundKept
<1> QED  BY <1>4, <1>5

LEMMA OthersCommitMirrored ==
    ASSUME Linked, Mirrored, OthersCommit
    PROVE  Mirrored'
<1>1. /\ log' = Append(log, [by |-> "others", at |-> Len(log) + 1])
      /\ UNCHANGED <<portVars, shown, core, replies, queue, feed, pageVars>>
      /\ used' = [used EXCEPT !.others = used.others + 1]
  BY DEF OthersCommit
<1>2. used'.connects = used.connects
  BY <1>1 DEF Linked, Counters
<1>3. log \in Seq(Commits) /\ Len(log) \in Nat
  BY LenProperties DEF Mirrored
<1>4. [by |-> "others", at |-> Len(log) + 1] \in Commits
  BY <1>3 DEF Commits
<1>5. /\ log' \in Seq(Commits) /\ Len(log') = Len(log) + 1
      /\ Committeds \subseteq Committeds'
  BY <1>1, <1>3, <1>4, CommittedsGrow
<1>6. Operations \subseteq Operations'
  BY <1>1, <1>2, <1>3, <1>5, Grown DEF portVars
<1>7. queue' \in Seq(Operations')
  BY <1>1, <1>6, SeqMonotonic DEF Mirrored
<1> QED  BY <1>1, <1>2, <1>5, <1>7, MirroredGrown

-----------------------------------------------------------------------------
(***************************************************************************)
(* A page that has no analysis of its own before it leaves the server for  *)
(* good: every document it comes by until then is the server's.            *)
(***************************************************************************)
LEMMA BrowserInvInit == BrowserInit => BrowserInv
<1> SUFFICES ASSUME BrowserInit
             PROVE  BrowserInv
  OBVIOUS
<1>1. log = <<>> /\ log \in Seq(Commits)
  BY DEF BrowserInit
<1>2. Blank \in Known
  BY <1>1, BlankCommitted
<1>3. /\ generation \in Nat /\ installed \in OrNone /\ canonical \in OrNone
      /\ installed = NoDocument /\ core \in Known
      /\ replies = <<>> /\ queue = <<>> /\ feed \in Feeds
      /\ marks \in Marks /\ ~marks.saved /\ commit # "localFirst"
  BY <1>2, OtherFeeds DEF BrowserInit, OrNone, Marks
<1>4. Mirrored
  BY <1>1, <1>3 DEF Mirrored
<1> QED  BY <1>4, LinkedInit DEF BrowserInv

LEMMA BrowserInvNext ==
    ASSUME ~OwnEarly, BrowserInv, [BrowserNext]_vars
    PROVE  BrowserInv'
<1>1. Linked /\ Mirrored /\ Linked' /\ (Left => Left')
  BY LinkedStep DEF BrowserInv
<1>2. CASE UNCHANGED vars
  <2>1. UNCHANGED <<log, server, generation, installed, canonical, core, replies, queue, feed,
                    commit, marks, used>>
    BY <1>2 DEF vars, portVars, shown, pageVars
  <2> QED  BY <1>1, <2>1, MirroredKept, BoundKept DEF BrowserInv, Mirrored
<1>3. CASE Serve
  BY <1>1, <1>3, ServeReadMirrored, ServeChangeMirrored, ServeDeltasMirrored
     DEF Serve, BrowserInv
<1>4. CASE Follow
  BY <1>1, <1>4, FollowMirrored DEF BrowserInv
<1>5. CASE Receive
  BY <1>1, <1>5, ReceiveMirrored DEF BrowserInv
<1>6. CASE LoadTrace \/ TraceFails
  BY <1>1, <1>6, TraceMirrored DEF BrowserInv
<1>7. CASE SnapshotFails \/ PostFails \/ PollFails
  BY <1>1, <1>7, LossQuiet, Counted, LossMirrored DEF BrowserInv
<1>8. CASE Connect \/ Connected \/ ConnectFails
  BY <1>1, <1>8, ConnectionMirrored DEF BrowserInv
<1>9. CASE Disconnect
  BY <1>1, <1>9, DisconnectMirrored DEF BrowserInv
<1>10. CASE StartCommit
  BY <1>1, <1>10, StartCommitMirrored DEF BrowserInv
<1>11. CASE OthersCommit
  BY <1>1, <1>11, OthersCommitMirrored DEF BrowserInv
<1> QED
  BY <1>2, <1>3, <1>4, <1>5, <1>6, <1>7, <1>8, <1>9, <1>10, <1>11 DEF BrowserNext, Fails

LEMMA BrowserInvFollows == BrowserInv => FollowsServer
<1> SUFFICES ASSUME BrowserInv, server = "active", installed # NoDocument
             PROVE  Mirrors(installed) /\ Mirrors(canonical) /\ Mirrors(core)
  BY DEF FollowsServer
<1>1. Mirrored /\ Known = Committeds /\ Len(log) \in Nat
  BY LenProperties DEF BrowserInv, Mirrored, Known, Left
<1>2. installed \in Committeds /\ canonical \in Committeds /\ core \in Committeds
  BY <1>1 DEF Mirrored, OrNone
<1>3. ASSUME NEW d \in Committeds
      PROVE  Mirrors(d)
  BY <1>1, OfCommitted DEF Mirrors
<1> QED  BY <1>2, <1>3

(***************************************************************************)
(* FollowsServer (ARCH-008): whatever was under way when a connection was  *)
(* made, given up or made again, once the port has read the document, the  *)
(* port, the page and the worker hold the server's at some revision; for   *)
(* any number of connections, changes, failures and commits of others.     *)
(* The page has analysis of its own only after it left the server for good *)
(* (with it before, own_shown shows the code does not follow).             *)
(***************************************************************************)
THEOREM FollowsCorrect ==
    ASSUME ~OwnEarly
    PROVE  BrowserSpec => []FollowsServer
<1>1. BrowserInit => BrowserInv
  BY BrowserInvInit
<1>2. BrowserInv /\ [BrowserNext]_vars => BrowserInv'
  BY BrowserInvNext
<1>3. BrowserInv => FollowsServer
  BY BrowserInvFollows
<1> QED  BY <1>1, <1>2, <1>3, PTL DEF BrowserSpec
=============================================================================
