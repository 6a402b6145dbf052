----------------------- MODULE AnalysisDocumentProofs -----------------------
(***************************************************************************)
(* Proofs, for every value of the constants, about the analysis document   *)
(* and what the engine derives from it: the tag index is what the          *)
(* memberships alone determine after every call, the lists built from it   *)
(* and from the filter are current, the document can be restored, and      *)
(* between two calls the index, the names and the labels say what it says. *)
(***************************************************************************)
EXTENDS AnalysisDocument, FiniteSetTheorems, TLAPS

(***************************************************************************)
(* Traces: no event frees two allocations.                                 *)
(***************************************************************************)
IsTrace(s) ==
    /\ Len(s.op) \in Nat
    /\ \A e \in EventsOf(s) : s.death[e] \in 0..Len(s.op)
    /\ \A e, f \in EventsOf(s) : s.death[e] # 0 /\ s.death[e] = s.death[f] => e = f

LEMMA TracesAre == IsTrace(Trace) /\ IsTrace(NoTrace)
<1>1. IsTrace(Trace)
  <2>1. Len(Trace.op) \in Nat
    BY TraceAssumption
  <2>2. \A e \in EventsOf(Trace) : Trace.death[e] \in 0..Len(Trace.op)
    BY TraceAssumption
  <2>3. ASSUME NEW e \in EventsOf(Trace), NEW f \in EventsOf(Trace),
               Trace.death[e] # 0, Trace.death[e] = Trace.death[f]
        PROVE  e = f
    <3>1. Trace.death[e] \in EventsOf(Trace)
      BY <2>1, <2>2, <2>3 DEF EventsOf
    <3>2. Trace.target[Trace.death[e]] = e /\ Trace.target[Trace.death[e]] = f
      BY <2>3, <3>1, TraceAssumption
    <3> QED
      BY <3>2
  <2> QED
    BY <2>1, <2>2, <2>3 DEF IsTrace
<1>2. IsTrace(NoTrace)
  BY DEF IsTrace, NoTrace, EventsOf
<1> QED
  BY <1>1, <1>2

LEMMA Member ==
    ASSUME NEW a, NEW S
    PROVE  \E c \in BOOLEAN : c = (a \notin S)
<1>1. CASE a \in S
  <2>1. FALSE = (a \notin S)
    BY <1>1
  <2> QED
    BY <2>1, Zenon
<1>2. CASE a \notin S
  <2>1. TRUE = (a \notin S)
    BY <1>2
  <2> QED
    BY <2>1, Zenon
<1> QED
  BY <1>1, <1>2

\* Sets of events are finite.
LEMMA EventSets ==
    ASSUME NEW s, IsTrace(s), NEW S \in SUBSET EventsOf(s)
    PROVE  /\ IsFiniteSet(S) /\ Cardinality(S) \in Nat
           /\ \A e \in EventsOf(s) :
                 /\ e \notin S => Cardinality(S \cup {e}) = Cardinality(S) + 1
                 /\ e \in S => Cardinality(S \ {e}) = Cardinality(S) - 1
<1>1. IsFiniteSet(EventsOf(s))
  BY FS_Interval DEF IsTrace, EventsOf
<1>2. S \subseteq EventsOf(s)
  OBVIOUS
<1>3. IsFiniteSet(S)
  BY <1>1, <1>2, FS_Subset
<1> QED
  BY <1>3, FS_CardinalityType, FS_AddElement, FS_RemoveElement

-----------------------------------------------------------------------------
(***************************************************************************)
(* An exact index, field by field.                                         *)
(***************************************************************************)
IsIndex(s, ix) ==
    ix.members \in SUBSET (EventsOf(s) \X TagNumbers) /\ Exact(s, ix)

Blocks(members) == {<<BlockOf(m[1]), m[2]>> : m \in members}

CarriersOf(s, members, tag) == {e \in CreatorsOf(s) : <<e, tag>> \in members}

LEMMA IndexFields ==
    ASSUME NEW s, NEW ix, Exact(s, ix)
    PROVE  /\ DOMAIN ix = {"members", "any", "freeAny", "block", "count", "tagged"}
           /\ ix.any = Carriers(ix.members)
           /\ ix.freeAny = DeathsOf(s, Carriers(ix.members))
           /\ ix.block = Blocks(ix.members)
           /\ ix.count \in [0..MaxTags -> {ix.count[t] : t \in 0..MaxTags}]
           /\ ix.count[0] = Cardinality(Carriers(ix.members) \cap CreatorsOf(s))
           /\ \A tag \in TagNumbers : ix.count[tag] = Cardinality(CarriersOf(s, ix.members, tag))
           /\ ix.tagged = Cardinality(Carriers(ix.members))
<1>1. ix = Rebuilt(s, ix.members)
  BY DEF Exact
<1> PICK m : m = ix.members
  OBVIOUS
<1>2. ix = Rebuilt(s, m)
  BY <1>1
<1> QED
  BY <1>2, TagAssumption DEF Rebuilt, Blocks, CarriersOf, TagNumbers

\* A record with these fields, and these values in them, is exact.
LEMMA FieldsExact ==
    ASSUME NEW s, NEW m, NEW any, NEW freeAny, NEW block, NEW tagged,
           NEW V, NEW count \in [0..MaxTags -> V],
           any = Carriers(m), freeAny = DeathsOf(s, Carriers(m)), block = Blocks(m),
           count[0] = Cardinality(Carriers(m) \cap CreatorsOf(s)),
           \A tag \in TagNumbers : count[tag] = Cardinality(CarriersOf(s, m, tag)),
           tagged = Cardinality(Carriers(m))
    PROVE  Exact(s, [members |-> m, any |-> any, freeAny |-> freeAny, block |-> block,
                     count |-> count, tagged |-> tagged])
<1> DEFINE rebuilt == [tag \in 0..MaxTags |->
                          IF tag = 0 THEN Cardinality(Carriers(m) \cap CreatorsOf(s))
                          ELSE Cardinality({e \in CreatorsOf(s) : <<e, tag>> \in m})]
<1>1. \A tag \in 0..MaxTags : tag = 0 \/ tag \in TagNumbers
  BY TagAssumption DEF TagNumbers
<1>2. \A tag \in 0..MaxTags : count[tag] = rebuilt[tag]
  BY <1>1 DEF CarriersOf
<1>3. count = rebuilt
  BY <1>2
<1> HIDE DEF rebuilt
<1>4. Rebuilt(s, m) = [members |-> m, any |-> any, freeAny |-> freeAny, block |-> block,
                       count |-> rebuilt, tagged |-> tagged]
  BY DEF Rebuilt, Blocks, rebuilt
<1> QED
  BY <1>3, <1>4 DEF Exact

-----------------------------------------------------------------------------
(***************************************************************************)
(* One membership more, or some of one event's fewer.                      *)
(***************************************************************************)
LEMMA CarriersIn ==
    ASSUME NEW s, NEW m \in SUBSET (EventsOf(s) \X TagNumbers)
    PROVE  /\ Carriers(m) \in SUBSET EventsOf(s)
           /\ \A e : e \in Carriers(m) <=> \E tag \in TagNumbers : <<e, tag>> \in m
           /\ \A tag : CarriersOf(s, m, tag) \in SUBSET EventsOf(s)
           /\ Carriers(m) \cap CreatorsOf(s) \in SUBSET EventsOf(s)
           /\ CreatorsOf(s) \in SUBSET EventsOf(s)
<1>1. \A p \in m : p = <<p[1], p[2]>> /\ p[1] \in EventsOf(s) /\ p[2] \in TagNumbers
  OBVIOUS
<1>2. \A e, tag : <<e, tag>> \in m => e \in EventsOf(s) /\ tag \in TagNumbers
  OBVIOUS
<1>3. \A e : e \in Carriers(m) <=> \E tag \in TagNumbers : <<e, tag>> \in m
  <2>1. ASSUME NEW e \in Carriers(m) PROVE \E tag \in TagNumbers : <<e, tag>> \in m
    BY <1>1, <2>1 DEF Carriers
  <2>2. ASSUME NEW e, NEW tag \in TagNumbers, <<e, tag>> \in m PROVE e \in Carriers(m)
    <3>1. <<e, tag>>[1] = e
      OBVIOUS
    <3> QED
      BY <2>2, <3>1 DEF Carriers
  <2> QED
    BY <2>1, <2>2
<1>4. Carriers(m) \in SUBSET EventsOf(s)
  BY <1>1 DEF Carriers
<1>5. CreatorsOf(s) \in SUBSET EventsOf(s)
  BY DEF CreatorsOf
<1> QED
  BY <1>3, <1>4, <1>5 DEF CarriersOf

LEMMA BlocksAre ==
    ASSUME NEW s, NEW m \in SUBSET (EventsOf(s) \X TagNumbers)
    PROVE  \A b : b \in Blocks(m) <=>
               \E e \in EventsOf(s), tag \in TagNumbers :
                   <<e, tag>> \in m /\ b = <<BlockOf(e), tag>>
<1>1. \A p \in m : p = <<p[1], p[2]>> /\ p[1] \in EventsOf(s) /\ p[2] \in TagNumbers
  OBVIOUS
<1>2. ASSUME NEW b \in Blocks(m)
      PROVE  \E e \in EventsOf(s), tag \in TagNumbers : <<e, tag>> \in m /\ b = <<BlockOf(e), tag>>
  <2>1. PICK p \in m : b = <<BlockOf(p[1]), p[2]>>
    BY <1>2 DEF Blocks
  <2> QED
    BY <1>1, <2>1
<1>3. ASSUME NEW e, NEW tag, <<e, tag>> \in m
      PROVE  <<BlockOf(e), tag>> \in Blocks(m)
  <2> PICK p : p = <<e, tag>>
    OBVIOUS
  <2>1. p \in m /\ p[1] = e /\ p[2] = tag
    BY <1>3
  <2> QED
    BY <2>1 DEF Blocks
<1>4. ASSUME NEW b, NEW e \in EventsOf(s), NEW tag \in TagNumbers,
             <<e, tag>> \in m, b = <<BlockOf(e), tag>>
      PROVE  b \in Blocks(m)
  BY <1>3, <1>4
<1> QED
  BY <1>2, <1>4

LEMMA BlocksOfMore ==
    ASSUME NEW m, NEW p
    PROVE  Blocks(m \cup {p}) = Blocks(m) \cup {<<BlockOf(p[1]), p[2]>>}
BY DEF Blocks

\* Which tags an event carries: its block advertises them all.
LEMMA IdsOf ==
    ASSUME NEW s, NEW m \in SUBSET (EventsOf(s) \X TagNumbers), NEW ix,
           ix.members = m, ix.block = Blocks(m), NEW e \in EventsOf(s)
    PROVE  TagIds(ix, e) = {tag \in TagNumbers : <<e, tag>> \in m}
<1>1. \A tag \in TagNumbers : tag # 0
  BY DEF TagNumbers
<1>2. \A tag \in TagNumbers : <<e, tag>> \in m => <<BlockOf(e), tag>> \in Blocks(m)
  BY BlocksAre
<1>3. TagIds(ix, e) = {tag \in TagNumbers : <<BlockOf(e), tag>> \in Blocks(m) /\ <<e, tag>> \in m}
  BY <1>1 DEF TagIds, HasTag
<1> QED
  BY <1>2, <1>3

LEMMA AddExact ==
    ASSUME NEW s, IsTrace(s), NEW ix, IsIndex(s, ix), NEW e \in EventsOf(s),
           NEW tag \in TagNumbers, ~HasTag(ix, e, tag)
    PROVE  IsIndex(s, AddTag(s, ix, e, tag))
<1> PICK m : m = ix.members
  OBVIOUS
<1> PICK more : more = m \cup {<<e, tag>>}
  OBVIOUS
<1> PICK first \in BOOLEAN : first = (e \notin ix.any)
  BY Member
<1>1. /\ m \in SUBSET (EventsOf(s) \X TagNumbers) /\ <<e, tag>> \notin m
      /\ more \in SUBSET (EventsOf(s) \X TagNumbers) /\ tag # 0
  BY DEF IsIndex, HasTag, TagNumbers
<1>2. ix.any = Carriers(m) /\ ix.freeAny = DeathsOf(s, Carriers(m)) /\ ix.block = Blocks(m)
  BY IndexFields DEF IsIndex
<1> PICK adds : adds = {tag} \cup (IF first THEN {0} ELSE {})
  OBVIOUS
<1> PICK count : count = Counted(s, ix.count, e, adds, 1)
  OBVIOUS
<1>0. \A S \in SUBSET EventsOf(s) : e \notin S => Cardinality(S \cup {e}) = Cardinality(S) + 1
  BY EventSets
<1>3. Carriers(more) = Carriers(m) \cup {e}
  <2>1. \A f, t : <<f, t>> \in more <=> <<f, t>> \in m \/ (f = e /\ t = tag)
    OBVIOUS
  <2> QED
    BY <1>1, <2>1, CarriersIn
<1>4. DeathsOf(s, Carriers(more)) = DeathsOf(s, Carriers(m)) \cup DeathsOf(s, {e})
  BY <1>3 DEF DeathsOf
<1>5. ~first => Carriers(more) = Carriers(m)
  BY <1>2, <1>3
<1>6. Blocks(more) = Blocks(m) \cup {<<BlockOf(e), tag>>}
  <2> PICK p : p = <<e, tag>>
    OBVIOUS
  <2>1. p[1] = e /\ p[2] = tag /\ more = m \cup {p}
    OBVIOUS
  <2> QED
    BY <2>1, BlocksOfMore
<1>7. \A t \in TagNumbers :
         CarriersOf(s, more, t) = IF t = tag /\ e \in CreatorsOf(s)
                                  THEN CarriersOf(s, m, t) \cup {e} ELSE CarriersOf(s, m, t)
  <2>1. \A f, t : <<f, t>> \in more <=> <<f, t>> \in m \/ (f = e /\ t = tag)
    OBVIOUS
  <2>2. ASSUME NEW t \in TagNumbers, t = tag, e \in CreatorsOf(s)
        PROVE  CarriersOf(s, more, t) = CarriersOf(s, m, t) \cup {e}
    BY <2>1, <2>2 DEF CarriersOf
  <2>3. ASSUME NEW t \in TagNumbers, t # tag \/ e \notin CreatorsOf(s)
        PROVE  CarriersOf(s, more, t) = CarriersOf(s, m, t)
    BY <2>1, <2>3 DEF CarriersOf
  <2> QED
    BY <2>2, <2>3
<1>8. /\ count \in [0..MaxTags -> {count[t] : t \in 0..MaxTags}]
      /\ \A t \in 0..MaxTags :
            count[t] = IF t \in adds /\ e \in CreatorsOf(s) THEN ix.count[t] + 1 ELSE ix.count[t]
  BY IndexFields DEF Counted, IsIndex
<1>9. count[0] = Cardinality(Carriers(more) \cap CreatorsOf(s))
  <2>1. 0 \in 0..MaxTags /\ (0 \in adds <=> first)
    BY <1>1, TagAssumption
  <2>2. ix.count[0] = Cardinality(Carriers(m) \cap CreatorsOf(s))
    BY IndexFields DEF IsIndex
  <2>3. Carriers(m) \cap CreatorsOf(s) \in SUBSET EventsOf(s)
    BY <1>1, CarriersIn
  <2>4. CASE first /\ e \in CreatorsOf(s)
    <3>1. /\ Carriers(more) \cap CreatorsOf(s) = (Carriers(m) \cap CreatorsOf(s)) \cup {e}
          /\ e \notin Carriers(m) \cap CreatorsOf(s)
      BY <1>2, <1>3, <2>4
    <3>2. Cardinality(Carriers(more) \cap CreatorsOf(s)) = Cardinality(Carriers(m) \cap CreatorsOf(s)) + 1
      BY <1>0, <2>3, <3>1
    <3> QED
      BY <1>8, <2>1, <2>2, <2>4, <3>2
  <2>5. CASE ~(first /\ e \in CreatorsOf(s))
    <3>1. Carriers(more) \cap CreatorsOf(s) = Carriers(m) \cap CreatorsOf(s)
      BY <1>3, <1>5, <2>5
    <3> QED
      BY <1>8, <2>1, <2>2, <2>5, <3>1
  <2> QED
    BY <2>4, <2>5
<1>10. \A t \in TagNumbers : count[t] = Cardinality(CarriersOf(s, more, t))
  <2> SUFFICES ASSUME NEW t \in TagNumbers
               PROVE  count[t] = Cardinality(CarriersOf(s, more, t))
    OBVIOUS
  <2>1. t \in 0..MaxTags /\ (t \in adds <=> t = tag)
    BY DEF TagNumbers
  <2>2. ix.count[t] = Cardinality(CarriersOf(s, m, t))
    <3>1. \A n \in TagNumbers : ix.count[n] = Cardinality(CarriersOf(s, ix.members, n))
      BY IndexFields DEF IsIndex
    <3> QED
      BY <3>1
  <2>3. CarriersOf(s, m, t) \in SUBSET EventsOf(s)
    BY <1>1, CarriersIn
  <2>4. CASE t = tag /\ e \in CreatorsOf(s)
    <3>1. e \notin CarriersOf(s, m, t)
      BY <1>1, <2>4 DEF CarriersOf
    <3>2. Cardinality(CarriersOf(s, m, t) \cup {e}) = Cardinality(CarriersOf(s, m, t)) + 1
      BY <1>0, <2>3, <3>1
    <3> QED
      BY <1>7, <1>8, <2>1, <2>2, <2>4, <3>2
  <2>5. CASE ~(t = tag /\ e \in CreatorsOf(s))
    BY <1>7, <1>8, <2>1, <2>2, <2>5
  <2> QED
    BY <2>4, <2>5
<1>11. Cardinality(Carriers(more)) = IF first THEN ix.tagged + 1 ELSE ix.tagged
  <2>1. ix.tagged = Cardinality(Carriers(m)) /\ Carriers(m) \in SUBSET EventsOf(s)
    BY <1>1, IndexFields, CarriersIn DEF IsIndex
  <2>2. first => Cardinality(Carriers(m) \cup {e}) = Cardinality(Carriers(m)) + 1
    BY <1>0, <1>2, <2>1
  <2> QED
    BY <1>3, <1>5, <2>1, <2>2
<1> QED
  <2> PICK any : any = ix.any \cup {e}
    OBVIOUS
  <2> PICK freeAny : freeAny = IF first THEN ix.freeAny \cup DeathsOf(s, {e}) ELSE ix.freeAny
    OBVIOUS
  <2> PICK block : block = ix.block \cup {<<BlockOf(e), tag>>}
    OBVIOUS
  <2> PICK tagged : tagged = IF first THEN ix.tagged + 1 ELSE ix.tagged
    OBVIOUS
  <2>1. AddTag(s, ix, e, tag) = [members |-> more, any |-> any, freeAny |-> freeAny,
                                 block |-> block, count |-> count, tagged |-> tagged]
    BY <1>1 DEF AddTag
  <2>2. any = Carriers(more) /\ freeAny = DeathsOf(s, Carriers(more)) /\ block = Blocks(more)
    BY <1>2, <1>3, <1>4, <1>5, <1>6
  <2>4. tagged = Cardinality(Carriers(more))
    BY <1>11
  <2>5. Exact(s, [members |-> more, any |-> any, freeAny |-> freeAny,
                  block |-> block, count |-> count, tagged |-> tagged])
    BY <1>8, <1>9, <1>10, <2>2, <2>4, FieldsExact
  <2> QED
    BY <1>1, <2>1, <2>5 DEF IsIndex

\* What is left of the blocks: the ones that another membership advertises.
LEMMA BlocksLeft ==
    ASSUME NEW s, NEW m \in SUBSET (EventsOf(s) \X TagNumbers), NEW e \in EventsOf(s),
           NEW gone \in SUBSET TagNumbers, NEW left, left = m \ {<<e, tag>> : tag \in gone}
    PROVE  Advertised(Blocks(m), left, e, gone) = Blocks(left)
<1>1. left \in SUBSET (EventsOf(s) \X TagNumbers)
  OBVIOUS
<1>2. \A p \in m : p = <<p[1], p[2]>> /\ p[1] \in EventsOf(s) /\ p[2] \in TagNumbers
  OBVIOUS
<1>3. \A p : p \in left <=> p \in m /\ ~(p[1] = e /\ p[2] \in gone)
  <2>1. ASSUME NEW p \in m PROVE p \in {<<e, tag>> : tag \in gone} <=> p[1] = e /\ p[2] \in gone
    BY <1>2
  <2> QED
    BY <2>1
<1>4. ASSUME NEW b \in Blocks(left) PROVE b \in Advertised(Blocks(m), left, e, gone)
  <2>1. PICK p \in left : b = <<BlockOf(p[1]), p[2]>>
    BY <1>4 DEF Blocks
  <2>2. b \in Blocks(m)
    BY <1>3, <2>1 DEF Blocks
  <2>3. ASSUME NEW t \in gone, b = <<BlockOf(e), t>>
        PROVE  \E q \in left : BlockOf(q[1]) = BlockOf(e) /\ q[2] = t
    BY <2>1, <2>3
  <2> QED
    BY <2>2, <2>3 DEF Advertised
<1>5. ASSUME NEW b \in Advertised(Blocks(m), left, e, gone) PROVE b \in Blocks(left)
  <2>1. b \in Blocks(m)
    BY <1>5 DEF Advertised
  <2>2. PICK p \in m : b = <<BlockOf(p[1]), p[2]>>
    BY <2>1 DEF Blocks
  <2>3. CASE p \in left
    BY <2>2, <2>3 DEF Blocks
  <2>4. CASE p \notin left
    <3>1. p[1] = e /\ p[2] \in gone /\ b = <<BlockOf(e), p[2]>>
      BY <1>3, <2>2, <2>4
    <3>2. PICK q \in left : BlockOf(q[1]) = BlockOf(e) /\ q[2] = p[2]
      BY <1>5, <3>1 DEF Advertised
    <3>3. b = <<BlockOf(q[1]), q[2]>>
      BY <3>1, <3>2
    <3> QED
      BY <3>3 DEF Blocks
  <2> QED
    BY <2>3, <2>4
<1> QED
  BY <1>4, <1>5

\* No other event is freed with e, so the frees of the others stay.
LEMMA DeathsLeft ==
    ASSUME NEW s, IsTrace(s), NEW S \in SUBSET EventsOf(s), NEW e \in EventsOf(s), e \in S
    PROVE  DeathsOf(s, S \ {e}) = DeathsOf(s, S) \ DeathsOf(s, {e})
<1>1. \A S1 : \A d : d \in DeathsOf(s, S1) <=> d # 0 /\ \E f \in S1 : d = s.death[f]
  BY DEF DeathsOf
<1>2. \A f \in S : f # e /\ s.death[f] # 0 => s.death[f] # s.death[e]
  BY DEF IsTrace
<1>3. \A d : d \in DeathsOf(s, S \ {e}) <=> d \in DeathsOf(s, S) /\ d \notin DeathsOf(s, {e})
  BY <1>1, <1>2
<1> QED
  BY <1>3

LEMMA FewerExact ==
    ASSUME NEW s, IsTrace(s), NEW ix, IsIndex(s, ix), NEW e \in EventsOf(s),
           NEW gone \in SUBSET TagNumbers, gone # {}, \A t \in gone : <<e, t>> \in ix.members,
           NEW bare \in BOOLEAN, bare <=> \A t \in TagNumbers : <<e, t>> \in ix.members => t \in gone,
           NEW left, left = ix.members \ {<<e, t>> : t \in gone}
    PROVE  IsIndex(s, [members |-> left,
                       any |-> IF bare THEN ix.any \ {e} ELSE ix.any,
                       freeAny |-> IF bare THEN ix.freeAny \ DeathsOf(s, {e}) ELSE ix.freeAny,
                       block |-> Advertised(ix.block, left, e, gone),
                       count |-> Counted(s, ix.count, e, gone \cup (IF bare THEN {0} ELSE {}), -1),
                       tagged |-> IF bare THEN ix.tagged - 1 ELSE ix.tagged])
<1> PICK m : m = ix.members
  OBVIOUS
<1>1. /\ m \in SUBSET (EventsOf(s) \X TagNumbers)
      /\ left \in SUBSET (EventsOf(s) \X TagNumbers) /\ 0 \notin TagNumbers
  BY DEF IsIndex, TagNumbers
<1>2. ix.any = Carriers(m) /\ ix.freeAny = DeathsOf(s, Carriers(m)) /\ ix.block = Blocks(m)
  BY IndexFields DEF IsIndex
<1> PICK lost : lost = gone \cup (IF bare THEN {0} ELSE {})
  OBVIOUS
<1> PICK count : count = Counted(s, ix.count, e, lost, -1)
  OBVIOUS
<1>3. \A f, t : <<f, t>> \in left <=> <<f, t>> \in m /\ ~(f = e /\ t \in gone)
  OBVIOUS
<1>4. \A S \in SUBSET EventsOf(s) : e \in S => Cardinality(S \ {e}) = Cardinality(S) - 1
  BY EventSets
<1>5. e \in Carriers(m) /\ Carriers(m) \in SUBSET EventsOf(s)
  BY <1>1, CarriersIn
<1>6. Carriers(left) = IF bare THEN Carriers(m) \ {e} ELSE Carriers(m)
  <2>1. \A f : f \in Carriers(m) <=> \E t \in TagNumbers : <<f, t>> \in m
    BY <1>1, CarriersIn
  <2>2. \A f : f \in Carriers(left) <=> \E t \in TagNumbers : <<f, t>> \in left
    BY <1>1, CarriersIn
  <2>3. \A f : f # e => (f \in Carriers(left) <=> f \in Carriers(m))
    BY <1>3, <2>1, <2>2
  <2>4. e \in Carriers(left) <=> ~bare
    BY <1>3, <2>2
  <2> QED
    BY <1>5, <2>3, <2>4
<1>7. DeathsOf(s, Carriers(m) \ {e}) = DeathsOf(s, Carriers(m)) \ DeathsOf(s, {e})
  BY <1>5, DeathsLeft
<1>8. Advertised(ix.block, left, e, gone) = Blocks(left)
  BY <1>1, <1>2, BlocksLeft
<1>9. \A t \in TagNumbers :
         CarriersOf(s, left, t) = IF t \in gone /\ e \in CreatorsOf(s)
                                  THEN CarriersOf(s, m, t) \ {e} ELSE CarriersOf(s, m, t)
  <2>1. ASSUME NEW t \in TagNumbers, t \in gone, e \in CreatorsOf(s)
        PROVE  CarriersOf(s, left, t) = CarriersOf(s, m, t) \ {e}
    BY <1>3, <2>1 DEF CarriersOf
  <2>2. ASSUME NEW t \in TagNumbers, t \notin gone \/ e \notin CreatorsOf(s)
        PROVE  CarriersOf(s, left, t) = CarriersOf(s, m, t)
    BY <1>3, <2>2 DEF CarriersOf
  <2> QED
    BY <2>1, <2>2
<1>10. /\ count \in [0..MaxTags -> {count[t] : t \in 0..MaxTags}]
       /\ \A t \in 0..MaxTags :
             count[t] = IF t \in lost /\ e \in CreatorsOf(s) THEN ix.count[t] + (-1) ELSE ix.count[t]
  BY IndexFields DEF Counted, IsIndex
<1>11. count[0] = Cardinality(Carriers(left) \cap CreatorsOf(s))
  <2>1. 0 \in 0..MaxTags /\ (0 \in lost <=> bare)
    BY <1>1, TagAssumption
  <2>2. ix.count[0] = Cardinality(Carriers(m) \cap CreatorsOf(s))
    BY IndexFields DEF IsIndex
  <2>3. Carriers(m) \cap CreatorsOf(s) \in SUBSET EventsOf(s)
    BY <1>1, CarriersIn
  <2>4. Cardinality(Carriers(m) \cap CreatorsOf(s)) \in Nat
    BY <2>3, EventSets
  <2>5. CASE bare /\ e \in CreatorsOf(s)
    <3>1. /\ Carriers(left) \cap CreatorsOf(s) = (Carriers(m) \cap CreatorsOf(s)) \ {e}
          /\ e \in Carriers(m) \cap CreatorsOf(s)
      BY <1>5, <1>6, <2>5
    <3>2. Cardinality(Carriers(left) \cap CreatorsOf(s)) = Cardinality(Carriers(m) \cap CreatorsOf(s)) - 1
      BY <1>4, <2>3, <3>1
    <3> QED
      BY <1>10, <2>1, <2>2, <2>4, <2>5, <3>2
  <2>6. CASE ~(bare /\ e \in CreatorsOf(s))
    <3>1. Carriers(left) \cap CreatorsOf(s) = Carriers(m) \cap CreatorsOf(s)
      BY <1>6, <2>6
    <3> QED
      BY <1>10, <2>1, <2>2, <2>6, <3>1
  <2> QED
    BY <2>5, <2>6
<1>12. \A t \in TagNumbers : count[t] = Cardinality(CarriersOf(s, left, t))
  <2> SUFFICES ASSUME NEW t \in TagNumbers
               PROVE  count[t] = Cardinality(CarriersOf(s, left, t))
    OBVIOUS
  <2>1. t \in 0..MaxTags /\ (t \in lost <=> t \in gone)
    BY DEF TagNumbers
  <2>2. ix.count[t] = Cardinality(CarriersOf(s, m, t))
    <3>1. \A n \in TagNumbers : ix.count[n] = Cardinality(CarriersOf(s, ix.members, n))
      BY IndexFields DEF IsIndex
    <3> QED
      BY <3>1
  <2>3. CarriersOf(s, m, t) \in SUBSET EventsOf(s)
    BY <1>1, CarriersIn
  <2>4. Cardinality(CarriersOf(s, m, t)) \in Nat
    BY <2>3, EventSets
  <2>5. CASE t \in gone /\ e \in CreatorsOf(s)
    <3>1. e \in CarriersOf(s, m, t)
      BY <2>5 DEF CarriersOf
    <3>2. Cardinality(CarriersOf(s, m, t) \ {e}) = Cardinality(CarriersOf(s, m, t)) - 1
      BY <1>4, <2>3, <3>1
    <3> QED
      BY <1>9, <1>10, <2>1, <2>2, <2>4, <2>5, <3>2
  <2>6. CASE ~(t \in gone /\ e \in CreatorsOf(s))
    BY <1>9, <1>10, <2>1, <2>2, <2>6
  <2> QED
    BY <2>5, <2>6
<1>13. Cardinality(Carriers(left)) = IF bare THEN ix.tagged - 1 ELSE ix.tagged
  <2>1. ix.tagged = Cardinality(Carriers(m))
    BY IndexFields DEF IsIndex
  <2> QED
    BY <1>4, <1>5, <1>6, <2>1
<1> PICK any : any = IF bare THEN ix.any \ {e} ELSE ix.any
  OBVIOUS
<1> PICK freeAny : freeAny = IF bare THEN ix.freeAny \ DeathsOf(s, {e}) ELSE ix.freeAny
  OBVIOUS
<1> PICK block : block = Advertised(ix.block, left, e, gone)
  OBVIOUS
<1> PICK tagged : tagged = IF bare THEN ix.tagged - 1 ELSE ix.tagged
  OBVIOUS
<1>14. any = Carriers(left) /\ freeAny = DeathsOf(s, Carriers(left)) /\ block = Blocks(left)
  BY <1>2, <1>6, <1>7, <1>8
<1>15. tagged = Cardinality(Carriers(left))
  BY <1>13
<1>16. Exact(s, [members |-> left, any |-> any, freeAny |-> freeAny,
                 block |-> block, count |-> count, tagged |-> tagged])
  BY <1>10, <1>11, <1>12, <1>14, <1>15, FieldsExact
<1> QED
  BY <1>1, <1>16 DEF IsIndex

LEMMA ClearExact ==
    ASSUME NEW s, IsTrace(s), NEW ix, IsIndex(s, ix), NEW e \in EventsOf(s)
    PROVE  IsIndex(s, ClearEventTags(s, ix, e))
<1> PICK m : m = ix.members
  OBVIOUS
<1>1. m \in SUBSET (EventsOf(s) \X TagNumbers) /\ ix.any = Carriers(m) /\ ix.block = Blocks(m)
  BY IndexFields DEF IsIndex
<1>2. CASE e \notin ix.any
  BY <1>2 DEF ClearEventTags
<1>3. CASE e \in ix.any
  <2> PICK gone : gone = TagIds(ix, e)
    OBVIOUS
  <2>1. gone = {tag \in TagNumbers : <<e, tag>> \in m}
    BY <1>1, IdsOf
  <2>2. \E tag \in TagNumbers : <<e, tag>> \in m
    BY <1>1, <1>3, CarriersIn
  <2> PICK left : left = ix.members \ {<<e, t>> : t \in gone}
    OBVIOUS
  <2> PICK bare \in BOOLEAN : bare
    OBVIOUS
  <2>3. IsIndex(s, [members |-> left,
                    any |-> IF bare THEN ix.any \ {e} ELSE ix.any,
                    freeAny |-> IF bare THEN ix.freeAny \ DeathsOf(s, {e}) ELSE ix.freeAny,
                    block |-> Advertised(ix.block, left, e, gone),
                    count |-> Counted(s, ix.count, e, gone \cup (IF bare THEN {0} ELSE {}), -1),
                    tagged |-> IF bare THEN ix.tagged - 1 ELSE ix.tagged])
    <3>1. gone \in SUBSET TagNumbers /\ gone # {} /\ \A t \in gone : <<e, t>> \in ix.members
      BY <2>1, <2>2
    <3>2. bare <=> \A t \in TagNumbers : <<e, t>> \in ix.members => t \in gone
      BY <2>1
    <3> QED
      BY <3>1, <3>2, FewerExact
  <2>4. ClearEventTags(s, ix, e) =
          [members |-> left, any |-> ix.any \ {e}, freeAny |-> ix.freeAny \ DeathsOf(s, {e}),
           block |-> Advertised(ix.block, left, e, gone),
           count |-> Counted(s, ix.count, e, gone \cup {0}, -1), tagged |-> ix.tagged - 1]
    BY <1>3 DEF ClearEventTags
  <2> QED
    BY <2>3, <2>4
<1> QED
  BY <1>2, <1>3

LEMMA RemoveExact ==
    ASSUME NEW s, IsTrace(s), NEW ix, IsIndex(s, ix), NEW e \in EventsOf(s),
           NEW tag \in 0..MaxTags
    PROVE  IsIndex(s, RemoveTag(s, ix, e, tag))
<1>0. \A L \in SUBSET (EventsOf(s) \X TagNumbers) :
         \A r : r.members = L /\ r.block = Blocks(L)
                 => TagIds(r, e) = {t \in TagNumbers : <<e, t>> \in L}
  BY IdsOf
<1> PICK m : m = ix.members
  OBVIOUS
<1>1. m \in SUBSET (EventsOf(s) \X TagNumbers) /\ ix.any = Carriers(m) /\ ix.block = Blocks(m)
  BY IndexFields DEF IsIndex
<1>2. CASE tag = 0 \/ ~HasTag(ix, e, tag)
  BY <1>2 DEF RemoveTag
<1>3. CASE tag # 0 /\ HasTag(ix, e, tag)
  <2>1. tag \in TagNumbers /\ <<e, tag>> \in m
    BY <1>3 DEF HasTag, TagNumbers
  <2> PICK gone : gone = {tag}
    OBVIOUS
  <2> PICK left : left = m \ {<<e, tag>>}
    OBVIOUS
  <2>2. left = m \ {<<e, t>> : t \in gone} /\ left \in SUBSET (EventsOf(s) \X TagNumbers)
    BY <1>1
  <2> PICK block : block = Advertised(ix.block, left, e, {tag})
    OBVIOUS
  <2>3. block = Blocks(left)
    BY <1>1, <2>1, <2>2, BlocksLeft
  <2> PICK rest : rest = [ix EXCEPT !.members = left, !.block = block]
    OBVIOUS
  <2>4. rest.members = left /\ rest.block = Blocks(left)
    BY <2>3, IndexFields DEF IsIndex
  <2>5. TagIds(rest, e) = {t \in TagNumbers : <<e, t>> \in left}
    BY <1>0, <2>2, <2>4
  <2> PICK bare \in BOOLEAN : bare <=> TagIds(rest, e) = {}
    OBVIOUS
  <2>6. bare <=> \A t \in TagNumbers : <<e, t>> \in ix.members => t \in gone
    BY <2>5
  <2>7. IsIndex(s, [members |-> left,
                    any |-> IF bare THEN ix.any \ {e} ELSE ix.any,
                    freeAny |-> IF bare THEN ix.freeAny \ DeathsOf(s, {e}) ELSE ix.freeAny,
                    block |-> Advertised(ix.block, left, e, gone),
                    count |-> Counted(s, ix.count, e, gone \cup (IF bare THEN {0} ELSE {}), -1),
                    tagged |-> IF bare THEN ix.tagged - 1 ELSE ix.tagged])
    <3>1. gone \in SUBSET TagNumbers /\ gone # {} /\ \A t \in gone : <<e, t>> \in ix.members
      BY <2>1
    <3> QED
      BY <2>2, <2>6, <3>1, FewerExact
  <2>8. RemoveTag(s, ix, e, tag) =
          [members |-> left,
           any |-> IF bare THEN ix.any \ {e} ELSE ix.any,
           freeAny |-> IF bare THEN ix.freeAny \ DeathsOf(s, {e}) ELSE ix.freeAny,
           block |-> Advertised(ix.block, left, e, gone),
           count |-> Counted(s, ix.count, e, gone \cup (IF bare THEN {0} ELSE {}), -1),
           tagged |-> IF bare THEN ix.tagged - 1 ELSE ix.tagged]
    BY <1>3 DEF RemoveTag
  <2> QED
    BY <2>7, <2>8
<1> QED
  BY <1>2, <1>3

LEMMA EmptyExact == \A s : IsTrace(s) => IsIndex(s, EmptyIndex)
<1> SUFFICES ASSUME NEW s, IsTrace(s) PROVE IsIndex(s, EmptyIndex)
  OBVIOUS
<1>1. Carriers({}) = {} /\ DeathsOf(s, {}) = {} /\ {<<BlockOf(m[1]), m[2]>> : m \in {}} = {}
  BY DEF Carriers, DeathsOf
<1>2. Cardinality({}) = 0
  BY FS_EmptySet
<1>3. ASSUME NEW tag \in 0..MaxTags
      PROVE  (IF tag = 0 THEN Cardinality({} \cap CreatorsOf(s))
              ELSE Cardinality({e \in CreatorsOf(s) : <<e, tag>> \in {}})) = 0
  <2>1. {} \cap CreatorsOf(s) = {} /\ {e \in CreatorsOf(s) : <<e, tag>> \in {}} = {}
    OBVIOUS
  <2> QED
    BY <1>2, <2>1
<1>4. Rebuilt(s, {}) = EmptyIndex
  BY <1>1, <1>2, <1>3 DEF Rebuilt, EmptyIndex
<1>5. EmptyIndex.members = {}
  BY DEF EmptyIndex
<1> QED
  BY <1>4, <1>5 DEF IsIndex, Exact

-----------------------------------------------------------------------------
(***************************************************************************)
(* Documents: every accepted change leads to one the engine accepts.       *)
(***************************************************************************)
Clean(d) == Untouched \notin {d.allocations[e] : e \in DOMAIN d.allocations}

Good(d, s) == IsDocument(d) /\ Valid(d, s) /\ Clean(d)

\* What an allocation's entry may say in a document with these tags.
Sayings(tagIds) ==
    {v \in Entries : v.name # BadText /\ v.color # BadText /\ v.tags \subseteq tagIds}

\* A good document is good entries of creators, and good tags and bookmarks.
LEMMA GoodIs ==
    ASSUME NEW s, NEW d, IsDocument(d)
    PROVE  Good(d, s) <=>
              /\ Cardinality(DOMAIN d.tags) <= MaxTags
              /\ \A id \in DOMAIN d.tags : d.tags[id] # BadText
              /\ \A id \in DOMAIN d.bookmarks : d.bookmarks[id] <= Len(s.op)
              /\ \A e \in DOMAIN d.allocations :
                    /\ e \in CreatorsOf(s)
                    /\ d.allocations[e] \in Sayings(DOMAIN d.tags) \ {Untouched}
<1>1. Clean(d) <=> \A e \in DOMAIN d.allocations : d.allocations[e] # Untouched
  BY DEF Clean
<1>2. \A e \in DOMAIN d.allocations : d.allocations[e] \in Entries
  BY DEF IsDocument
<1> QED
  BY <1>1, <1>2 DEF Good, Valid, Creator, Tagging, Sayings

LEMMA UntouchedSays == \A ids : Untouched \in Sayings(ids)
  BY TextAssumption DEF Untouched, Sayings, Entries

LEMMA EntrySays ==
    ASSUME NEW s, NEW d, Good(d, s), NEW e
    PROVE  Entry(d, e) \in Sayings(DOMAIN d.tags)
BY GoodIs, UntouchedSays DEF Entry, Good

\* Another map of allocations in a good document.
LEMMA OtherAllocations ==
    ASSUME NEW s, NEW d, Good(d, s), NEW A \in SUBSET CreatorsOf(s),
           NEW f \in [A -> Sayings(DOMAIN d.tags) \ {Untouched}]
    PROVE  Good([d EXCEPT !.allocations = f], s)
<1> PICK new : new = [d EXCEPT !.allocations = f]
  OBVIOUS
<1>1. IsDocument(d)
  BY DEF Good
<1>2. /\ DOMAIN new = {"revision", "allocations", "tags", "bookmarks", "marks"}
      /\ new.allocations = f /\ new.tags = d.tags /\ new.bookmarks = d.bookmarks
      /\ new.revision = d.revision
  BY <1>1 DEF IsDocument
<1>3. f \in [DOMAIN f -> Entries] /\ DOMAIN f = A
  BY DEF Sayings
<1>4. IsDocument(new)
  BY <1>1, <1>2, <1>3 DEF IsDocument
<1>5. Good(new, s)
  BY <1>1, <1>2, <1>3, <1>4, GoodIs
<1> QED
  BY <1>5

LEMMA SetGood ==
    ASSUME NEW s, NEW d, Good(d, s), NEW e \in CreatorsOf(s), NEW v \in Sayings(DOMAIN d.tags)
    PROVE  Good(Set(d, e, v), s)
<1> PICK A : A = DOMAIN d.allocations
  OBVIOUS
<1>1. d.allocations \in [A -> Sayings(DOMAIN d.tags) \ {Untouched}] /\ A \in SUBSET CreatorsOf(s)
  BY GoodIs DEF Good, IsDocument
<1>2. CASE v = Untouched
  <2> PICK f : f = Without(d.allocations, {e})
    OBVIOUS
  <2>1. f \in [A \ {e} -> Sayings(DOMAIN d.tags) \ {Untouched}]
    BY <1>1 DEF Without
  <2>2. Set(d, e, v) = [d EXCEPT !.allocations = f]
    BY <1>2 DEF Set
  <2> QED
    BY <1>1, <2>1, <2>2, OtherAllocations
<1>3. CASE v # Untouched
  <2> PICK f : f = With(d.allocations, e, v)
    OBVIOUS
  <2>1. f \in [A \cup {e} -> Sayings(DOMAIN d.tags) \ {Untouched}]
    BY <1>1, <1>3 DEF With
  <2>2. Set(d, e, v) = [d EXCEPT !.allocations = f]
    BY <1>3 DEF Set
  <2> QED
    BY <1>1, <2>1, <2>2, OtherAllocations
<1> QED
  BY <1>2, <1>3

LEMMA MembersGood ==
    ASSUME NEW s, NEW d, Good(d, s), NEW id \in Ids, NEW creators \in SUBSET CreatorsOf(s),
           id \in DOMAIN d.tags \/ creators = {}
    PROVE  /\ Good(WithMembers(d, id, creators), s)
           /\ WithMembers(d, id, creators).tags = d.tags
           /\ \A e \in DOMAIN WithMembers(d, id, creators).allocations :
                 id \in WithMembers(d, id, creators).allocations[e].tags => e \in creators
<1> PICK A : A = DOMAIN d.allocations \cup creators
  OBVIOUS
<1> PICK told : told = [e \in A |-> [Entry(d, e) EXCEPT !.tags = IF e \in creators THEN @ \cup {id} ELSE @ \ {id}]]
  OBVIOUS
<1> PICK kept : kept = {e \in A : told[e] # Untouched}
  OBVIOUS
<1> PICK f : f = Pruned(told)
  OBVIOUS
<1>1. A \in SUBSET CreatorsOf(s)
  BY GoodIs DEF Good
<1>2. ASSUME NEW e \in A
      PROVE  told[e] \in Sayings(DOMAIN d.tags) /\ (id \in told[e].tags => e \in creators)
  <2> PICK v : v = Entry(d, e)
    OBVIOUS
  <2>1. v \in Sayings(DOMAIN d.tags)
    BY EntrySays
  <2>2. told[e] = [v EXCEPT !.tags = IF e \in creators THEN @ \cup {id} ELSE @ \ {id}]
    OBVIOUS
  <2>3. told[e] = [name |-> v.name, color |-> v.color,
                   tags |-> IF e \in creators THEN v.tags \cup {id} ELSE v.tags \ {id}]
    BY <2>1, <2>2 DEF Sayings, Entries
  <2> QED
    BY <2>1, <2>3 DEF Sayings, Entries
<1>3. f = [e \in kept |-> told[e]]
  BY DEF Pruned, Without
<1>4. f \in [kept -> Sayings(DOMAIN d.tags) \ {Untouched}]
  BY <1>2, <1>3
<1>5. WithMembers(d, id, creators) = [d EXCEPT !.allocations = f]
  BY DEF WithMembers
<1>6. kept \in SUBSET CreatorsOf(s)
  BY <1>1
<1>7. Good([d EXCEPT !.allocations = f], s)
  BY <1>4, <1>6, OtherAllocations
<1>8. [d EXCEPT !.allocations = f].allocations = f /\ [d EXCEPT !.allocations = f].tags = d.tags
  BY DEF Good, IsDocument
<1>9. DOMAIN f = kept /\ \A e \in kept : id \in f[e].tags => e \in creators
  BY <1>2, <1>3
<1> PICK new : new = [d EXCEPT !.allocations = f]
  OBVIOUS
<1>10. new.allocations = f /\ new.tags = d.tags /\ Good(new, s)
  BY <1>7, <1>8
<1>11. WithMembers(d, id, creators) = new
  BY <1>5
<1> QED
  BY <1>9, <1>10, <1>11

\* Another map of tags, of bookmarks, or another set of marks.
LEMMA OtherTags ==
    ASSUME NEW s, NEW d, Good(d, s), NEW ids \in SUBSET Ids, IsFiniteSet(ids),
           Cardinality(ids) <= MaxTags, NEW f \in [ids -> Names \ {BadText}],
           \A e \in DOMAIN d.allocations : d.allocations[e].tags \subseteq ids
    PROVE  Good([d EXCEPT !.tags = f], s)
<1> PICK new : new = [d EXCEPT !.tags = f]
  OBVIOUS
<1>1. IsDocument(d)
  BY DEF Good
<1>2. /\ DOMAIN new = {"revision", "allocations", "tags", "bookmarks", "marks"}
      /\ new.allocations = d.allocations /\ new.tags = f /\ new.bookmarks = d.bookmarks
      /\ new.revision = d.revision
  BY <1>1 DEF IsDocument
<1>3. IsDocument(new)
  BY <1>1, <1>2 DEF IsDocument
<1>4. \A e \in DOMAIN d.allocations :
         e \in CreatorsOf(s) /\ d.allocations[e] \in Sayings(ids) \ {Untouched}
  BY <1>1, GoodIs DEF Sayings
<1>5. Good(new, s)
  BY <1>1, <1>2, <1>3, <1>4, GoodIs
<1> QED
  BY <1>5

LEMMA OtherBookmarks ==
    ASSUME NEW s, NEW d, Good(d, s), NEW D, NEW f \in [D -> Nat], \A id \in D : f[id] <= Len(s.op)
    PROVE  Good([d EXCEPT !.bookmarks = f], s)
<1> PICK new : new = [d EXCEPT !.bookmarks = f]
  OBVIOUS
<1>1. IsDocument(d)
  BY DEF Good
<1>2. /\ DOMAIN new = {"revision", "allocations", "tags", "bookmarks", "marks"}
      /\ new.allocations = d.allocations /\ new.tags = d.tags /\ new.bookmarks = f
      /\ new.revision = d.revision
  BY <1>1 DEF IsDocument
<1>3. IsDocument(new)
  BY <1>1, <1>2 DEF IsDocument
<1>4. Good(new, s)
  BY <1>1, <1>2, <1>3, GoodIs
<1> QED
  BY <1>4

\* The marks and the revision carry no condition.
LEMMA OtherMarks ==
    ASSUME NEW s, NEW d, Good(d, s), NEW new, IsDocument(new),
           new.allocations = d.allocations, new.tags = d.tags, new.bookmarks = d.bookmarks
    PROVE  Good(new, s)
BY GoodIs DEF Good

LEMMA TagGood ==
    ASSUME NEW s, NEW d, Good(d, s), NEW id \in Ids, NEW name \in Names \ {BadText},
           Tagging(d, {id}) \/ Cardinality(DOMAIN d.tags) < MaxTags
    PROVE  Good([d EXCEPT !.tags = With(@, id, name)], s)
<1> PICK ids : ids = DOMAIN d.tags \cup {id}
  OBVIOUS
<1> PICK f : f = With(d.tags, id, name)
  OBVIOUS
<1>1. /\ d.tags \in [DOMAIN d.tags -> Names] /\ DOMAIN d.tags \subseteq Ids
      /\ IsFiniteSet(DOMAIN d.tags) /\ Cardinality(DOMAIN d.tags) <= MaxTags
      /\ \A i \in DOMAIN d.tags : d.tags[i] # BadText
  BY GoodIs DEF Good, IsDocument
<1>2. ids \in SUBSET Ids /\ f \in [ids -> Names \ {BadText}]
  BY <1>1 DEF With
<1>3. IsFiniteSet(ids) /\ Cardinality(ids) <= MaxTags
  <2>1. CASE id \in DOMAIN d.tags
    <3>1. ids = DOMAIN d.tags
      BY <2>1
    <3> QED
      BY <1>1, <3>1
  <2>2. CASE id \notin DOMAIN d.tags
    <3>1. IsFiniteSet(ids) /\ Cardinality(ids) = Cardinality(DOMAIN d.tags) + 1
      BY <1>1, <2>2, FS_AddElement
    <3>2. Cardinality(DOMAIN d.tags) < MaxTags
      BY <2>2 DEF Tagging
    <3>3. Cardinality(DOMAIN d.tags) \in Nat
      BY <1>1, FS_CardinalityType
    <3> QED
      BY <3>1, <3>2, <3>3, TagAssumption
  <2> QED
    BY <2>1, <2>2
<1>4. \A e \in DOMAIN d.allocations : d.allocations[e].tags \subseteq ids
  BY GoodIs DEF Good, Sayings
<1>5. [d EXCEPT !.tags = With(@, id, name)] = [d EXCEPT !.tags = f]
  OBVIOUS
<1> QED
  BY <1>2, <1>3, <1>4, <1>5, OtherTags

LEMMA WithoutTagGood ==
    ASSUME NEW s, NEW d, Good(d, s), NEW id \in Ids
    PROVE  Good(WithoutTag(d, id), s)
<1> PICK new : new = WithMembers(d, id, {})
  OBVIOUS
<1>1. /\ Good(new, s) /\ new.tags = d.tags
      /\ \A e \in DOMAIN new.allocations : id \notin new.allocations[e].tags
  <2>1. \A creators \in SUBSET CreatorsOf(s) : creators = {} =>
           /\ Good(WithMembers(d, id, creators), s)
           /\ WithMembers(d, id, creators).tags = d.tags
           /\ \A e \in DOMAIN WithMembers(d, id, creators).allocations :
                 id \in WithMembers(d, id, creators).allocations[e].tags => e \in creators
    BY MembersGood
  <2> QED
    BY <2>1
<1> PICK ids : ids = DOMAIN d.tags \ {id}
  OBVIOUS
<1> PICK f : f = Without(d.tags, {id})
  OBVIOUS
<1>2. /\ d.tags \in [DOMAIN d.tags -> Names] /\ DOMAIN d.tags \subseteq Ids
      /\ IsFiniteSet(DOMAIN d.tags) /\ Cardinality(DOMAIN d.tags) <= MaxTags
      /\ \A i \in DOMAIN d.tags : d.tags[i] # BadText
  BY GoodIs DEF Good, IsDocument
<1>3. ids \in SUBSET Ids /\ f \in [ids -> Names \ {BadText}]
  BY <1>2 DEF Without
<1>4. IsFiniteSet(ids) /\ Cardinality(ids) <= MaxTags
  <2>1. ids \in SUBSET DOMAIN d.tags
    OBVIOUS
  <2>2. IsFiniteSet(ids) /\ Cardinality(ids) <= Cardinality(DOMAIN d.tags)
    BY <1>2, <2>1, FS_Subset
  <2>3. Cardinality(ids) \in Nat /\ Cardinality(DOMAIN d.tags) \in Nat
    BY <1>2, <2>2, FS_CardinalityType
  <2> QED
    BY <1>2, <2>2, <2>3, TagAssumption
<1>5. \A e \in DOMAIN new.allocations : new.allocations[e].tags \subseteq ids
  BY <1>1, GoodIs DEF Good, Sayings
<1>6. WithoutTag(d, id) = [new EXCEPT !.tags = f]
  BY <1>1 DEF WithoutTag
<1> QED
  BY <1>1, <1>3, <1>4, <1>5, <1>6, OtherTags

LEMMA ChangeGood ==
    ASSUME NEW s, Len(s.op) \in Nat, NEW d, Good(d, s), NEW c \in Changes, Accepts(d, s, c)
    PROVE  Good(Changed(d, c), s)
<1>0. IsDocument(d)
  BY DEF Good
<1>1. CASE c.type = "setAllocationName"
  <2>1. c.name \in Names \cup {None}
    BY <1>1 DEF Changes
  <2>2. c.creator \in CreatorsOf(s) /\ c.name # BadText
    BY <1>1 DEF Accepts, Creator
  <2> PICK v : v = Entry(d, c.creator)
    OBVIOUS
  <2>3. v \in Sayings(DOMAIN d.tags)
    BY EntrySays
  <2>4. [v EXCEPT !.name = c.name] \in Sayings(DOMAIN d.tags)
    BY <2>1, <2>2, <2>3 DEF Sayings, Entries
  <2>5. Changed(d, c) = Set(d, c.creator, [v EXCEPT !.name = c.name])
    BY <1>1 DEF Changed
  <2> QED
    BY <2>2, <2>4, <2>5, SetGood
<1>2. CASE c.type = "setAllocationColor"
  <2>1. c.color \in Colors \cup {None}
    BY <1>2 DEF Changes
  <2>2. c.creator \in CreatorsOf(s) /\ c.color # BadText
    BY <1>2 DEF Accepts, Creator
  <2> PICK v : v = Entry(d, c.creator)
    OBVIOUS
  <2>3. v \in Sayings(DOMAIN d.tags)
    BY EntrySays
  <2>4. [v EXCEPT !.color = c.color] \in Sayings(DOMAIN d.tags)
    BY <2>1, <2>2, <2>3 DEF Sayings, Entries
  <2>5. Changed(d, c) = Set(d, c.creator, [v EXCEPT !.color = c.color])
    BY <1>2 DEF Changed
  <2> QED
    BY <2>2, <2>4, <2>5, SetGood
<1>3. CASE c.type = "setAllocationTag"
  <2>1. c.tagId \in Ids
    BY <1>3 DEF Changes
  <2>2. c.creator \in CreatorsOf(s) /\ c.tagId \in DOMAIN d.tags
    BY <1>3 DEF Accepts, Creator, Tagging
  <2> PICK v : v = Entry(d, c.creator)
    OBVIOUS
  <2>3. v \in Sayings(DOMAIN d.tags)
    BY EntrySays
  <2> PICK ids : ids = IF c.present THEN v.tags \cup {c.tagId} ELSE v.tags \ {c.tagId}
    OBVIOUS
  <2>4. [v EXCEPT !.tags = ids] \in Sayings(DOMAIN d.tags)
    BY <2>1, <2>2, <2>3 DEF Sayings, Entries
  <2>5. Changed(d, c) = Set(d, c.creator, [v EXCEPT !.tags = ids])
    BY <1>3 DEF Changed
  <2> QED
    BY <2>2, <2>4, <2>5, SetGood
<1>4. CASE c.type = "replaceAllocationTags"
  <2>1. c.tagIds \in SUBSET Ids
    BY <1>4 DEF Changes
  <2>2. c.creator \in CreatorsOf(s) /\ c.tagIds \subseteq DOMAIN d.tags
    BY <1>4 DEF Accepts, Creator, Tagging
  <2> PICK v : v = Entry(d, c.creator)
    OBVIOUS
  <2>3. v \in Sayings(DOMAIN d.tags)
    BY EntrySays
  <2>4. [v EXCEPT !.tags = c.tagIds] \in Sayings(DOMAIN d.tags)
    BY <2>1, <2>2, <2>3 DEF Sayings, Entries
  <2>5. Changed(d, c) = Set(d, c.creator, [v EXCEPT !.tags = c.tagIds])
    BY <1>4 DEF Changed
  <2> QED
    BY <2>2, <2>4, <2>5, SetGood
<1>5. CASE c.type = "replaceTagMembers"
  <2>1. c.tagId \in Ids
    BY <1>5 DEF Changes
  <2>2. c.creators \in SUBSET CreatorsOf(s) /\ c.tagId \in DOMAIN d.tags
    <3>1. c.creators \in SUBSET EventsOf(Trace)
      BY <1>5 DEF Changes
    <3> QED
      BY <1>5, <3>1 DEF Accepts, Creator, Tagging
  <2>3. Changed(d, c) = WithMembers(d, c.tagId, c.creators)
    BY <1>5 DEF Changed
  <2> QED
    BY <2>1, <2>2, <2>3, MembersGood
<1>6. CASE c.type = "putTag"
  <2>1. c.id \in Ids /\ c.name \in Names
    BY <1>6 DEF Changes
  <2>2. c.name # BadText /\ (Tagging(d, {c.id}) \/ Cardinality(DOMAIN d.tags) < MaxTags)
    BY <1>6 DEF Accepts
  <2>3. Changed(d, c) = [d EXCEPT !.tags = With(@, c.id, c.name)]
    BY <1>6 DEF Changed
  <2>4. Good([d EXCEPT !.tags = With(@, c.id, c.name)], s)
    <3>1. \A id \in Ids, name \in Names \ {BadText} :
             Tagging(d, {id}) \/ Cardinality(DOMAIN d.tags) < MaxTags
             => Good([d EXCEPT !.tags = With(@, id, name)], s)
      BY TagGood
    <3> QED
      BY <2>1, <2>2, <3>1, Zenon
  <2> QED
    BY <2>3, <2>4, Zenon
<1>7. CASE c.type = "deleteTag"
  <2>1. c.id \in Ids
    BY <1>7 DEF Changes
  <2>2. Changed(d, c) = WithoutTag(d, c.id)
    BY <1>7 DEF Changed
  <2> QED
    BY <2>1, <2>2, WithoutTagGood
<1>11. \A D : \A f \in [D -> Nat] : (\A id \in D : f[id] <= Len(s.op))
                                    => Good([d EXCEPT !.bookmarks = f], s)
  BY OtherBookmarks
<1>8. CASE c.type = "putBookmark"
  <2> PICK f : f = With(d.bookmarks, c.id, c.seq)
    OBVIOUS
  <2>1. c.seq \in Nat /\ c.seq <= Len(s.op)
    <3>1. c.seq \in 0..Len(Trace.op) + 1
      BY <1>8 DEF Changes
    <3> QED
      BY <1>8, <3>1 DEF Accepts
  <2> PICK D : D = DOMAIN d.bookmarks \cup {c.id}
    OBVIOUS
  <2>2. f \in [D -> Nat] /\ \A id \in D : f[id] <= Len(s.op)
    BY <1>0, <2>1, GoodIs DEF With, IsDocument
  <2>3. Changed(d, c) = [d EXCEPT !.bookmarks = f]
    BY <1>8 DEF Changed
  <2> QED
    BY <1>11, <2>2, <2>3, Zenon
<1>9. CASE c.type = "deleteBookmark"
  <2> PICK f : f = Without(d.bookmarks, {c.id})
    OBVIOUS
  <2>1. /\ f \in [DOMAIN d.bookmarks \ {c.id} -> Nat]
        /\ \A id \in DOMAIN d.bookmarks \ {c.id} : f[id] <= Len(s.op)
    BY <1>0, GoodIs DEF Without, IsDocument
  <2>2. PICK D : f \in [D -> Nat] /\ \A id \in D : f[id] <= Len(s.op)
    BY <2>1
  <2>3. Changed(d, c) = [d EXCEPT !.bookmarks = f]
    BY <1>9 DEF Changed
  <2> QED
    BY <1>11, <2>2, <2>3, Zenon
<1>10. CASE c.type \in {"putMark", "deleteMark"}
  <2> PICK marks : Changed(d, c) = [d EXCEPT !.marks = marks]
    BY <1>10 DEF Changed
  <2> PICK new : new = [d EXCEPT !.marks = marks]
    OBVIOUS
  <2>1. /\ IsDocument(new) /\ new.allocations = d.allocations
        /\ new.tags = d.tags /\ new.bookmarks = d.bookmarks
    BY <1>0 DEF IsDocument
  <2>2. Good(new, s)
    BY <2>1, OtherMarks
  <2> QED
    BY <2>2
<1> QED
  BY <1>1, <1>2, <1>3, <1>4, <1>5, <1>6, <1>7, <1>8, <1>9, <1>10 DEF Changes

-----------------------------------------------------------------------------
(***************************************************************************)
(* The document is good for the trace that is there.                       *)
(***************************************************************************)
DocInv == store \in {NoTrace, Trace} /\ Good(document, store)

\* What a change, a tag query and a whole document have in common.
NewDocument ==
    /\ Idle /\ Good(document', store)
    /\ Project(document')
    /\ UNCHANGED <<store, filter, direct, page>>

LEMMA StoreIs ==
    ASSUME store \in {NoTrace, Trace}
    PROVE  /\ IsTrace(store) /\ CreatorsOf(store) \in SUBSET EventsOf(store)
           /\ EventsOf(store) \in SUBSET EventsOf(Trace)
<1>1. EventsOf(NoTrace) = {}
  BY DEF EventsOf, NoTrace
<1>2. EventsOf(store) \in SUBSET EventsOf(Trace)
  BY <1>1
<1> QED
  BY <1>2, TracesAre DEF CreatorsOf

LEMMA ChangeStep ==
    ASSUME DocInv, NEW c \in Changes, ApplyChange(c)
    PROVE  NewDocument
<1> PICK d : d = Changed(document, c)
  OBVIOUS
<1>1. Good(d, store)
  <2>1. Len(store.op) \in Nat
    BY StoreIs DEF DocInv, IsTrace
  <2>2. Good(document, store) /\ Accepts(document, store, c)
    BY DEF DocInv, ApplyChange
  <2> QED
    BY <2>1, <2>2, ChangeGood
<1>2. document' = [d EXCEPT !.revision = @ + 1]
  BY DEF ApplyChange
<1>3. /\ IsDocument(document') /\ document'.allocations = d.allocations
      /\ document'.tags = d.tags /\ document'.bookmarks = d.bookmarks
  <2>1. IsDocument(d)
    BY <1>1 DEF Good
  <2> PICK new : new = document'
    OBVIOUS
  <2>2. new = [d EXCEPT !.revision = @ + 1]
    BY <1>2
  <2>3. /\ IsDocument(new) /\ new.allocations = d.allocations
        /\ new.tags = d.tags /\ new.bookmarks = d.bookmarks
    BY <2>1, <2>2 DEF IsDocument
  <2> QED
    BY <2>3
<1>4. Good(document', store)
  BY <1>1, <1>3, OtherMarks
<1> QED
  BY <1>4 DEF NewDocument, ApplyChange

LEMMA QueryStep ==
    ASSUME DocInv, NEW id \in Ids, NEW matched \in SUBSET CreatorsOf(store),
           NEW operation \in {"add", "remove", "replace"}, TagQuery(id, matched, operation)
    PROVE  NewDocument
<1> PICK previous : previous = Members(document, id)
  OBVIOUS
<1> PICK next : next = CASE operation = "add" -> previous \cup matched
                         [] operation = "remove" -> previous \ matched
                         [] operation = "replace" -> matched
  OBVIOUS
<1>1. previous \in SUBSET CreatorsOf(store)
  BY GoodIs DEF DocInv, Good, Members
<1>2. next \in SUBSET CreatorsOf(store)
  BY <1>1
<1>3. next \in SUBSET EventsOf(Trace)
  BY <1>2, StoreIs DEF DocInv
<1> PICK c : c = [type |-> "replaceTagMembers", tagId |-> id, creators |-> next]
  OBVIOUS
<1>4. c \in Changes
  BY <1>3 DEF Changes
<1>5. ApplyChange(c)
  BY DEF TagQuery
<1> QED
  BY <1>4, <1>5, ChangeStep

LEMMA ReplaceStep ==
    ASSUME DocInv, NEW d \in Stored, ReplaceAnalysis(d)
    PROVE  NewDocument
<1>1. Good(d, store)
  BY StoredAssumption DEF ReplaceAnalysis, Good, Clean
<1> QED
  BY <1>1 DEF ReplaceAnalysis, NewDocument

LEMMA EmptyGood == \A s \in {NoTrace, Trace} : Good(EmptyDocument, s)
<1>1. <<>> \in [{} -> Entries] /\ <<>> \in [{} -> Names] /\ <<>> \in [{} -> Nat] /\ DOMAIN <<>> = {}
  OBVIOUS
<1>2. IsFiniteSet({}) /\ Cardinality({}) = 0
  BY FS_EmptySet
<1>3. IsDocument(EmptyDocument)
  BY <1>1, <1>2 DEF IsDocument, EmptyDocument
<1>4. /\ DOMAIN EmptyDocument.tags = {} /\ DOMAIN EmptyDocument.bookmarks = {}
      /\ DOMAIN EmptyDocument.allocations = {}
  BY <1>1 DEF EmptyDocument
<1> PICK d : d = EmptyDocument
  OBVIOUS
<1>5. /\ DOMAIN d.tags = {} /\ DOMAIN d.bookmarks = {} /\ DOMAIN d.allocations = {}
      /\ IsDocument(d) /\ Cardinality(DOMAIN d.tags) <= MaxTags
  BY <1>2, <1>3, <1>4, TagAssumption
<1>6. \A s : Good(d, s)
  BY <1>5, GoodIs
<1> QED
  BY <1>6

\* The steps, seen from the document.
LEMMA DocSteps ==
    ASSUME DocInv, [AnalysisNext]_vars
    PROVE  \/ NewDocument
           \/ ParseBegin
           \/ ParseEnd
           \/ UNCHANGED <<store, document>>
<1>1. ASSUME MakeCall PROVE UNCHANGED <<store, document>>
  BY <1>1 DEF MakeCall, core
<1>2. ASSUME DirectCall PROVE UNCHANGED <<store, document>>
  BY <1>2 DEF DirectCall, SetEventTags, TagFilterMatches, TagRange, TagEvents, Retag,
              TagsClear, Bypass
<1>3. ASSUME EnsureTagIndex \/ EnsureFiltered \/ RefreshFilter PROVE UNCHANGED <<store, document>>
  BY <1>3 DEF EnsureTagIndex, EnsureFiltered, RefreshFilter, core
<1>4. ASSUME NEW source, ApplyFilter(source) PROVE UNCHANGED <<store, document>>
  BY <1>4 DEF ApplyFilter, core
<1>5. ASSUME NEW mode, SetMode(mode) PROVE UNCHANGED <<store, document>>
  BY <1>5 DEF SetMode, core
<1>6. ASSUME NEW given, ImportNames(given) \/ ImportLabels(given) PROVE UNCHANGED <<store, document>>
  BY <1>6 DEF ImportNames, ImportLabels, Bypass
<1>7. ASSUME UNCHANGED vars PROVE UNCHANGED <<store, document>>
  BY <1>7 DEF vars, core
<1> QED
  BY <1>1, <1>2, <1>3, <1>4, <1>5, <1>6, <1>7, ChangeStep, QueryStep, ReplaceStep DEF AnalysisNext

LEMMA DocStays ==
    ASSUME DocInv, [AnalysisNext]_vars
    PROVE  DocInv'
<1>1. CASE NewDocument
  BY <1>1 DEF DocInv, NewDocument
<1>2. CASE ParseBegin
  BY <1>2, EmptyGood DEF ParseBegin, DocInv
<1>3. CASE ParseEnd
  <2>1. store = NoTrace /\ store' = Trace /\ document' = document
    BY <1>3 DEF ParseEnd, DocInv, Loaded
  <2>2. CreatorsOf(NoTrace) = {} /\ Len(NoTrace.op) = 0 /\ Len(Trace.op) \in Nat
    BY TraceAssumption DEF CreatorsOf, EventsOf, NoTrace
  <2>3. IsDocument(document) /\ Good(document, NoTrace)
    BY <2>1 DEF DocInv, Good
  <2>4. /\ Cardinality(DOMAIN document.tags) <= MaxTags
        /\ \A id \in DOMAIN document.tags : document.tags[id] # BadText
        /\ \A id \in DOMAIN document.bookmarks : document.bookmarks[id] <= 0
        /\ DOMAIN document.allocations = {}
    BY <2>2, <2>3, GoodIs
  <2>5. \A id \in DOMAIN document.bookmarks : document.bookmarks[id] \in Nat
    BY <2>3 DEF IsDocument
  <2>6. Good(document, Trace)
    BY <2>2, <2>3, <2>4, <2>5, GoodIs
  <2> QED
    BY <2>1, <2>6 DEF DocInv
<1>4. CASE UNCHANGED <<store, document>>
  BY <1>4 DEF DocInv
<1> QED
  BY <1>1, <1>2, <1>3, <1>4, DocSteps

LEMMA DocInvariant == AnalysisSpec => []DocInv
<1>1. AnalysisInit => DocInv
  BY EmptyGood DEF AnalysisInit, DocInv
<1>2. DocInv /\ [AnalysisNext]_vars => DocInv'
  BY DocStays
<1> QED
  BY <1>1, <1>2, PTL DEF AnalysisSpec

\* Every document that changes, queries, imports and loads lead to is one the
\* engine accepts as a whole, without empty entries (Document::apply, validate).
THEOREM DocumentCorrect == AnalysisSpec => []DocumentRestorable
<1>1. DocInv => DocumentRestorable
  BY DEF DocInv, Good, Clean, DocumentRestorable
<1> QED
  BY <1>1, DocInvariant, PTL

-----------------------------------------------------------------------------
(***************************************************************************)
(* The tag index: exact after every call, the ones that a bulk operation   *)
(* still has to make being about events of the trace and tags there are.   *)
(***************************************************************************)
TodoInv ==
    \A c \in todo :
        /\ c.e \in EventsOf(store) /\ c.tag \in 0..MaxTags
        /\ c.call # "add" => c.to \in 0..MaxTags

IndexInv == IsIndex(store, index) /\ TodoInv

LEMMA AddTagExact ==
    ASSUME NEW s, IsTrace(s), NEW ix, IsIndex(s, ix), NEW e \in EventsOf(s), NEW tag \in 0..MaxTags
    PROVE  IsIndex(s, AddTag(s, ix, e, tag))
<1>1. CASE tag = 0
  BY <1>1, ClearExact DEF AddTag
<1>2. CASE tag # 0 /\ HasTag(ix, e, tag)
  BY <1>2 DEF AddTag
<1>3. CASE tag # 0 /\ ~HasTag(ix, e, tag)
  <2>1. tag \in TagNumbers
    BY <1>3 DEF TagNumbers
  <2> QED
    BY <1>3, <2>1, AddExact
<1> QED
  BY <1>1, <1>2, <1>3

LEMMA CallExact ==
    ASSUME IsTrace(store), IsIndex(store, index), NEW c, c.e \in EventsOf(store),
           c.tag \in 0..MaxTags, c.call # "add" => c.to \in 0..MaxTags
    PROVE  IsIndex(store, Called(c))
<1>1. CASE c.call = "add"
  BY <1>1, AddTagExact DEF Called
<1>2. CASE c.call # "add"
  <2> PICK removed : removed = RemoveTag(store, index, c.e, c.tag)
    OBVIOUS
  <2>1. IsIndex(store, removed)
    BY RemoveExact
  <2>2. c.to \in 0..MaxTags /\ Called(c) = IF c.to = 0 THEN removed ELSE AddTag(store, removed, c.e, c.to)
    BY <1>2 DEF Called
  <2>3. IsIndex(store, AddTag(store, removed, c.e, c.to))
    BY <2>1, <2>2, AddTagExact
  <2> QED
    BY <2>1, <2>2, <2>3
<1> QED
  BY <1>1, <1>2

\* The tags of a document have numbers, each its own.
LEMMA Numbers ==
    ASSUME NEW d, IsDocument(d), Cardinality(DOMAIN d.tags) <= MaxTags
    PROVE  /\ Cardinality(DOMAIN d.tags) \in Nat
           /\ \A id \in DOMAIN d.tags :
                 Number(d, id) \in 1..Cardinality(DOMAIN d.tags) /\ Number(d, id) \in TagNumbers
           /\ \A i, j \in DOMAIN d.tags : Number(d, i) = Number(d, j) => i = j
<1> PICK D : D = DOMAIN d.tags
  OBVIOUS
<1>1. D \in SUBSET Nat /\ IsFiniteSet(D) /\ Cardinality(D) <= MaxTags /\ Cardinality(D) \in Nat
  <2>1. D \in SUBSET Nat /\ IsFiniteSet(D) /\ Cardinality(D) <= MaxTags
    BY TextAssumption DEF IsDocument
  <2> QED
    BY <2>1, FS_CardinalityType
<1>2. \A S \in SUBSET D : IsFiniteSet(S) /\ Cardinality(S) \in Nat /\ Cardinality(S) <= Cardinality(D)
  <2> SUFFICES ASSUME NEW S \in SUBSET D
               PROVE  IsFiniteSet(S) /\ Cardinality(S) \in Nat /\ Cardinality(S) <= Cardinality(D)
    OBVIOUS
  <2>1. IsFiniteSet(S) /\ Cardinality(S) <= Cardinality(D)
    BY <1>1, FS_Subset
  <2> QED
    BY <2>1, FS_CardinalityType
<1>3. ASSUME NEW i \in D
      PROVE  Number(d, i) \in 1..Cardinality(D) /\ Number(d, i) \in TagNumbers
  <2> PICK below : below = {x \in D : x <= i}
    OBVIOUS
  <2>1. below \in SUBSET D /\ Number(d, i) = Cardinality(below) /\ i \in below
    BY <1>1 DEF Number
  <2>2. Cardinality(below) # 0
    BY <1>2, <2>1, FS_EmptySet
  <2> QED
    BY <1>1, <1>2, <2>1, <2>2, TagAssumption DEF TagNumbers
<1>4. ASSUME NEW i \in D, NEW j \in D, i < j
      PROVE  Number(d, i) < Number(d, j)
  <2> PICK below : below = {x \in D : x <= i}
    OBVIOUS
  <2> PICK upTo : upTo = {x \in D : x <= j}
    OBVIOUS
  <2>1. /\ below \in SUBSET upTo /\ upTo \in SUBSET D /\ j \in upTo /\ j \notin below
    BY <1>1, <1>4
  <2>2. Number(d, i) = Cardinality(below) /\ Number(d, j) = Cardinality(upTo)
    BY DEF Number
  <2>3. IsFiniteSet(upTo)
    BY <1>2, <2>1
  <2>4. Cardinality(below) < Cardinality(upTo)
    <3>1. below # upTo /\ below \in SUBSET upTo
      BY <2>1
    <3>2. IsFiniteSet(below) /\ Cardinality(below) <= Cardinality(upTo)
      BY <2>3, <3>1, FS_Subset
    <3>3. Cardinality(below) # Cardinality(upTo)
      BY <2>3, <3>1, FS_Subset
    <3>4. Cardinality(below) \in Nat /\ Cardinality(upTo) \in Nat
      BY <2>3, <3>2, FS_CardinalityType
    <3> QED
      BY <3>2, <3>3, <3>4
  <2> QED
    BY <2>2, <2>4
<1>5. ASSUME NEW i \in D, NEW j \in D, Number(d, i) = Number(d, j)
      PROVE  i = j
  <2>1. i \in Nat /\ j \in Nat /\ Number(d, i) \in Nat
    BY <1>1, <1>3 DEF TagNumbers
  <2>2. ~(i < j) /\ ~(j < i)
    BY <1>4, <1>5, <2>1
  <2> QED
    BY <2>1, <2>2
<1> QED
  BY <1>1, <1>3, <1>5

LEMMA MembershipsAre ==
    ASSUME NEW s, NEW d, Good(d, s)
    PROVE  /\ \A p : p \in Memberships(d) <=>
                 \E e \in DOMAIN d.allocations, id \in DOMAIN d.tags :
                     id \in d.allocations[e].tags /\ p = <<e, Number(d, id)>>
           /\ Memberships(d) \in SUBSET (CreatorsOf(s) \X TagNumbers)
<1>1. \A p : p \in Memberships(d) <=>
                 \E e \in DOMAIN d.allocations, id \in DOMAIN d.tags :
                     id \in d.allocations[e].tags /\ p = <<e, Number(d, id)>>
  <2> PICK Q : Q = {q \in (DOMAIN d.allocations) \X (DOMAIN d.tags) : q[2] \in d.allocations[q[1]].tags}
    OBVIOUS
  <2>1. Memberships(d) = {<<q[1], Number(d, q[2])>> : q \in Q}
    BY DEF Memberships
  <2>2. ASSUME NEW p \in Memberships(d)
        PROVE  \E e \in DOMAIN d.allocations, id \in DOMAIN d.tags :
                     id \in d.allocations[e].tags /\ p = <<e, Number(d, id)>>
    <3>1. PICK q \in Q : p = <<q[1], Number(d, q[2])>>
      BY <2>1
    <3>2. q[1] \in DOMAIN d.allocations /\ q[2] \in DOMAIN d.tags /\ q[2] \in d.allocations[q[1]].tags
      OBVIOUS
    <3> QED
      BY <3>1, <3>2
  <2>3. ASSUME NEW e \in DOMAIN d.allocations, NEW id \in DOMAIN d.tags, id \in d.allocations[e].tags
        PROVE  <<e, Number(d, id)>> \in Memberships(d)
    <3> PICK q : q = <<e, id>>
      OBVIOUS
    <3>1. q \in Q /\ q[1] = e /\ q[2] = id
      BY <2>3
    <3> QED
      BY <2>1, <3>1
  <2> QED
    BY <2>2, <2>3
<1>2. \A e \in DOMAIN d.allocations : e \in CreatorsOf(s)
  BY GoodIs DEF Good
<1>3. \A id \in DOMAIN d.tags : Number(d, id) \in TagNumbers
  BY Numbers, GoodIs DEF Good
<1> QED
  BY <1>1, <1>2, <1>3

LEMMA AddsAre ==
    ASSUME NEW pairs, NEW A, NEW B, pairs \in SUBSET (A \X B)
    PROVE  \A c \in Adds(pairs) : /\ c.call = "add" /\ c.e \in A /\ c.tag \in B
                                  /\ <<c.e, c.tag>> \in pairs
<1> SUFFICES ASSUME NEW c \in Adds(pairs)
             PROVE  c.call = "add" /\ c.e \in A /\ c.tag \in B /\ <<c.e, c.tag>> \in pairs
  OBVIOUS
<1>1. PICK p \in pairs : c = [call |-> "add", e |-> p[1], tag |-> p[2]]
  BY DEF Adds
<1>2. p = <<p[1], p[2]>> /\ p[1] \in A /\ p[2] \in B
  OBVIOUS
<1> QED
  BY <1>1, <1>2

LEMMA TagCalls ==
    \A pairs \in SUBSET (EventsOf(store) \X (0..MaxTags)) : \A c \in Adds(pairs) :
        c.call = "add" /\ c.e \in EventsOf(store) /\ c.tag \in 0..MaxTags
BY AddsAre

LEMMA ClampedTag == \A tag \in 0..MaxTags + 1 : Clamped(tag) \in 0..MaxTags
  BY TagAssumption DEF Clamped

\* Tag calls on some creators.
LEMMA TagEventsStep ==
    ASSUME DocInv, IndexInv, NEW events, NEW tag \in 0..MaxTags + 1, TagEvents(events, tag)
    PROVE  IndexInv' /\ UNCHANGED <<store, index, lists>>
<1>1. UNCHANGED <<store, index, lists>>
  BY DEF TagEvents, Bypass
<1> PICK pairs : pairs = (events \cap CreatorsOf(store)) \X {Clamped(tag)}
  OBVIOUS
<1>2. todo' = Adds(pairs)
  BY DEF TagEvents
<1>3. pairs \in SUBSET (EventsOf(store) \X (0..MaxTags))
  BY ClampedTag, StoreIs DEF DocInv
<1>4. \A c \in todo' : c.call = "add" /\ c.e \in EventsOf(store) /\ c.tag \in 0..MaxTags
  BY <1>2, <1>3, TagCalls, Zenon
<1> QED
  BY <1>1, <1>4 DEF IndexInv, TodoInv

\* The steps, seen from the tag index and its lists.
TagStep ==
    \/ MakeCall
    \/ NewDocument
    \/ \E e \in EventsOf(Trace), numbers \in SUBSET (0..MaxTags) : SetEventTags(e, numbers)
    \/ \E tag \in 0..MaxTags + 1 : \E events : TagEvents(events, tag)
    \/ \E from, to \in 0..MaxTags + 1 : Retag(from, to)
    \/ TagsClear
    \/ EnsureTagIndex
    \/ ParseBegin
    \/ ParseEnd
    \/ UNCHANGED <<store, index, lists, todo>>

LEMMA TagSteps ==
    ASSUME DocInv, [AnalysisNext]_vars
    PROVE  TagStep
<1>1. ASSUME DirectCall PROVE TagStep
  <2>1. ASSUME NEW tag \in 0..MaxTags + 1, NEW events, TagEvents(events, tag)
        PROVE  TagStep
    BY <2>1 DEF TagStep
  <2>2. ASSUME NEW tag \in 0..MaxTags + 1, TagFilterMatches(tag)
        PROVE  TagStep
    BY <2>1, <2>2 DEF TagFilterMatches
  <2>3. ASSUME NEW tag \in 0..MaxTags + 1, NEW lo, NEW hi, NEW byFree, TagRange(lo, hi, tag, byFree)
        PROVE  TagStep
    BY <2>1, <2>3 DEF TagRange
  <2>4. ASSUME NEW tag \in 0..MaxTags + 1, NEW to \in 0..MaxTags + 1, Retag(tag, to)
        PROVE  TagStep
    BY <2>4 DEF TagStep
  <2>5. ASSUME NEW e \in EventsOf(Trace), NEW numbers \in SUBSET (0..MaxTags), SetEventTags(e, numbers)
        PROVE  TagStep
    BY <2>5 DEF TagStep
  <2>6. ASSUME TagsClear PROVE TagStep
    BY <2>6 DEF TagStep
  <2> QED
    BY <1>1, <2>1, <2>2, <2>3, <2>4, <2>5, <2>6 DEF DirectCall
<1>2. ASSUME EnsureFiltered \/ RefreshFilter PROVE TagStep
  BY <1>2 DEF EnsureFiltered, RefreshFilter, tags, TagStep
<1>3. ASSUME NEW source, ApplyFilter(source) PROVE TagStep
  BY <1>3 DEF ApplyFilter, tags, TagStep
<1>4. ASSUME NEW mode, SetMode(mode) PROVE TagStep
  BY <1>4 DEF SetMode, tags, TagStep
<1>5. ASSUME NEW given, ImportNames(given) \/ ImportLabels(given) PROVE TagStep
  BY <1>5 DEF ImportNames, ImportLabels, Bypass, tags, TagStep
<1>6. ASSUME UNCHANGED vars PROVE TagStep
  BY <1>6 DEF vars, tags, TagStep
<1>7. ASSUME NewDocument \/ MakeCall \/ EnsureTagIndex \/ ParseBegin \/ ParseEnd PROVE TagStep
  BY <1>7 DEF TagStep
<1> QED
  BY <1>1, <1>2, <1>3, <1>4, <1>5, <1>6, <1>7, ChangeStep, QueryStep, ReplaceStep DEF AnalysisNext

LEMMA IndexStays ==
    ASSUME DocInv, DocInv', IndexInv, TagStep
    PROVE  IndexInv'
<1>0. IsTrace(store) /\ IsTrace(store')
  BY StoreIs, TracesAre DEF DocInv
<1>1. CASE MakeCall
  <2>1. PICK c \in todo : index' = Called(c) /\ todo' = todo \ {c} /\ store' = store
    BY <1>1 DEF MakeCall
  <2>2. IsIndex(store, Called(c))
    BY <1>0, <2>1, CallExact DEF IndexInv, TodoInv
  <2> QED
    BY <2>1, <2>2 DEF IndexInv, TodoInv
<1>2. CASE NewDocument
  <2>1. index' = EmptyIndex /\ todo' = Adds(Memberships(document')) /\ store' = store
    BY <1>2 DEF NewDocument, Project, ClearTags
  <2>2. Memberships(document') \in SUBSET (CreatorsOf(store) \X TagNumbers)
    <3>1. Good(document', store)
      BY <1>2 DEF NewDocument
    <3> QED
      BY <3>1, MembershipsAre
  <2>3. \A c \in todo' : c.call = "add" /\ c.e \in CreatorsOf(store) /\ c.tag \in TagNumbers
    BY <2>1, <2>2, AddsAre
  <2>4. TagNumbers \subseteq 0..MaxTags /\ CreatorsOf(store) \subseteq EventsOf(store)
    BY StoreIs DEF TagNumbers, DocInv
  <2>5. IsIndex(store', index')
    BY <1>0, <2>1, EmptyExact
  <2> QED
    BY <2>1, <2>3, <2>4, <2>5 DEF IndexInv, TodoInv
<1>3. CASE \E e \in EventsOf(Trace), numbers \in SUBSET (0..MaxTags) : SetEventTags(e, numbers)
  <2> PICK e \in EventsOf(Trace), numbers \in SUBSET (0..MaxTags) : SetEventTags(e, numbers)
    BY <1>3
  <2> PICK pairs : pairs = {e} \X (numbers \ {0})
    OBVIOUS
  <2>1. /\ index' = ClearEventTags(store, index, e) /\ todo' = Adds(pairs)
        /\ store' = store /\ e \in EventsOf(store)
    BY DEF SetEventTags, Bypass, Loaded
  <2>2. IsIndex(store, index')
    BY <1>0, <2>1, ClearExact DEF IndexInv
  <2>3. pairs \in SUBSET (EventsOf(store) \X (0..MaxTags))
    BY <2>1
  <2>4. \A c \in todo' : c.call = "add" /\ c.e \in EventsOf(store) /\ c.tag \in 0..MaxTags
    BY <2>1, <2>3, TagCalls, Zenon
  <2> QED
    BY <2>1, <2>2, <2>4 DEF IndexInv, TodoInv
<1>4. CASE \E tag \in 0..MaxTags + 1 : \E events : TagEvents(events, tag)
  BY <1>4, TagEventsStep
<1>5. CASE \E from, to \in 0..MaxTags + 1 : Retag(from, to)
  <2> PICK from \in 0..MaxTags + 1, to \in 0..MaxTags + 1 : Retag(from, to)
    BY <1>5
  <2>1. UNCHANGED <<store, index>>
    BY DEF Retag, Bypass
  <2>2. \A c \in todo' : /\ c.e \in EventsOf(store) /\ c.tag = Clamped(from) /\ c.to = Clamped(to)
    BY DEF Retag
  <2> QED
    BY <2>1, <2>2, ClampedTag DEF IndexInv, TodoInv
<1>6. CASE TagsClear
  <2>1. index' = EmptyIndex /\ UNCHANGED <<store, todo>>
    BY <1>6 DEF TagsClear, ClearTags, Bypass
  <2>2. IsIndex(store', index')
    BY <1>0, <2>1, EmptyExact
  <2> QED
    BY <2>1, <2>2 DEF IndexInv, TodoInv
<1>7. CASE EnsureTagIndex
  BY <1>7 DEF EnsureTagIndex, IndexInv, TodoInv
<1>8. CASE ParseBegin \/ ParseEnd
  <2>1. index' = EmptyIndex /\ todo' = {}
    BY <1>8 DEF ParseBegin, ParseEnd, Idle
  <2>2. IsIndex(store', index')
    BY <1>0, <2>1, EmptyExact
  <2> QED
    BY <2>1, <2>2 DEF IndexInv, TodoInv
<1>9. CASE UNCHANGED <<store, index, lists, todo>>
  BY <1>9 DEF IndexInv, TodoInv
<1> QED
  BY <1>1, <1>2, <1>3, <1>4, <1>5, <1>6, <1>7, <1>8, <1>9 DEF TagStep

LEMMA IndexInvariant == AnalysisSpec => []IndexInv
<1>1. AnalysisInit => IndexInv
  BY EmptyExact, TracesAre DEF AnalysisInit, IndexInv, TodoInv
<1>2. DocInv /\ DocInv' /\ IndexInv /\ [AnalysisNext]_vars => IndexInv'
  BY TagSteps, IndexStays
<1> QED
  BY <1>1, <1>2, DocInvariant, PTL DEF AnalysisSpec

\* After every tag call, the derived indexes and counters are what a rebuild
\* from the memberships would give (D009, assert_tag_indexes).
THEOREM IndexCorrect == AnalysisSpec => []DerivedExact
<1>1. IndexInv => DerivedExact
  BY DEF IndexInv, IsIndex, DerivedExact
<1> QED
  BY <1>1, IndexInvariant, PTL

-----------------------------------------------------------------------------
(***************************************************************************)
(* The lists of tagged events: whatever changes the index marks them.      *)
(***************************************************************************)
ListInv ==
    /\ lists \in [allocs : {lists.allocs}, frees : {lists.frees}, dirty : BOOLEAN]
    /\ ListsCurrent

LEMMA Flag ==
    ASSUME NEW a \in BOOLEAN, NEW x, NEW y
    PROVE  \E b \in BOOLEAN : b = (a \/ x # y) /\ (~b => ~a /\ x = y)
<1>1. CASE a \/ x # y
  <2>1. TRUE = (a \/ x # y)
    BY <1>1
  <2> QED
    BY <2>1, Zenon
<1>2. CASE ~(a \/ x # y)
  <2>1. FALSE = (a \/ x # y)
    BY <1>2
  <2> QED
    BY <1>2, <2>1, Zenon
<1> QED
  BY <1>1, <1>2

\* A call that marks the lists exactly when the index changed.
LEMMA MarkedStep ==
    ASSUME ListInv, store' = store, lists' = [lists EXCEPT !.dirty = @ \/ index' # index]
    PROVE  ListInv'
<1> PICK b \in BOOLEAN : b = (lists.dirty \/ index' # index) /\ (~b => ~lists.dirty /\ index' = index)
  <2>1. lists.dirty \in BOOLEAN
    BY DEF ListInv
  <2> QED
    BY <2>1, Flag
<1>1. lists' = [lists EXCEPT !.dirty = b]
  BY Zenon
<1>2. lists' = [allocs |-> lists.allocs, frees |-> lists.frees, dirty |-> b]
  BY <1>1 DEF ListInv
<1>3. CASE b
  BY <1>2, <1>3 DEF ListInv, ListsCurrent
<1>4. CASE ~b
  <2>1. ~lists.dirty /\ index' = index
    BY <1>4, Zenon
  <2> QED
    BY <1>2, <2>1 DEF ListInv, ListsCurrent
<1> QED
  BY <1>3, <1>4

LEMMA ListsStay ==
    ASSUME DocInv, DocInv', IndexInv, ListInv, TagStep
    PROVE  ListInv'
<1>0. ASSUME lists' = [lists EXCEPT !.dirty = TRUE] PROVE ListInv'
  <2>1. lists' = [allocs |-> lists.allocs, frees |-> lists.frees, dirty |-> TRUE]
    BY <1>0 DEF ListInv
  <2> QED
    BY <2>1 DEF ListInv, ListsCurrent
<1>00. ASSUME UNCHANGED <<store, index, lists>> PROVE ListInv'
  BY <1>00 DEF ListInv, ListsCurrent
<1>1. CASE MakeCall
  <2>1. store' = store /\ lists' = [lists EXCEPT !.dirty = @ \/ index' # index]
    BY <1>1 DEF MakeCall
  <2> QED
    BY <2>1, MarkedStep
<1>2. CASE NewDocument
  BY <1>0, <1>2 DEF NewDocument, Project
<1>3. CASE \E e \in EventsOf(Trace), numbers \in SUBSET (0..MaxTags) : SetEventTags(e, numbers)
  <2>1. store' = store /\ lists' = [lists EXCEPT !.dirty = @ \/ index' # index]
    BY <1>3 DEF SetEventTags, Bypass
  <2> QED
    BY <2>1, MarkedStep
<1>4. CASE \E tag \in 0..MaxTags + 1 : \E events : TagEvents(events, tag)
  BY <1>00, <1>4, TagEventsStep
<1>5. CASE \E from, to \in 0..MaxTags + 1 : Retag(from, to)
  BY <1>00, <1>5 DEF Retag, Bypass
<1>6. CASE TagsClear
  BY <1>0, <1>6 DEF TagsClear
<1>7. CASE EnsureTagIndex
  <2>1. /\ lists' = [allocs |-> index.any \cap CreatorsOf(store), frees |-> index.freeAny, dirty |-> FALSE]
        /\ store' = store /\ index' = index
    BY <1>7 DEF EnsureTagIndex
  <2>2. index.any = Carriers(index.members) /\ index.freeAny = DeathsOf(store, Carriers(index.members))
    BY IndexFields DEF IndexInv, IsIndex
  <2> QED
    BY <2>1, <2>2 DEF ListInv, ListsCurrent
<1>8. CASE ParseBegin \/ ParseEnd
  <2>1. index' = EmptyIndex /\ lists' = NoLists
    BY <1>8 DEF ParseBegin, ParseEnd
  <2>2. EmptyIndex.members = {} /\ Carriers({}) = {} /\ \A s : DeathsOf(s, {}) = {}
    BY DEF EmptyIndex, Carriers, DeathsOf
  <2> QED
    BY <2>1, <2>2 DEF ListInv, ListsCurrent, NoLists
<1>9. CASE UNCHANGED <<store, index, lists, todo>>
  BY <1>00, <1>9
<1> QED
  BY <1>1, <1>2, <1>3, <1>4, <1>5, <1>6, <1>7, <1>8, <1>9 DEF TagStep

\* The lists that the timeline reads are those of the index, or marked
\* (ensure_tag_index).
THEOREM ListsCorrect == AnalysisSpec => []ListsCurrent
<1>1. AnalysisInit => ListInv
  <2>1. EmptyIndex.members = {} /\ Carriers({}) = {} /\ \A s : DeathsOf(s, {}) = {}
    BY DEF EmptyIndex, Carriers, DeathsOf
  <2> SUFFICES ASSUME AnalysisInit PROVE ListInv
    OBVIOUS
  <2>2. index = EmptyIndex /\ lists = NoLists
    BY DEF AnalysisInit
  <2>3. Carriers(index.members) = {} /\ DeathsOf(store, Carriers(index.members)) = {}
    BY <2>1, <2>2
  <2> QED
    BY <2>2, <2>3 DEF ListInv, ListsCurrent, NoLists
<1>2. DocInv /\ DocInv' /\ IndexInv /\ ListInv /\ [AnalysisNext]_vars => ListInv'
  BY TagSteps, ListsStay
<1>3. ListInv => ListsCurrent
  BY DEF ListInv
<1> QED
  BY <1>1, <1>2, <1>3, DocInvariant, IndexInvariant, PTL DEF AnalysisSpec

-----------------------------------------------------------------------------
(***************************************************************************)
(* The filtered list of events.  While a trace is loading nothing is       *)
(* filtered, so that what was listed of the trace before is not read.      *)
(***************************************************************************)
RowInv ==
    /\ rows \in [events : {rows.events}, dirty : BOOLEAN]
    /\ ~Loaded => filter.mode = Off
    /\ RowsCurrent

LEMMA RowsStay ==
    ASSUME DocInv, RowInv, [AnalysisNext]_vars
    PROVE  RowInv'
<1>1. ASSUME UNCHANGED <<store, filter, rows>> PROVE RowInv'
  BY <1>1 DEF RowInv, RowsCurrent, Listed, Pass, Loaded
<1>2. ASSUME rows' = [rows EXCEPT !.dirty = TRUE], ~Loaded' => filter'.mode = Off
      PROVE  RowInv'
  <2>1. rows' = [events |-> rows.events, dirty |-> TRUE]
    BY <1>2 DEF RowInv
  <2> QED
    BY <1>2, <2>1 DEF RowInv, RowsCurrent
<1>3. ASSUME UNCHANGED <<store, filter>>, rows' = [rows EXCEPT !.dirty = TRUE]
      PROVE  RowInv'
  BY <1>2, <1>3 DEF RowInv, Loaded
<1>4. CASE MakeCall
  BY <1>1, <1>4 DEF MakeCall, view
<1>5. CASE NewDocument
  BY <1>3, <1>5 DEF NewDocument, Project
<1>6. CASE DirectCall
  BY <1>3, <1>6 DEF DirectCall, SetEventTags, TagFilterMatches, TagRange, TagEvents, Retag,
                    TagsClear, Bypass, Unlisted
<1>7. CASE EnsureTagIndex
  BY <1>1, <1>7 DEF EnsureTagIndex, view
<1>8. CASE EnsureFiltered
  BY <1>8 DEF EnsureFiltered, RowInv, RowsCurrent, Listed, Pass, Loaded
<1>9. ASSUME NEW source, FilterBy(source), store' = store
      PROVE  RowInv'
  <2>1. filter'.mode \in {filter.mode, Off}
    BY <1>9 DEF FilterBy, NoFilter
  <2>2. rows' = [rows EXCEPT !.dirty = TRUE]
    BY <1>9 DEF FilterBy
  <2> QED
    BY <1>2, <1>9, <2>1, <2>2 DEF RowInv, Loaded
<1>10. ASSUME NEW source, ApplyFilter(source) PROVE RowInv'
  BY <1>9, <1>10 DEF ApplyFilter
<1>11. ASSUME NEW mode, SetMode(mode) PROVE RowInv'
  BY <1>2, <1>11 DEF SetMode, Loaded
<1>12. ASSUME NEW given, ImportNames(given) \/ ImportLabels(given) PROVE RowInv'
  BY <1>1, <1>12 DEF ImportNames, ImportLabels, Bypass
<1>13. CASE RefreshFilter
  BY <1>1, <1>9, <1>13 DEF RefreshFilter, view
<1>14. CASE ParseBegin
  <2>1. rows' = rows /\ filter'.mode = Off
    BY <1>14 DEF ParseBegin, NoFilter
  <2> QED
    BY <2>1 DEF RowInv, RowsCurrent
<1>15. CASE ParseEnd
  BY <1>15 DEF ParseEnd, RowInv, RowsCurrent, Loaded
<1>16. CASE UNCHANGED vars
  BY <1>1, <1>16 DEF vars, view
<1> QED
  BY <1>4, <1>5, <1>6, <1>7, <1>8, <1>10, <1>11, <1>12, <1>13, <1>14, <1>15, <1>16,
     ChangeStep, QueryStep, ReplaceStep DEF AnalysisNext

\* What the events panel reads is what the filter and the trace give now, or
\* marked for a rebuild, across loads (ensure_ev_filtered).
THEOREM RowsCorrect == AnalysisSpec => []RowsCurrent
<1>1. AnalysisInit => RowInv
  BY DEF AnalysisInit, RowInv, RowsCurrent, NoFilter
<1>2. DocInv /\ RowInv /\ [AnalysisNext]_vars => RowInv'
  BY RowsStay
<1>3. RowInv => RowsCurrent
  BY DEF RowInv
<1> QED
  BY <1>1, <1>2, <1>3, DocInvariant, PTL DEF AnalysisSpec

-----------------------------------------------------------------------------
(***************************************************************************)
(* The projection.  While the calls of a projection are being made, the    *)
(* memberships made and the ones to be made are those of the document.     *)
(***************************************************************************)
ProjInv ==
    derived =>
        /\ names = NamesOf(document)
        /\ labels = LabelsOf(document)
        /\ \A c \in todo : c.call = "add"
        /\ \A p : p \in Memberships(document) <=>
                    p \in index.members \/ \E c \in todo : p = <<c.e, c.tag>>

\* A good document of a trace without events says nothing about allocations.
LEMMA NothingSaid ==
    ASSUME NEW d, IsDocument(d), DOMAIN d.allocations = {}
    PROVE  Memberships(d) = {} /\ NamesOf(d) = {}
BY DEF Memberships, NamesOf

LEMMA EmptyLabels == LabelsOf(EmptyDocument) = <<>> /\ DOMAIN EmptyDocument.allocations = {}
<1>1. Cardinality({}) = 0 /\ DOMAIN <<>> = {}
  BY FS_EmptySet
<1>2. EmptyDocument.tags = <<>> /\ EmptyDocument.allocations = <<>>
  BY DEF EmptyDocument
<1>3. 1..Cardinality(DOMAIN EmptyDocument.tags) = {}
  BY <1>1, <1>2
<1> PICK D : D = 1..Cardinality(DOMAIN EmptyDocument.tags)
  OBVIOUS
<1>4. LabelsOf(EmptyDocument) =
        [n \in D |-> EmptyDocument.tags[CHOOSE id \in DOMAIN EmptyDocument.tags : Number(EmptyDocument, id) = n]]
  BY DEF LabelsOf
<1> QED
  BY <1>1, <1>2, <1>3, <1>4

LEMMA ProjectionStays ==
    ASSUME DocInv, DocInv', IndexInv, ProjInv, [AnalysisNext]_vars
    PROVE  ProjInv'
<1>1. ASSUME UNCHANGED <<index, todo, document, names, labels, derived>> PROVE ProjInv'
  BY <1>1 DEF ProjInv
<1>2. CASE MakeCall
  <2>1. PICK c \in todo : /\ index' = Called(c) /\ todo' = todo \ {c}
                          /\ UNCHANGED <<document, names, labels, derived>>
    BY <1>2 DEF MakeCall, core, bypassed
  <2> SUFFICES ASSUME derived PROVE ProjInv'
    BY <2>1 DEF ProjInv
  <2>2. c.call = "add" /\ <<c.e, c.tag>> \in Memberships(document)
    BY DEF ProjInv
  <2>3. c.tag # 0
    <3>1. Memberships(document) \in SUBSET (CreatorsOf(store) \X TagNumbers)
      BY MembershipsAre DEF DocInv
    <3> QED
      BY <2>2, <3>1 DEF TagNumbers
  <2>4. index'.members = index.members \cup {<<c.e, c.tag>>}
    BY <2>1, <2>2, <2>3 DEF Called, AddTag, HasTag
  <2>5. \A p : (p \in index'.members \/ \E d \in todo' : p = <<d.e, d.tag>>)
               <=> (p \in index.members \/ \E d \in todo : p = <<d.e, d.tag>>)
    BY <2>1, <2>4
  <2> QED
    BY <2>1, <2>5 DEF ProjInv
<1>3. CASE NewDocument
  <2>1. /\ index' = EmptyIndex /\ todo' = Adds(Memberships(document'))
        /\ names' = NamesOf(document') /\ labels' = LabelsOf(document')
    BY <1>3 DEF NewDocument, Project, ClearTags
  <2>2. index'.members = {}
    BY <2>1 DEF EmptyIndex
  <2> PICK pairs : pairs = Memberships(document')
    OBVIOUS
  <2>3. pairs \in SUBSET (CreatorsOf(store) \X TagNumbers)
    <3>1. Good(document', store)
      BY <1>3 DEF NewDocument
    <3> QED
      BY <3>1, MembershipsAre
  <2>4. \A c \in todo' : c.call = "add" /\ <<c.e, c.tag>> \in pairs
    BY <2>1, <2>3, AddsAre
  <2>5. ASSUME NEW p \in pairs PROVE \E c \in todo' : p = <<c.e, c.tag>>
    <3>1. [call |-> "add", e |-> p[1], tag |-> p[2]] \in todo'
      BY <2>1 DEF Adds
    <3>2. p = <<p[1], p[2]>>
      BY <2>3
    <3> QED
      BY <3>1, <3>2
  <2> QED
    BY <2>1, <2>2, <2>4, <2>5 DEF ProjInv
<1>4. CASE DirectCall
  <2>1. derived' = FALSE
    BY <1>4 DEF DirectCall, SetEventTags, TagFilterMatches, TagRange, TagEvents, Retag,
                TagsClear, Bypass
  <2> QED
    BY <2>1 DEF ProjInv
<1>5. CASE EnsureTagIndex \/ EnsureFiltered \/ RefreshFilter
  BY <1>1, <1>5 DEF EnsureTagIndex, EnsureFiltered, RefreshFilter, tags, core, bypassed
<1>6. ASSUME NEW source, ApplyFilter(source) PROVE ProjInv'
  BY <1>1, <1>6 DEF ApplyFilter, tags, core, bypassed
<1>7. ASSUME NEW mode, SetMode(mode) PROVE ProjInv'
  BY <1>1, <1>7 DEF SetMode, tags, core, bypassed
<1>8. ASSUME NEW given, ImportNames(given) \/ ImportLabels(given) PROVE ProjInv'
  <2>1. derived' = FALSE
    BY <1>8 DEF ImportNames, ImportLabels, Bypass
  <2> QED
    BY <2>1 DEF ProjInv
<1>9. CASE ParseBegin
  <2>1. /\ index' = EmptyIndex /\ todo' = {} /\ document' = EmptyDocument
        /\ names' = {} /\ labels' = <<>>
    BY <1>9 DEF ParseBegin, Idle
  <2>2. IsDocument(document')
    BY DEF DocInv, Good
  <2>3. Memberships(document') = {} /\ NamesOf(document') = {} /\ LabelsOf(document') = <<>>
    BY <2>1, <2>2, NothingSaid, EmptyLabels
  <2>4. index'.members = {}
    BY <2>1 DEF EmptyIndex
  <2> QED
    BY <2>1, <2>3, <2>4 DEF ProjInv
<1>10. CASE ParseEnd
  <2>1. /\ index' = EmptyIndex /\ todo' = {} /\ todo = {} /\ names' = {}
        /\ UNCHANGED <<document, labels, derived>> /\ store = NoTrace
    BY <1>10 DEF ParseEnd, Idle, SendNames, bypassed, DocInv, Loaded
  <2>2. DOMAIN document.allocations = {} /\ IsDocument(document)
    <3>1. CreatorsOf(NoTrace) = {}
      BY DEF CreatorsOf, EventsOf, NoTrace
    <3> QED
      BY <2>1, <3>1, GoodIs DEF DocInv, Good
  <2>3. Memberships(document) = {} /\ NamesOf(document) = {}
    BY <2>2, NothingSaid
  <2>4. index'.members = {}
    BY <2>1 DEF EmptyIndex
  <2> QED
    BY <2>1, <2>3, <2>4 DEF ProjInv
<1>11. CASE UNCHANGED vars
  BY <1>1, <1>11 DEF vars, tags, core, bypassed
<1> QED
  BY <1>2, <1>3, <1>4, <1>5, <1>6, <1>7, <1>8, <1>9, <1>10, <1>11,
     ChangeStep, QueryStep, ReplaceStep DEF AnalysisNext

LEMMA Projected ==
    ASSUME DocInv, IndexInv, ProjInv, derived, Idle
    PROVE  ProjectionExact
<1> PICK d : d = document
  OBVIOUS
<1>0. Good(d, store) /\ IsDocument(d) /\ Cardinality(DOMAIN d.tags) <= MaxTags
  BY GoodIs DEF DocInv, Good
<1>1. /\ index.members = Memberships(d) /\ names = NamesOf(d) /\ labels = LabelsOf(d)
      /\ CreatorsOf(store) \in SUBSET EventsOf(store)
  BY StoreIs DEF ProjInv, Idle, DocInv
<1>2. /\ Cardinality(DOMAIN d.tags) \in Nat
      /\ \A id \in DOMAIN d.tags :
            Number(d, id) \in 1..Cardinality(DOMAIN d.tags) /\ Number(d, id) \in TagNumbers
      /\ \A i, j \in DOMAIN d.tags : Number(d, i) = Number(d, j) => i = j
  BY <1>0, Numbers
<1>3. \A p : p \in Memberships(d) <=>
                 \E e \in DOMAIN d.allocations, id \in DOMAIN d.tags :
                     id \in d.allocations[e].tags /\ p = <<e, Number(d, id)>>
  BY <1>0, MembershipsAre
<1>4. \A e \in DOMAIN d.allocations : e \in CreatorsOf(store) /\ d.allocations[e].tags \subseteq DOMAIN d.tags
  BY <1>0, GoodIs DEF Sayings
<1>5. ASSUME NEW id \in DOMAIN d.tags
      PROVE  {e \in EventsOf(store) : HasTag(index, e, Number(d, id))} = Members(d, id)
  <2>1. \A e : HasTag(index, e, Number(d, id)) <=> <<e, Number(d, id)>> \in Memberships(d)
    BY <1>1, <1>2 DEF HasTag, TagNumbers
  <2>2. \A e : <<e, Number(d, id)>> \in Memberships(d)
               <=> e \in DOMAIN d.allocations /\ id \in d.allocations[e].tags
    <3> SUFFICES ASSUME NEW e
                 PROVE  <<e, Number(d, id)>> \in Memberships(d)
                        <=> e \in DOMAIN d.allocations /\ id \in d.allocations[e].tags
      OBVIOUS
    <3>1. ASSUME <<e, Number(d, id)>> \in Memberships(d)
          PROVE  e \in DOMAIN d.allocations /\ id \in d.allocations[e].tags
      <4>1. PICK f \in DOMAIN d.allocations, i \in DOMAIN d.tags :
                    i \in d.allocations[f].tags /\ <<e, Number(d, id)>> = <<f, Number(d, i)>>
        BY <1>3, <3>1
      <4>2. e = f /\ id = i
        BY <1>2, <4>1
      <4> QED
        BY <4>1, <4>2
    <3> QED
      BY <1>3, <3>1
  <2> QED
    BY <1>1, <1>4, <2>1, <2>2 DEF Members
<1>6. ASSUME NEW tag \in TagNumbers, tag > Len(labels)
      PROVE  TagCounts(store, index)[tag] = 0
  <2>1. Len(labels) = Cardinality(DOMAIN d.tags)
    BY <1>1, <1>2 DEF LabelsOf
  <2>2. CarriersOf(store, index.members, tag) = {}
    <3>1. ASSUME NEW e, <<e, tag>> \in Memberships(d) PROVE FALSE
      <4>1. PICK f \in DOMAIN d.allocations, i \in DOMAIN d.tags : <<e, tag>> = <<f, Number(d, i)>>
        BY <1>3, <3>1
      <4>2. tag = Number(d, i)
        BY <4>1
      <4> QED
        BY <1>2, <1>6, <2>1, <4>2 DEF TagNumbers
    <3> QED
      BY <1>1, <3>1 DEF CarriersOf
  <2>3. /\ index.count \in [0..MaxTags -> {index.count[t] : t \in 0..MaxTags}]
        /\ \A t \in TagNumbers : index.count[t] = Cardinality(CarriersOf(store, index.members, t))
    BY IndexFields DEF IndexInv, IsIndex
  <2>4. index.count[tag] = 0
    BY <2>2, <2>3, FS_EmptySet
  <2>5. tag \in 0..MaxTags /\ tag # 0
    BY DEF TagNumbers
  <2> QED
    BY <2>3, <2>4, <2>5 DEF TagCounts
<1>7. ASSUME NEW id \in DOMAIN d.tags
      PROVE  labels[Number(d, id)] = d.tags[id]
  <2> PICK n \in 1..Cardinality(DOMAIN d.tags) : n = Number(d, id)
    BY <1>2
  <2>1. (CHOOSE i \in DOMAIN d.tags : Number(d, i) = n) = id
    BY <1>2
  <2>2. labels[n] = d.tags[CHOOSE i \in DOMAIN d.tags : Number(d, i) = n]
    BY <1>1 DEF LabelsOf
  <2> QED
    BY <2>1, <2>2
<1>8. ASSUME NEW e \in CreatorsOf(store)
      PROVE  e \notin {n[1] : n \in names} <=> Entry(d, e).name = None
  <2>1. \A n : n \in names <=> \E f \in DOMAIN d.allocations :
                                  d.allocations[f].name # None /\ n = <<f, d.allocations[f].name>>
    BY <1>1 DEF NamesOf
  <2>2. e \in {n[1] : n \in names} <=> e \in DOMAIN d.allocations /\ d.allocations[e].name # None
    <3>1. ASSUME NEW n \in names, e = n[1]
          PROVE  e \in DOMAIN d.allocations /\ d.allocations[e].name # None
      BY <2>1, <3>1
    <3>2. ASSUME e \in DOMAIN d.allocations, d.allocations[e].name # None
          PROVE  e \in {n[1] : n \in names}
      <4> PICK n : n = <<e, d.allocations[e].name>>
        OBVIOUS
      <4>1. n \in names /\ n[1] = e
        BY <2>1, <3>2
      <4> QED
        BY <4>1
    <3> QED
      BY <3>1, <3>2
  <2>3. Untouched.name = None
    BY DEF Untouched
  <2> QED
    BY <2>2, <2>3 DEF Entry
<1> QED
  BY <1>5, <1>6, <1>7, <1>8 DEF ProjectionExact

\* Between two calls the engine's index, names and labels say what the document
\* says, whatever bypassed it before (project_analysis).
THEOREM ProjectionCorrect == AnalysisSpec => []ProjectionExact
<1>1. AnalysisInit => ProjInv
  <2> SUFFICES ASSUME AnalysisInit PROVE ProjInv
    OBVIOUS
  <2>1. /\ index = EmptyIndex /\ todo = {} /\ document = EmptyDocument
        /\ names = {} /\ labels = <<>>
    BY DEF AnalysisInit
  <2>2. IsDocument(document)
    BY <2>1, EmptyGood DEF Good
  <2>3. Memberships(document) = {} /\ NamesOf(document) = {} /\ LabelsOf(document) = <<>>
    BY <2>1, <2>2, NothingSaid, EmptyLabels
  <2>4. index.members = {}
    BY <2>1 DEF EmptyIndex
  <2> QED
    BY <2>1, <2>3, <2>4 DEF ProjInv
<1>2. DocInv /\ DocInv' /\ IndexInv /\ ProjInv /\ [AnalysisNext]_vars => ProjInv'
  BY ProjectionStays
<1>3. DocInv /\ IndexInv /\ ProjInv => ProjectionExact
  BY Projected DEF ProjectionExact
<1> QED
  BY <1>1, <1>2, <1>3, DocInvariant, IndexInvariant, PTL DEF AnalysisSpec
=============================================================================
