------------------------------ MODULE TagIndex ------------------------------
(***************************************************************************)
(* Which allocation carries which tag (core/store.rs, D009).  members is   *)
(* the owner of that relation; everything else in an index is derived from *)
(* it and maintained call by call:                                         *)
(*   any, freeAny  the events with a tag, and the events that free them,   *)
(*   block         which tags occur in which block of events,              *)
(*   count         tagged creators per tag, and at 0 those with any tag,   *)
(*   tagged        the number of events with a tag.                        *)
(* A bitset is the set of its members, and a vector that was not allocated *)
(* yet the empty set.  Events are numbered from 1, and 0 is NONE_U32.      *)
(***************************************************************************)
EXTENDS Integers, FiniteSets, Sequences

CONSTANTS
    MaxTags,        \* the largest tag number (255)
    BlockSize       \* events in a block (64)

ASSUME TagAssumption == MaxTags \in Nat \ {0} /\ BlockSize \in Nat \ {0}

TagNumbers == 1..MaxTags
Clamped(tag) == IF tag > MaxTags THEN MaxTags ELSE tag

EventsOf(s) == 1..Len(s.op)
CreatorsOf(s) == {e \in EventsOf(s) : s.op[e] \in {"M", "R"}}
DeathsOf(s, events) == {s.death[e] : e \in events} \ {0}
BlockOf(e) == (e - 1) \div BlockSize

EmptyIndex ==
    [members |-> {}, any |-> {}, freeAny |-> {}, block |-> {},
     count |-> [tag \in 0..MaxTags |-> 0], tagged |-> 0]

HasTag(ix, e, tag) ==
    IF tag = 0 THEN e \notin ix.any ELSE <<e, tag>> \in ix.members

TagIds(ix, e) ==
    {tag \in TagNumbers : <<BlockOf(e), tag>> \in ix.block /\ HasTag(ix, e, tag)}

\* Mutant: the block is cleared with the event's bit.
AdvertisedNoMore(block, members, e, tags) == block \ {<<BlockOf(e), tag>> : tag \in tags}

\* What a block goes on advertising after e lost the given tags.
Advertised(block, members, e, tags) ==
    block \ {<<BlockOf(e), tag>> : tag \in
                {t \in tags : ~\E m \in members : BlockOf(m[1]) = BlockOf(e) /\ m[2] = t}}

Counted(s, count, e, tags, by) ==
    IF e \in CreatorsOf(s)
    THEN [tag \in 0..MaxTags |-> IF tag \in tags THEN count[tag] + by ELSE count[tag]]
    ELSE count

ClearEventTags(s, ix, e) ==
    IF e \notin ix.any THEN ix
    ELSE LET gone == TagIds(ix, e)
             left == ix.members \ {<<e, tag>> : tag \in gone}
         IN  [members |-> left,
              any |-> ix.any \ {e},
              freeAny |-> ix.freeAny \ DeathsOf(s, {e}),
              block |-> Advertised(ix.block, left, e, gone),
              count |-> Counted(s, ix.count, e, gone \cup {0}, -1),
              tagged |-> ix.tagged - 1]

AddTag(s, ix, e, tag) ==
    IF tag = 0 THEN ClearEventTags(s, ix, e)
    ELSE IF HasTag(ix, e, tag) THEN ix
    ELSE LET first == e \notin ix.any
         IN  [members |-> ix.members \cup {<<e, tag>>},
              any |-> ix.any \cup {e},
              freeAny |-> IF first THEN ix.freeAny \cup DeathsOf(s, {e}) ELSE ix.freeAny,
              block |-> ix.block \cup {<<BlockOf(e), tag>>},
              count |-> Counted(s, ix.count, e, {tag} \cup (IF first THEN {0} ELSE {}), 1),
              tagged |-> IF first THEN ix.tagged + 1 ELSE ix.tagged]

RemoveTag(s, ix, e, tag) ==
    IF tag = 0 \/ ~HasTag(ix, e, tag) THEN ix
    ELSE LET left == ix.members \ {<<e, tag>>}
             block == Advertised(ix.block, left, e, {tag})
             bare == TagIds([ix EXCEPT !.members = left, !.block = block], e) = {}
         IN  [members |-> left,
              any |-> IF bare THEN ix.any \ {e} ELSE ix.any,
              freeAny |-> IF bare THEN ix.freeAny \ DeathsOf(s, {e}) ELSE ix.freeAny,
              block |-> block,
              count |-> Counted(s, ix.count, e, {tag} \cup (IF bare THEN {0} ELSE {}), -1),
              tagged |-> IF bare THEN ix.tagged - 1 ELSE ix.tagged]

\* tag_counts: at 0 the creators without a tag.
TagCounts(s, ix) == [ix.count EXCEPT ![0] = Cardinality(CreatorsOf(s)) - @]

-----------------------------------------------------------------------------
(***************************************************************************)
(* The index that the memberships alone determine (assert_tag_indexes).    *)
(***************************************************************************)
Carriers(members) == {m[1] : m \in members}

Rebuilt(s, members) ==
    LET any == Carriers(members)
    IN  [members |-> members,
         any |-> any,
         freeAny |-> DeathsOf(s, any),
         block |-> {<<BlockOf(m[1]), m[2]>> : m \in members},
         count |-> [tag \in 0..MaxTags |->
                       IF tag = 0 THEN Cardinality(any \cap CreatorsOf(s))
                       ELSE Cardinality({e \in CreatorsOf(s) : <<e, tag>> \in members})],
         tagged |-> Cardinality(any)]

Exact(s, ix) == ix = Rebuilt(s, ix.members)
=============================================================================
