------------------------------ MODULE MCFilter ------------------------------
(* Small traces and the expressions tried on them. *)
EXTENDS FilterPipeline, FilterSyntax, FilterPlan, FilterSpelling

Texts == [a |-> <<1>>, ab |-> <<1, 2>>, b |-> <<2>>, ba |-> <<2, 1>>, zz |-> <<9, 9>>]

-----------------------------------------------------------------------------
(* Traces: four or five events, so that blocks of two events are cut       *)
(* between an allocation and the record that ends it.                      *)

None4 == [e \in 0..3 |-> None]
NoFields == [key \in {} |-> <<>>]

\* Sites, threads, usable sizes, custom fields on both records, tags and a name.
Rich ==
    [op    |-> 0 :> "M" @@ 1 :> "M" @@ 2 :> "R" @@ 3 :> "F" @@ 4 :> "M",
     id    |-> 0 :> 1 @@ 1 :> 2 @@ 2 :> 1 @@ 3 :> 2 @@ 4 :> 1,
     addr  |-> 0 :> 0 @@ 1 :> 3 @@ 2 :> 5 @@ 3 :> 3 @@ 4 :> 7,
     size  |-> 0 :> 2 @@ 1 :> 0 @@ 2 :> 2 @@ 3 :> 0 @@ 4 :> 3,
     t     |-> 0 :> 0 @@ 1 :> 2 @@ 2 :> 2 @@ 3 :> 4 @@ 4 :> 5,
     death |-> 0 :> 2 @@ 1 :> 3 @@ 2 :> None @@ 3 :> None @@ 4 :> None,
     usable |-> 0 :> 3 @@ 1 :> 0 @@ 2 :> 1 @@ 3 :> 0 @@ 4 :> 0,
     site  |-> 0 :> 1 @@ 1 :> None @@ 2 :> 2 @@ 3 :> None @@ 4 :> 1,
     thr   |-> 0 :> 1 @@ 1 :> 2 @@ 2 :> None @@ 3 :> None @@ 4 :> 1,
     stack |-> 0 :> None @@ 1 :> 1 @@ 2 :> None @@ 3 :> None @@ 4 :> 1,
     extra |-> 0 :> 1 @@ 1 :> 2 @@ 2 :> 3 @@ 3 :> 4 @@ 4 :> None,
     sites |-> <<"ab", "b">>, thrs |-> <<0, 3>>, stacks |-> <<"ba">>,
     extras |-> << << <<"n", IntNum(2)>>, <<"s", StringVal("a")>>, <<"hot", BoolVal(TRUE)>> >>,
                   << <<"n", FloatNum(5)>>, <<"s", [t |-> "Null"]>>, <<"hot", BoolVal(FALSE)>> >>,
                   << <<"s", StringVal("ab")>>, <<"s", StringVal("b")>>, <<"mixed", IntNum(1)>> >>,
                   << <<"s", StringVal("ab")>>, <<"hot", BoolVal(TRUE)>>, <<"n", IntNum(2)>>,
                      <<"mixed", StringVal("a")>> >> >>,
     tags  |-> 1 :> {0, 2} @@ 2 :> {1, 2} @@ 3 :> {},
     labels |-> <<"a", "b", "zz">>,
     names |-> << <<2, "a">>, <<0, "b">>, <<1, "b">> >>,
     unit  |-> "us", fields |-> NoFields]

\* No optional column, no dictionary, no tags, and a clock without a unit.
Bare ==
    [op    |-> 0 :> "M" @@ 1 :> "C" @@ 2 :> "M" @@ 3 :> "F",
     id    |-> 0 :> 1 @@ 1 :> 0 @@ 2 :> 2 @@ 3 :> 1,
     addr  |-> 0 :> 6 @@ 1 :> 0 @@ 2 :> 1 @@ 3 :> 6,
     size  |-> 0 :> 4 @@ 1 :> 0 @@ 2 :> 1 @@ 3 :> 4,
     t     |-> 0 :> 1 @@ 1 :> 1 @@ 2 :> 3 @@ 3 :> 3,
     death |-> 0 :> 3 @@ 1 :> None @@ 2 :> None @@ 3 :> None,
     usable |-> <<>>, site |-> None4, thr |-> None4, stack |-> <<>>, extra |-> <<>>,
     sites |-> <<>>, thrs |-> <<>>, stacks |-> <<>>, extras |-> <<>>,
     tags  |-> <<>>, labels |-> <<>>, names |-> << <<0, "a">> >>,
     unit  |-> "tick", fields |-> NoFields]

Traces == {Rich, Bare}

-----------------------------------------------------------------------------
(* Expressions. *)

Of(ns, name)   == Field(Identifier(ns), name)
Custom(ns, key) == Field(Of(ns, "fields"), key)
I(n)         == Integer(n, "none")
Ref(label)     == Call(Identifier("named"), <<String(label)>>)
Nth(id)        == Call(Identifier("allocation"), <<I(id)>>)
Fn(name, x)    == Call(Identifier(name), <<x>>)
Says(x, name, y) == Call(Field(x, name), <<y>>)
Neg(x)         == Unary("-", x)
No(x)          == Unary("not", x)
And(x, y)      == Binary("and", x, y)
Or(x, y)       == Binary("or", x, y)
In(x, y)       == Binary("in", x, y)

Size     == Of("alloc", "size")
Address  == Of("alloc", "address")
Usable   == Of("alloc", "usable")
Lifetime == Of("alloc", "lifetime")
Span     == Of("alloc", "span")
Tags     == Of("alloc", "tags")
Freed    == Of("alloc", "freed")
Site     == Of("malloc", "site")
Thread   == Of("malloc", "thread")
Stack    == Of("malloc", "stack")
Time     == Of("malloc", "time")
Fn1      == Custom("malloc", "n")
Fs       == Custom("malloc", "s")
Hot      == Index(Of("malloc", "fields"), "hot")

\* Numbers against numbers, in every representation and on both sides.
Columns == {Of("alloc", "id"), Address, Of("alloc", "end"), Size, Usable, Lifetime,
            Of("malloc", "seq"), Time, Of("free", "seq"), Of("free", "time"),
            Thread, Fn1, Custom("free", "n")}
Literals == {I(2), Float(4, "none"), Float(5, "none"), Neg(I(1)), Neg(Float(1, "none")),
             Integer(1, "KiB"), Integer(3, "ns"), Integer(1, "us"), I(9), I(12), Float(60, "none")}
Numbers ==
    {Binary(op, x, y) : op \in {"==", "!=", "<", ">="}, x \in Columns, y \in {I(2), Float(5, "none")}}
    \cup {Binary(op, x, y) : op \in {"<=", ">"}, x \in {Size, Usable, Fn1, Time}, y \in Literals}
    \cup {Binary(op, y, x) : op \in {"<", "!="}, x \in {Size, Lifetime, Thread}, y \in Literals}
    \cup {Binary(op, x, y) : op \in {"==", "<="}, x \in {Size, Usable, Thread}, y \in {Address, Lifetime}}
    \cup {Binary("<", x, y) : x, y \in {I(2), Neg(I(2)), Float(5, "none"), Neg(I(21))}}

Sums == {Binary("+", Size, Usable), Binary("-", Address, Binary("-", Size, I(2))),
         Binary("-", Binary("-", Address, Size), I(2)), Neg(Binary("+", Size, Float(1, "none"))),
         Binary("+", Neg(Address), Size), Fn("abs", Binary("-", Size, Thread)), Fn("len", Tags),
         Binary("+", Address, Binary("+", I(20), Size)), Neg(Neg(Lifetime))}
Arithmetic == {Binary(op, x, y) : op \in {"==", "<"}, x \in Sums, y \in {I(2), Size, Neg(Float(5, "none"))}}

\* Dictionaries: sites, stacks, custom texts, and the operators on texts.
Strings ==
    {Binary(op, x, String(s)) : op \in {"==", "!=", "<"}, x \in {Site, Stack, Fs}, s \in {"a", "ab", "ba"}}
    \cup {Binary(">=", String("ab"), x) : x \in {Site, Fs}}
    \cup {In(String("b"), x) : x \in {Site, Stack, Fs}}
    \cup {Says(x, m, String(s)) : x \in {Site, Fs}, m \in {"startswith", "endswith"}, s \in {"a", "b"}}
    \cup {Binary("==", Site, Fs), Binary("<", Fs, Site), In(Fs, Site), Says(Site, "startswith", Fs),
          Binary("<", String("a"), String("ab")), Binary("==", Hot, Bool(TRUE)),
          Hot, Custom("free", "hot"), Bool(TRUE)}

Absence == {IsNone(x, n) : x \in {Usable, Lifetime, Of("free", "seq"), Site, Thread, Fs, Hot}, n \in BOOLEAN}
           \cup {IsNone(Field(Field(Ref("a"), "free"), "time"), n) : n \in BOOLEAN}

\* Sets, ranges and tags.
Members ==
    {In(x, Set(<<I(0), Neg(I(2)), I(3)>>)) : x \in {Size, Thread, Usable, Fn1}}
    \cup {In(x, Set(<<I(2), Float(5, "none")>>)) : x \in {Binary("+", Size, I(1)), Fn1, I(2)}}
    \cup {In(Site, Set(<<String("b"), String("zz")>>)), In(Size, Set(<<>>))}
    \cup {In(x, RangeOf(I(2), y)) : x \in {Size, Address, Fn1, Usable}, y \in {I(4), Of("alloc", "end")}}
    \cup {In(Time, RangeOf(Integer(2, "ns"), Integer(1, "ms")))}
    \* a bound that is missing where the sum overflows
    \cup {In(x, RangeOf(I(0), Binary("+", I(20), Size))) : x \in {Size, Address}}
    \cup {In(String(s), Tags) : s \in {"a", "zz", "ba"}}
    \cup {Binary(op, Tags, Set(items)) : op \in {"==", "!="},
            items \in {<<>>, <<String("a")>>, <<String("b"), String("a")>>, <<String("ba")>>}}
    \cup {Binary("==", Set(<<String("b")>>), Tags)}
    \cup {Says(x, "overlaps", y) :
            x \in {Span, RangeOf(I(2), I(4))},
            y \in {Span, RangeOf(I(3), I(6)), Field(Field(Ref("a"), "alloc"), "span")}}

References ==
    {Binary(op, x, Field(Field(r, "alloc"), "size")) : op \in {"==", ">"}, x \in {Size, Usable},
        r \in {Ref("a"), Ref("b"), Nth(1), Nth(2)}}
    \cup {Binary("==", Site, Field(Field(r, "malloc"), "site")) : r \in {Ref("a"), Nth(2)}}
    \cup {Binary("<=", Fn("abs", Binary("-", Address, Field(Field(Ref("a"), "alloc"), "address"))), I(2)),
          Binary("==", Fn1, Field(Field(Field(Nth(2), "malloc"), "fields"), "n")),
          Field(Field(Ref("a"), "alloc"), "freed")}

\* Boolean structure, over clauses of every cost and with missing values.
Clauses == {Bool(FALSE), Freed, In(String("a"), Tags), Binary(">", Size, I(1)),
            Binary("==", Site, String("ab")), Binary("<", Lifetime, I(3))}
Structure ==
    {And(x, y) : x, y \in Clauses} \cup {Or(x, y) : x, y \in Clauses}
    \cup {No(x) : x \in Clauses} \cup {No(No(x)) : x \in Clauses}
    \cup {And(Or(x, y), z) : x, y, z \in {Freed, In(String("b"), Tags), Binary("<", Fn1, Fn1)}}
    \cup {Or(x, And(y, No(z))) : x, y, z \in {Freed, In(String("b"), Tags), Bool(TRUE)}}
    \cup {And(Or(Freed, Or(Bool(FALSE), x)), And(x, No(And(Freed, x)))) : x \in Clauses}
    \cup {And(Binary("<", I(1), Size), Binary(op, Size, Lifetime)) : op \in {"<=", "=="}}
    \cup {And(And(Binary("<", I(0), Size), Binary("<", Size, Address)), In(Address, RangeOf(I(1), I(7)))),
          And(Binary("<=", Size, Binary("+", Size, I(1))), IsNone(Usable, FALSE)),
          No(IsNone(Site, FALSE)), No(Binary("==", Usable, I(1)))}

\* Refused by the checker: wrong types, unknown fields, constant missing tests.
IllTyped ==
    {Size, Ref("a"), Binary("==", Size, String("a")), Binary("<", Freed, Freed), And(Size, Freed),
     In(Size, Set(<<I(1), String("a")>>)), IsNone(Size, FALSE), Binary("==", Custom("malloc", "mixed"), I(1)),
     Binary("==", Custom("malloc", "absent"), I(1)), Custom("alloc", "hot"), Identifier("size"),
     Binary("<", Size, Integer(11, "KiB")), Fn("len", Site), Says(Site, "overlaps", Span), No(Site)}

\* Admitted by the checker and refused by lowering.
NotLowered ==
    {In(Address, Span), Binary("==", Tags, Tags), Binary("==", Fn("len", Set(<<I(1)>>)), I(1)),
     In(Freed, Set(<<Bool(TRUE)>>)), Binary("==", Freed, Bool(TRUE)), In(String("a"), String("ab")),
     In(Site, Tags), Says(String("ab"), "startswith", Site)}

Agreeing == UNION {Numbers, Arithmetic, Strings, Absence, Members, References, Structure, IllTyped,
                   NotLowered}

\* Over an applied filter, its successors: some that apply and some that do not.
Replacing == UNION {Absence, References, IllTyped, NotLowered}

\* A boolean custom field that only some records carry, under a negation.
Diverging == {Hot, No(Hot), Binary("==", Fn1, Custom("free", "n"))}

Garbage ==
    LET a == Spell(Binary("<", Size, I(2)), "Bare", 1)
        s == Spell(Size, "Bare", 1)
        T(k) == Token(k)
    IN  {a \o <<T("and")>>, a \o <<T("&&")>> \o a, <<T("!")>> \o a, <<T("or")>> \o a, a \o a,
         <<T("(")>> \o a, a \o <<T(")")>>, <<T("+")>> \o a, s \o <<T("is")>>, s \o <<T("is"), T("not")>>,
         s \o <<T("==")>>, <<T("{"), I(1), T("}"), T("==")>> \o s, s \o <<T("in"), T("{"), I(1)>>,
         s \o <<T("in"), T("{"), T(",")  , T("}")>>, s \o <<T("in"), T("{"), T("-"), String("a"), T("}")>>,
         s \o <<T("in"), Identifier("range"), T("("), I(1), T(")")>>,
         s \o <<T("in"), Identifier("range"), T("("), I(1), T(","), I(2), T(","), T(")")>>,
         s \o <<T("in"), I(1), T(".."), I(2)>>, s \o <<T("in"), T("{"), I(1), T(","), I(2), T(","), I(3),
                T(","), I(4), T("}")>>,
         <<Identifier("abs"), T("("), I(1), T(","), T(")"), T("<"), I(2)>>,
         <<T("("), T("("), T("("), T("("), T("("), Bool(TRUE), T(")"), T(")"), T(")"), T(")"), T(")")>>,
         s \o <<T("[") , I(1), T("]")>>, s \o <<T("in"), T("("), T("{"), I(1), T("}"), T(")")>>}

=============================================================================
