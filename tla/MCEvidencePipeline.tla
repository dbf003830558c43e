------------------------ MODULE MCEvidencePipeline ------------------------
(***************************************************************************)
(* Small instances of EvidencePipeline: programs in which function 1 copies *)
(* with an extent that reaches the copy in one way, in several ways, around *)
(* a loop, from a call, or in no way at all.                               *)
(***************************************************************************)
EXTENDS EvidencePipeline

MCFunction == 1 .. 2
MCDeclared == {3}

Buffer == <<1, 7>>
Mix(S) == [op |-> "value", to |-> {}, obj |-> <<0, 0>>, path |-> <<>>, pts |-> {}, uses |-> S]
CallTo(g, u) == [Mix({u}) EXCEPT !.op = "call", !.to = {g}]
ICallTo(S) == [Mix({0}) EXCEPT !.op = "icall", !.to = S]
StoreAt(o) == [Mix({0}) EXCEPT !.op = "store", !.obj = o, !.path = <<0>>, !.pts = {o}]
Copy(u) == [CallTo(3, u) EXCEPT !.obj = Buffer]

Timed == <<StoreAt(Buffer), StoreAt(<<0, 1>>), Copy(0)>>
MCBody1 == {<<Copy(0)>>,
            <<Mix({0}), Copy(1)>>,
            <<Mix({0}), Mix({1}), Mix({0, 2}), Copy(3), ICallTo({})>>,
            <<Mix({0}), Mix({0}), Mix({1, 2}), Copy(3)>>,
            <<Mix({0, 2}), Mix({0, 1}), Mix({1, 2}), Copy(3)>>,
            <<CallTo(2, 0), Mix({1}), Copy(2)>>,
            <<StoreAt(Buffer), Copy(0), Copy(0)>>,
            <<[Copy(0) EXCEPT !.obj = Opaque]>>}
Calling == <<StoreAt(<<0, 1>>), CallTo(1, 0)>>
MCHistory == {<<<<a, <<>>>>, <<9>>>> : a \in MCBody1}
             \cup {<<<<a, Calling>>, <<9>>>> : a \in {x \in MCBody1 : Len(x) < 4}}
             \cup {<<<<Timed, Calling>>, s>> : s \in {<<0, 9>>, <<9, 0>>}}
MCProgram == {h[1] : h \in MCHistory}

Loose == [depth |-> 4, nodes |-> 20, paths |-> 4, facts |-> 8, prov |-> 4]
MCBudget == {Loose, [Loose EXCEPT !.depth = 1], [Loose EXCEPT !.nodes = 3], [Loose EXCEPT !.paths = 1],
             [Loose EXCEPT !.facts = 1], [Loose EXCEPT !.prov = 0]}

Dest == [obj |-> Buffer, path |-> <<>>]
Row(rel, s, o, ep, known) == <<rel, s, o, ep, <<known>>>>
\* Every operator under every other, on either side, and those again as the
\* arguments of a call and the operands of a disjunction and a conjunction;
\* then a formula without a spelling and one without a type.
This == Reference(Claim)
Symbol(w) == <<"symbol", w, <<>>>>
Pair(kind, x, y) == <<kind, 0, <<x, y>>>>
Simple == <<This, Symbol("unsafe"), CallExpr("and", <<This, Integer(1)>>), Compare("<", This, Symbol("limit")),
            <<"not", 0, <<This>>>>, Pair("and", This, BoolTrue), Pair("or", This, BoolTrue),
            Pair("implies", This, BoolTrue), Quantified("forall", "in", This, This),
            Quantified("exists", "p", CallExpr("not", <<This, Symbol("and")>>), Pair("or", This, This))>>
Over(x) == <<<<"not", 0, <<x>>>>, Pair("and", x, This), Pair("and", This, x), Pair("or", x, This),
             Pair("or", This, x), Pair("implies", x, This), Pair("implies", This, x),
             Quantified("exists", "p", This, x), Compare("==", x, This), Compare("==", This, x)>>
Typed(x) == CheckExpression(x, 0)
NoOr(x) == x[1] # "or"
NoAnd(x) == x[1] # "and"
Nested(x) == LET S == SelectSeq(Over(x), Typed)
             IN  CallExpr("all", S \o <<Or(SelectSeq(S, NoOr)), And(SelectSeq(S, NoAnd))>>)

Other(rows, closed, formulas) == [rows |-> rows, closed |-> closed, formulas |-> formulas, confidence |-> "low"]
Unsure(extra) == [extra EXCEPT !.confidence = "unspecified"]
MayCheck == Row("DominatingCheck", <<1, 0>>, <<1, 0>>, "MAY", TRUE)
Rows3 == {Row("DominatingCheck", <<1, 3>>, <<1, 3>>, "MUST", TRUE),
          Row("Alias", Dest, [obj |-> <<0, 1>>, path |-> <<0>>], "MAY", TRUE),
          Row("DirectWrite", 1, Dest, "MUST", TRUE)}
Rows2 == {Row("DirectWrite", 2, Dest, "MUST", FALSE), Row("GlobalFlow", <<1, 0>>, <<1, 3>>, "MUST_NOT", TRUE)}
MCExtra == {Other({}, FALSE, {}), Other({}, TRUE, {}),
            Other({MayCheck}, FALSE, {Pair("and", This, Pair("and", This, This))}),
            Other({MayCheck}, TRUE, {Nested(Simple[k]) : k \in 1 .. 5}),
            Other(Rows3, FALSE, {}), Unsure(Other(Rows3, TRUE, {Nested(Simple[k]) : k \in 6 .. 10})),
            Other(Rows2, TRUE, {Pair("or", Symbol("exists"), This)})}
=============================================================================
