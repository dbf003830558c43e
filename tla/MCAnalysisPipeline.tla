------------------------ MODULE MCAnalysisPipeline ------------------------
EXTENDS AnalysisPipeline

MCFunction == 1 .. 3
MCDeclared == {4, 5}

Call(g) == [op |-> "call", to |-> {g}, obj |-> <<0, 0>>, path |-> <<>>, pts |-> {}, uses |-> {0}]
CallWith(g, u) == [Call(g) EXCEPT !.uses = {u}]
ICall(S) == [Call(1) EXCEPT !.op = "icall", !.to = S]
Asm == [Call(1) EXCEPT !.op = "asm", !.to = {}]
Store(o) == [op |-> "store", to |-> {}, obj |-> o, path |-> <<0>>, pts |-> {o}, uses |-> {0}]
Load(o) == [Store(o) EXCEPT !.op = "load", !.uses = {}]
Via(o, S) == [Store(o) EXCEPT !.pts = S]
G == <<0, 1>>

Body1 == {<<>>, <<Call(2)>>, <<ICall({2, 3})>>, <<Call(2), ICall({3})>>, <<ICall({4})>>,
          <<Call(2), Call(3)>>, <<CallWith(3, -2)>>, <<Store(G), Call(4)>>, <<ICall({}), Load(G)>>,
          <<ICall({4, 5})>>, <<Asm, Call(2)>>}
Body2 == {<<>>, <<Store(G)>>, <<Call(1), Store(G)>>, <<ICall({1, 3})>>, <<Call(3)>>,
          <<CallWith(3, -2)>>, <<Call(2)>>, <<Load(<<2, 1>>), Store(<<2, 1>>)>>,
          <<Store(<<2, 1>>), Via(<<2, 2>>, {<<2, 1>>}), Via(<<2, 3>>, {BlackHole})>>}
Body3 == {<<>>, <<Store(G)>>, <<Call(1)>>, <<Call(2)>>, <<Call(4), Load(G)>>, <<Via(<<3, 1>>, {Opaque})>>}

MCProgram == {<<a, b, c>> : a \in Body1, b \in Body2, c \in Body3}
=============================================================================
