--------------------------- MODULE SccGraphProofs ---------------------------
(* Proofs about the component search of SccGraph, for any number of          *)
(* functions and any calls between them.                                     *)
EXTENDS SccGraph, FiniteSetTheorems, TLAPS

(***************************************************************************)
(* Reachability in E, which maps every function to its callees             *)
(***************************************************************************)

IsMap(E) == IsFiniteSet(DOMAIN E) /\ E \in [DOMAIN E -> SUBSET DOMAIN E]
Closed(E, S) == \A h \in S : E[h] \subseteq S
Goes(E, f, g) == \A S \in SUBSET DOMAIN E : f \in S /\ Closed(E, S) => g \in S
Class(E, f) == {g \in DOMAIN E : Goes(E, f, g) /\ Goes(E, g, f)}

\* A function reaches itself.
LEMMA GoesSelf ==
  ASSUME NEW E, NEW f
  PROVE  Goes(E, f, f)
BY Zenon DEF Goes

\* A function reaches what it calls.
LEMMA GoesEdge ==
  ASSUME NEW E, NEW f, NEW g \in E[f]
  PROVE  Goes(E, f, g)
BY Zenon DEF Goes, Closed

\* Reaching is transitive.
LEMMA GoesTrans ==
  ASSUME NEW E, NEW f, NEW g, NEW h, Goes(E, f, g), Goes(E, g, h)
  PROVE  Goes(E, f, h)
BY Zenon DEF Goes

\* Nothing leaves a closed set.
LEMMA GoesStays ==
  ASSUME NEW E, NEW S \in SUBSET DOMAIN E, Closed(E, S), NEW f \in S, NEW g, Goes(E, f, g)
  PROVE  g \in S
BY Zenon DEF Goes

\* A class is the class of each of its members.
LEMMA ClassSame ==
  ASSUME NEW E, NEW f \in DOMAIN E, NEW g \in Class(E, f)
  PROVE  f \in Class(E, f) /\ Class(E, g) = Class(E, f)
<1>1. Goes(E, f, g) /\ Goes(E, g, f) /\ g \in DOMAIN E
  BY Zenon DEF Class
<1>2. ASSUME NEW h \in DOMAIN E PROVE h \in Class(E, g) <=> h \in Class(E, f)
  <2>1. ASSUME Goes(E, g, h), Goes(E, h, g) PROVE Goes(E, f, h) /\ Goes(E, h, f)
    BY Zenon, <1>1, <2>1, GoesTrans
  <2>2. ASSUME Goes(E, f, h), Goes(E, h, f) PROVE Goes(E, g, h) /\ Goes(E, h, g)
    BY Zenon, <1>1, <2>2, GoesTrans
  <2> QED
    BY Zenon, <2>1, <2>2 DEF Class
<1>3. f \in Class(E, f)
  BY Zenon, GoesSelf DEF Class
<1> QED
  BY Zenon, <1>2, <1>3 DEF Class

(***************************************************************************)
(* The inductive invariant: of the calls E, numbers ix, links ll, stack    *)
(* st, frames fr and components cs                                         *)
(***************************************************************************)

Frame(E) == [vertex : DOMAIN E, callees : SUBSET DOMAIN E]
On(s) == {s[i] : i \in 1 .. Len(s)}

\* The callees of v that the search has looked at, once v has a number.
Looked(E, fr, v) ==
  {w \in E[v] : \A i \in 1 .. Len(fr) : fr[i].vertex = v => w \notin fr[i].callees}

TypedOK(E, ix, ll, st, fr, cs) ==
  /\ ix \in [DOMAIN ix -> Nat] /\ ll \in [DOMAIN ix -> Nat]
  /\ DOMAIN ix \subseteq DOMAIN E
  /\ \A v \in DOMAIN ix : ix[v] < Cardinality(DOMAIN ix)
  /\ st \in Seq(DOMAIN E) /\ fr \in Seq(Frame(E)) /\ cs \subseteq SUBSET DOMAIN E

\* The stack is in order of discovery and has what is in no component yet.
StackOK(ix, st, cs) ==
  /\ On(st) \subseteq DOMAIN ix
  /\ \A i, j \in 1 .. Len(st) : i < j => ix[st[i]] < ix[st[j]]
  /\ DOMAIN ix = On(st) \cup UNION cs /\ On(st) \cap UNION cs = {}

\* The frames are a path through the stack.
PathOK(E, ix, st, fr) ==
  /\ \A i \in 1 .. Len(fr) : fr[i].vertex \in On(st) /\ fr[i].callees \subseteq E[fr[i].vertex]
  /\ \A i, j \in 1 .. Len(fr) : i < j => ix[fr[i].vertex] < ix[fr[j].vertex]

\* What was looked at has a number; components call only components.
EdgesOK(E, ix, fr, cs) ==
  /\ \A v \in DOMAIN ix : Looked(E, fr, v) \subseteq DOMAIN ix
  /\ Closed(E, UNION cs)

\* A frame reaches all of the stack above it, and everything on the stack
\* reaches a frame below it.
ReachOK(E, ix, st, fr) ==
  /\ \A i \in 1 .. Len(fr), y \in On(st) :
       ix[fr[i].vertex] <= ix[y] => Goes(E, fr[i].vertex, y)
  /\ \A y \in On(st) : \E i \in 1 .. Len(fr) :
       ix[fr[i].vertex] <= ix[y] /\ Goes(E, y, fr[i].vertex)

\* y is above frame i and below the next.
Within(ix, fr, i, y) ==
  ix[fr[i].vertex] <= ix[y] /\ (i < Len(fr) => ix[y] < ix[fr[i + 1].vertex])

\* The link of a frame is a number on the stack that it reaches, at most its
\* own, and at most that of anything called from its part of the stack.
LinksOK(E, ix, ll, st, fr) ==
  /\ \A i \in 1 .. Len(fr) : ll[fr[i].vertex] <= ix[fr[i].vertex]
  /\ \A i \in 1 .. Len(fr) : \E w \in On(st) :
       ix[w] = ll[fr[i].vertex] /\ Goes(E, fr[i].vertex, w)
  /\ \A i \in 1 .. Len(fr), y \in On(st) : Within(ix, fr, i, y) =>
       \A w \in Looked(E, fr, y) \cap On(st) : ll[fr[i].vertex] <= ix[w]

ClassesOK(E, cs) == \A c \in cs : \E f \in DOMAIN E : c = Class(E, f)

SearchOK(E, ix, ll, st, fr, cs) ==
  /\ TypedOK(E, ix, ll, st, fr, cs) /\ StackOK(ix, st, cs) /\ PathOK(E, ix, st, fr)
  /\ EdgesOK(E, ix, fr, cs) /\ ReachOK(E, ix, st, fr)
  /\ LinksOK(E, ix, ll, st, fr) /\ ClassesOK(E, cs)

\* Appending to a sequence adds one last element.
LEMMA AppendIs ==
  ASSUME NEW S, NEW s \in Seq(S), NEW x \in S
  PROVE  /\ Append(s, x) \in Seq(S) /\ Len(s) \in Nat /\ Len(Append(s, x)) = Len(s) + 1
         /\ \A i \in 1 .. Len(s) : Append(s, x)[i] = s[i]
         /\ Append(s, x)[Len(s) + 1] = x /\ On(Append(s, x)) = On(s) \cup {x}
<1> DEFINE t == Append(s, x)
<1>1. /\ t \in Seq(S) /\ Len(s) \in Nat /\ Len(t) = Len(s) + 1
      /\ \A i \in 1 .. Len(s) : t[i] = s[i]
      /\ t[Len(s) + 1] = x
  OBVIOUS
<1> HIDE DEF t
<1>2. On(t) = On(s) \cup {x}
  <2>1. ASSUME NEW i \in 1 .. Len(t) PROVE t[i] \in On(s) \cup {x}
    <3>1. CASE i \in 1 .. Len(s)
      BY Zenon, <1>1, <3>1 DEF On
    <3>2. CASE i = Len(s) + 1
      BY Zenon, <1>1, <3>2
    <3> QED
      BY <1>1, <3>1, <3>2
  <2>2. x \in On(t)
    BY <1>1 DEF On
  <2>3. ASSUME NEW i \in 1 .. Len(s) PROVE s[i] \in On(t)
    BY <1>1, i \in 1 .. Len(t) DEF On
  <2> QED
    BY Zenon, <2>1, <2>2, <2>3 DEF On
<1> QED
  BY Zenon, <1>1, <1>2 DEF t

\* The frames gr are fr, the last perhaps without the callee v.
Leads(E, fr, gr, v) ==
  /\ gr \in Seq(Frame(E)) /\ Len(gr) = Len(fr)
  /\ \A i \in 1 .. Len(fr) :
       /\ gr[i].vertex = fr[i].vertex /\ gr[i].callees \subseteq fr[i].callees
       /\ fr[i].callees \subseteq gr[i].callees \cup {v}
  /\ Len(fr) # 0 => v \in E[fr[Len(fr)].vertex]

\* PushVertex(v, gr), from ix, ll and st to jx, kk, su and hr.
Pushes(E, v, gr, ix, ll, st, jx, kk, su, hr) ==
  /\ jx = Assign(ix, v, Cardinality(DOMAIN ix))
  /\ kk = Assign(ll, v, Cardinality(DOMAIN ix))
  /\ su = Append(st, v)
  /\ hr = Append(gr, [vertex |-> v, callees |-> E[v]])

\* A function discovered from the last frame, or first of all, keeps the invariant.
LEMMA PushKeeps ==
  ASSUME NEW E, IsMap(E), NEW ix, NEW ll, NEW st, NEW fr, NEW cs,
         SearchOK(E, ix, ll, st, fr, cs),
         NEW v \in (DOMAIN E) \ DOMAIN ix, NEW gr, Leads(E, fr, gr, v),
         NEW jx, NEW kk, NEW su, NEW hr, Pushes(E, v, gr, ix, ll, st, jx, kk, su, hr)
  PROVE  SearchOK(E, jx, kk, su, hr, cs)
<1> DEFINE n == Cardinality(DOMAIN ix)
           m == Len(fr)
<1>1. /\ TypedOK(E, ix, ll, st, fr, cs) /\ StackOK(ix, st, cs) /\ PathOK(E, ix, st, fr)
      /\ EdgesOK(E, ix, fr, cs) /\ ReachOK(E, ix, st, fr)
      /\ LinksOK(E, ix, ll, st, fr) /\ ClassesOK(E, cs)
  BY Zenon DEF SearchOK
<1>2. /\ ix \in [DOMAIN ix -> Nat] /\ ll \in [DOMAIN ix -> Nat] /\ DOMAIN ix \subseteq DOMAIN E
      /\ \A w \in DOMAIN ix : ix[w] < n
      /\ st \in Seq(DOMAIN E) /\ fr \in Seq(Frame(E)) /\ cs \subseteq SUBSET DOMAIN E
  BY Zenon, <1>1 DEF TypedOK
<1>3. /\ DOMAIN jx = DOMAIN ix \cup {v} /\ jx \in [DOMAIN jx -> Nat] /\ n \in Nat
      /\ Cardinality(DOMAIN jx) = n + 1 /\ jx[v] = n
      /\ \A w \in DOMAIN ix : jx[w] = ix[w] /\ w # v
  <2>1. IsFiniteSet(DOMAIN ix)
    BY Zenon, <1>2, FS_Subset DEF IsMap
  <2>2. n \in Nat
    BY Zenon, <2>1, FS_CardinalityType
  <2>3. jx = [w \in DOMAIN ix \cup {v} |-> IF w = v THEN n ELSE ix[w]]
    BY Zenon DEF Assign, Pushes
  <2>4. Cardinality(DOMAIN ix \cup {v}) = n + 1
    BY Zenon, <2>1, FS_AddElement
  <2> HIDE DEF n
  <2> QED
    BY Zenon, <1>2, <2>2, <2>3, <2>4
<1>4. /\ kk \in [DOMAIN jx -> Nat] /\ kk[v] = n
      /\ \A w \in DOMAIN ix : kk[w] = ll[w]
  <2>1. kk = [w \in DOMAIN ll \cup {v} |-> IF w = v THEN n ELSE ll[w]]
    BY Zenon DEF Assign, Pushes
  <2> QED
    BY Zenon, <1>2, <1>3, <2>1
<1>5. /\ su \in Seq(DOMAIN E) /\ Len(st) \in Nat /\ Len(su) = Len(st) + 1
      /\ \A i \in 1 .. Len(st) : su[i] = st[i] /\ su[i] # v
      /\ su[Len(su)] = v /\ On(su) = On(st) \cup {v}
      /\ On(st) \subseteq DOMAIN ix
  <2>1. On(st) \subseteq DOMAIN ix
    BY Zenon, <1>1 DEF StackOK
  <2>2. /\ su \in Seq(DOMAIN E) /\ Len(st) \in Nat /\ Len(su) = Len(st) + 1
        /\ \A i \in 1 .. Len(st) : su[i] = st[i]
        /\ su[Len(su)] = v /\ On(su) = On(st) \cup {v}
    <3>1. st \in Seq(DOMAIN E) /\ v \in DOMAIN E
      BY Zenon, <1>2
    <3>2. su = Append(st, v)
      BY Zenon DEF Pushes
    <3> QED
      BY <3>1, <3>2, AppendIs
  <2>3. ASSUME NEW i \in 1 .. Len(st) PROVE su[i] # v
    BY Zenon, <1>3, <2>1, <2>2 DEF On
  <2> QED
    BY Zenon, <2>1, <2>2, <2>3
<1>6. /\ hr \in Seq(Frame(E)) /\ m \in Nat /\ Len(hr) = m + 1
      /\ \A i \in 1 .. m : /\ hr[i].vertex = fr[i].vertex
                           /\ hr[i].callees \subseteq fr[i].callees
                           /\ fr[i].callees \subseteq hr[i].callees \cup {v}
                           /\ hr[i].vertex \in On(st)
      /\ hr[m + 1].vertex = v /\ hr[m + 1].callees = E[v]
  <2>1. [vertex |-> v, callees |-> E[v]] \in Frame(E)
    BY Zenon DEF Frame, IsMap
  <2>2. gr \in Seq(Frame(E)) /\ Len(gr) = m
    BY Zenon DEF Leads
  <2>3. hr = Append(gr, [vertex |-> v, callees |-> E[v]])
    BY Zenon DEF Pushes
  <2>4. /\ hr \in Seq(Frame(E)) /\ m \in Nat /\ Len(hr) = m + 1
        /\ \A i \in 1 .. m : hr[i] = gr[i]
        /\ hr[m + 1] = [vertex |-> v, callees |-> E[v]]
    BY <2>1, <2>2, <2>3, AppendIs
  <2>5. \A i \in 1 .. m : fr[i].vertex \in On(st)
    BY Zenon, <1>1 DEF PathOK
  <2> QED
    BY <2>4, <2>5 DEF Leads
<1>7. /\ \A w \in DOMAIN ix : Looked(E, hr, w) \subseteq Looked(E, fr, w) \cup {v}
      /\ Looked(E, hr, v) = {}
  <2>1. ASSUME NEW w \in DOMAIN ix, NEW x \in Looked(E, hr, w), x # v
        PROVE  x \in Looked(E, fr, w)
    <3>1. ASSUME NEW i \in 1 .. m, fr[i].vertex = w PROVE x \notin fr[i].callees
      BY <1>6, <2>1, <3>1 DEF Looked
    <3> QED
      BY Zenon, <2>1, <3>1 DEF Looked
  <2>2. Looked(E, hr, v) = {}
    <3>1. m + 1 \in 1 .. Len(hr)
      BY <1>6
    <3> QED
      BY Zenon, <1>6, <3>1 DEF Looked
  <2> QED
    BY Zenon, <2>1, <2>2
<1> HIDE DEF n
<1>8. TypedOK(E, jx, kk, su, hr, cs)
  <2>1. ASSUME NEW w \in DOMAIN jx PROVE jx[w] < Cardinality(DOMAIN jx)
    <3>1. CASE w = v
      BY <1>3, <3>1
    <3>2. CASE w \in DOMAIN ix
      <4>1. jx[w] = ix[w] /\ ix[w] \in Nat /\ ix[w] < n
        BY Zenon, <1>2, <1>3, <3>2 DEF n
      <4> QED
        BY <1>3, <4>1
    <3> QED
      BY Zenon, <1>3, <3>1, <3>2
  <2>2. DOMAIN jx \subseteq DOMAIN E
    BY Zenon, <1>2, <1>3
  <2> QED
    BY <1>2, <1>3, <1>4, <1>5, <1>6, <2>1, <2>2, Zenon DEF TypedOK
<1>9. StackOK(jx, su, cs)
  <2>1. ASSUME NEW i \in 1 .. Len(su), NEW j \in 1 .. Len(su), i < j
        PROVE  jx[su[i]] < jx[su[j]]
    <3>1. i \in 1 .. Len(st) /\ su[i] = st[i] /\ su[i] \in DOMAIN ix
      BY <1>5, <2>1 DEF On
    <3>2. CASE j \in 1 .. Len(st)
      <4>1. su[j] = st[j] /\ su[j] \in DOMAIN ix
        BY Zenon, <1>5, <3>2 DEF On
      <4>2. ix[st[i]] < ix[st[j]]
        BY Zenon, <1>1, <2>1, <3>1, <3>2 DEF StackOK
      <4> QED
        BY <1>3, <3>1, <4>1, <4>2
    <3>3. CASE j = Len(su)
      BY Zenon, <1>2, <1>3, <1>5, <3>1, <3>3
    <3> QED
      BY <1>5, <2>1, <3>2, <3>3
  <2> QED
    BY Zenon, <1>1, <1>3, <1>5, <2>1 DEF StackOK
<1>10. PathOK(E, jx, su, hr)
  <2>1. ASSUME NEW i \in 1 .. Len(hr)
        PROVE  hr[i].vertex \in On(su) /\ hr[i].callees \subseteq E[hr[i].vertex]
    <3>1. CASE i \in 1 .. m
      BY Zenon, <1>1, <1>5, <1>6, <3>1 DEF PathOK
    <3>2. CASE i = m + 1
      BY Zenon, <1>5, <1>6, <3>2
    <3> QED
      BY SMTT(30), <1>6, <3>1, <3>2
  <2>2. ASSUME NEW i \in 1 .. Len(hr), NEW j \in 1 .. Len(hr), i < j
        PROVE  jx[hr[i].vertex] < jx[hr[j].vertex]
    <3>1. i \in 1 .. m /\ hr[i].vertex = fr[i].vertex /\ hr[i].vertex \in DOMAIN ix
      BY <1>5, <1>6, <2>2
    <3>2. CASE j \in 1 .. m
      <4>1. hr[j].vertex = fr[j].vertex /\ hr[j].vertex \in DOMAIN ix
        BY Zenon, <1>5, <1>6, <3>2
      <4> QED
        BY Zenon, <1>1, <1>3, <2>2, <3>1, <3>2, <4>1 DEF PathOK
    <3>3. CASE j = m + 1
      BY Zenon, <1>2, <1>3, <1>6, <3>1, <3>3
    <3> QED
      BY <1>6, <2>2, <3>2, <3>3
  <2> QED
    BY Zenon, <2>1, <2>2 DEF PathOK
<1>11. EdgesOK(E, jx, hr, cs)
  BY Zenon, <1>1, <1>3, <1>7 DEF EdgesOK
<1>12. ASSUME NEW i \in 1 .. Len(hr), NEW y \in On(su)
       PROVE  /\ i \in 1 .. m => hr[i].vertex \in DOMAIN ix /\ hr[i].vertex = fr[i].vertex
              /\ i \notin 1 .. m => i = m + 1 /\ hr[i].vertex = v
              /\ y # v => y \in On(st) /\ y \in DOMAIN ix
              /\ jx[hr[i].vertex] <= jx[y] => y = v \/ i \in 1 .. m
  <2>1. i \in 1 .. m => hr[i].vertex \in DOMAIN ix /\ hr[i].vertex = fr[i].vertex
    BY Zenon, <1>5, <1>6
  <2>2. i \notin 1 .. m => i = m + 1 /\ hr[i].vertex = v
    BY <1>6
  <2>3. y # v => y \in On(st) /\ y \in DOMAIN ix
    BY Zenon, <1>5
  <2>4. ASSUME y # v, i \notin 1 .. m PROVE ~(jx[hr[i].vertex] <= jx[y])
    BY SMTT(30), <1>2, <1>3, <2>2, <2>3, <2>4
  <2> QED
    BY Zenon, <2>1, <2>2, <2>3, <2>4
<1>13. ReachOK(E, jx, su, hr)
  <2>1. ASSUME NEW i \in 1 .. Len(hr), NEW y \in On(su), jx[hr[i].vertex] <= jx[y]
        PROVE  Goes(E, hr[i].vertex, y)
    <3>1. CASE y = v /\ i \notin 1 .. m
      BY Zenon, <1>12, <3>1, GoesSelf
    <3>2. CASE y = v /\ i \in 1 .. m
      <4> DEFINE u == fr[m].vertex
      <4>1. m \in 1 .. m /\ u \in On(st) /\ v \in E[u]
        BY <1>1, <1>6, <3>2 DEF PathOK, Leads
      <4>2. ix[fr[i].vertex] <= ix[u]
        <5>1. CASE i = m
          <6>1. u \in DOMAIN ix
            BY Zenon, <1>5, <4>1
          <6> QED
            BY <1>2, <5>1, <6>1
        <5>2. CASE i < m
          <6>1. u \in DOMAIN ix /\ fr[i].vertex \in DOMAIN ix
            BY Zenon, <1>5, <1>6, <3>2, <4>1
          <6>2. ix[fr[i].vertex] < ix[fr[m].vertex]
            BY Zenon, <1>1, <3>2, <4>1, <5>2 DEF PathOK
          <6>3. ix[fr[i].vertex] \in Nat /\ ix[u] \in Nat
            BY Zenon, <1>2, <6>1
          <6> QED
            BY SMTT(30), <6>2, <6>3
        <5> QED
          BY <1>6, <3>2, <5>1, <5>2
      <4>3. Goes(E, fr[i].vertex, u)
        BY Zenon, <1>1, <3>2, <4>1, <4>2 DEF ReachOK
      <4>4. Goes(E, u, v)
        BY Zenon, <4>1, GoesEdge
      <4> QED
        BY ZenonT(60), <1>12, <3>2, <4>3, <4>4, GoesTrans
    <3>3. CASE y # v
      <4>1. i \in 1 .. m /\ y \in On(st) /\ y \in DOMAIN ix
        BY Zenon, <1>12, <2>1, <3>3
      <4>2. hr[i].vertex = fr[i].vertex /\ hr[i].vertex \in DOMAIN ix
        BY Zenon, <1>12, <4>1
      <4>3. ix[fr[i].vertex] <= ix[y]
        BY <1>3, <2>1, <4>1, <4>2
      <4> QED
        BY Zenon, <1>1, <4>1, <4>2, <4>3 DEF ReachOK
    <3> QED
      BY Zenon, <3>1, <3>2, <3>3
  <2>2. ASSUME NEW y \in On(su)
        PROVE  \E i \in 1 .. Len(hr) : jx[hr[i].vertex] <= jx[y] /\ Goes(E, y, hr[i].vertex)
    <3>1. CASE y = v
      <4>1. m + 1 \in 1 .. Len(hr) /\ jx[hr[m + 1].vertex] <= jx[y]
        BY <1>3, <1>6, <3>1
      <4> QED
        BY Zenon, <1>6, <3>1, <4>1, GoesSelf
    <3>2. CASE y # v
      <4>1. y \in On(st) /\ y \in DOMAIN ix
        BY Zenon, <1>5, <3>2
      <4>2. PICK i \in 1 .. m : ix[fr[i].vertex] <= ix[y] /\ Goes(E, y, fr[i].vertex)
        BY Zenon, <1>1, <4>1 DEF ReachOK
      <4>3. i \in 1 .. Len(hr) /\ jx[hr[i].vertex] = ix[fr[i].vertex] /\ hr[i].vertex = fr[i].vertex
        BY SMTT(30), <1>3, <1>5, <1>6
      <4> QED
        BY Zenon, <1>3, <4>1, <4>2, <4>3
    <3> QED
      BY Zenon, <3>1, <3>2
  <2> QED
    BY Zenon, <2>1, <2>2 DEF ReachOK
<1>14. LinksOK(E, jx, kk, su, hr)
  <2>1. ASSUME NEW i \in 1 .. Len(hr) PROVE kk[hr[i].vertex] <= jx[hr[i].vertex]
    <3>1. CASE i \in 1 .. m
      <4>1. hr[i].vertex = fr[i].vertex /\ hr[i].vertex \in DOMAIN ix
        BY Zenon, <1>5, <1>6, <3>1
      <4>2. ll[fr[i].vertex] <= ix[fr[i].vertex]
        BY Zenon, <1>1, <3>1 DEF LinksOK
      <4> QED
        BY <1>3, <1>4, <4>1, <4>2
    <3>2. CASE i = m + 1
      BY SMTT(30), <1>3, <1>4, <1>6, <3>2
    <3> QED
      BY <1>6, <3>1, <3>2
  <2>2. ASSUME NEW i \in 1 .. Len(hr)
        PROVE  \E w \in On(su) : jx[w] = kk[hr[i].vertex] /\ Goes(E, hr[i].vertex, w)
    <3>1. CASE i \in 1 .. m
      <4>1. PICK w \in On(st) : ix[w] = ll[fr[i].vertex] /\ Goes(E, fr[i].vertex, w)
        BY Zenon, <1>1, <3>1 DEF LinksOK
      <4>2. w \in On(su) /\ jx[w] = ix[w] /\ hr[i].vertex = fr[i].vertex
            /\ kk[hr[i].vertex] = ll[fr[i].vertex]
        BY ZenonT(60), <1>3, <1>4, <1>5, <1>6, <3>1
      <4> QED
        BY Zenon, <4>1, <4>2
    <3>2. CASE i = m + 1
      <4>1. v \in On(su) /\ jx[v] = kk[hr[i].vertex] /\ hr[i].vertex = v
        BY Zenon, <1>3, <1>4, <1>5, <1>6, <3>2
      <4>2. Goes(E, v, v)
        BY Zenon, GoesSelf
      <4> QED
        BY Zenon, <4>1, <4>2
    <3>3. i \in 1 .. m \/ i = m + 1
      BY SMTT(30), <1>6
    <3> QED
      BY Zenon, <3>1, <3>2, <3>3
  <2>3. ASSUME NEW i \in 1 .. Len(hr), NEW y \in On(su), Within(jx, hr, i, y),
               NEW w \in Looked(E, hr, y) \cap On(su)
        PROVE  kk[hr[i].vertex] <= jx[w]
    <3>1. jx[hr[i].vertex] <= jx[y] /\ (i < Len(hr) => jx[y] < jx[hr[i + 1].vertex])
      BY Zenon, <2>3 DEF Within
    <3>2. y # v
      BY Zenon, <1>7, <2>3
    <3>3. /\ i \in 1 .. m /\ y \in On(st) /\ y \in DOMAIN ix
          /\ hr[i].vertex \in DOMAIN ix /\ hr[i].vertex = fr[i].vertex
      BY Zenon, <1>12, <3>1, <3>2
    <3>4. CASE w = v
      BY SMTT(30), <1>1, <1>2, <1>3, <1>4, <3>3, <3>4 DEF LinksOK
    <3>5. CASE w # v
      <4>1. w \in Looked(E, fr, y) \cap On(st) /\ w \in DOMAIN ix
        BY Zenon, <1>5, <1>7, <2>3, <3>3, <3>5
      <4>2. ASSUME i < m PROVE ix[y] < ix[fr[i + 1].vertex]
        <5>1. /\ i + 1 \in 1 .. m /\ i < Len(hr) /\ hr[i + 1].vertex = fr[i + 1].vertex
              /\ hr[i + 1].vertex \in DOMAIN ix
          BY <1>5, <1>6, <3>3, <4>2
        <5> QED
          BY SMTT(30), <1>3, <3>1, <3>3, <5>1
      <4>3. Within(ix, fr, i, y)
        BY <1>3, <3>1, <3>3, <4>2 DEF Within
      <4> QED
        BY SMTT(30), <1>1, <1>3, <1>4, <3>3, <4>1, <4>3 DEF LinksOK
    <3> QED
      BY Zenon, <3>4, <3>5
  <2> QED
    BY Zenon, <2>1, <2>2, <2>3 DEF LinksOK
<1> QED
  BY Zenon, <1>1, <1>8, <1>9, <1>10, <1>11, <1>13, <1>14 DEF SearchOK


\* Replacing one element of a sequence keeps the others.
LEMMA ExceptIs ==
  ASSUME NEW S, NEW s \in Seq(S), NEW k \in 1 .. Len(s), NEW x \in S
  PROVE  /\ [s EXCEPT ![k] = x] \in Seq(S) /\ Len([s EXCEPT ![k] = x]) = Len(s)
         /\ [s EXCEPT ![k] = x][k] = x
         /\ \A i \in 1 .. Len(s) : i # k => [s EXCEPT ![k] = x][i] = s[i]
<1>1. DOMAIN s = 1 .. Len(s) /\ Len(s) \in Nat /\ \A i \in 1 .. Len(s) : s[i] \in S
  OBVIOUS
<1> DEFINE t == [s EXCEPT ![k] = x]
<1>2. /\ DOMAIN t = 1 .. Len(s) /\ t[k] = x /\ \A i \in 1 .. Len(s) : i # k => t[i] = s[i]
      /\ t = [i \in 1 .. Len(s) |-> t[i]]
  BY Zenon, <1>1
<1> HIDE DEF t
<1>3. t \in [1 .. Len(s) -> S]
  BY Zenon, <1>1, <1>2
<1>4. t \in Seq(S) /\ Len(t) = Len(s)
  BY SMTT(30), <1>1, <1>2, <1>3
<1> QED
  BY Zenon, <1>2, <1>4 DEF t

Framed(E, ix, ll, st, fr) ==
  /\ Len(fr) \in Nat /\ Len(st) \in Nat
  /\ \A y \in On(st) : y \in DOMAIN ix /\ ix[y] \in Nat /\ ll[y] \in Nat
  /\ \A i \in 1 .. Len(fr) : /\ fr[i] \in Frame(E) /\ fr[i].vertex \in On(st)
                             /\ fr[i].callees \subseteq E[fr[i].vertex]
  /\ \A i, j \in 1 .. Len(fr) : i <= j => ix[fr[i].vertex] <= ix[fr[j].vertex]
  /\ \A i, j \in 1 .. Len(fr) : ix[fr[i].vertex] = ix[fr[j].vertex] => i = j

\* The frames have numbers, in the order of the path.
LEMMA FramesAre ==
  ASSUME NEW E, NEW ix, NEW ll, NEW st, NEW fr, NEW cs, SearchOK(E, ix, ll, st, fr, cs)
  PROVE  Framed(E, ix, ll, st, fr)
<1>1. /\ ix \in [DOMAIN ix -> Nat] /\ ll \in [DOMAIN ix -> Nat]
      /\ st \in Seq(DOMAIN E) /\ fr \in Seq(Frame(E)) /\ On(st) \subseteq DOMAIN ix
  BY Zenon DEF SearchOK, TypedOK, StackOK
<1>2. \A i \in 1 .. Len(fr) : fr[i].vertex \in On(st) /\ fr[i].callees \subseteq E[fr[i].vertex]
  BY Zenon DEF SearchOK, PathOK
<1>3. \A y \in On(st) : y \in DOMAIN ix /\ ix[y] \in Nat /\ ll[y] \in Nat
  BY Zenon, <1>1
<1>4. ASSUME NEW i \in 1 .. Len(fr), NEW j \in 1 .. Len(fr)
      PROVE  /\ i <= j => ix[fr[i].vertex] <= ix[fr[j].vertex]
             /\ ix[fr[i].vertex] = ix[fr[j].vertex] => i = j
  <2>1. /\ i < j => ix[fr[i].vertex] < ix[fr[j].vertex]
        /\ j < i => ix[fr[j].vertex] < ix[fr[i].vertex]
    BY Zenon DEF SearchOK, PathOK
  <2>2. ix[fr[i].vertex] \in Nat /\ ix[fr[j].vertex] \in Nat
    BY Zenon, <1>2, <1>3
  <2> QED
    BY SMTT(30), <2>1, <2>2
<1>5. Len(fr) \in Nat /\ Len(st) \in Nat /\ \A i \in 1 .. Len(fr) : fr[i] \in Frame(E)
  BY SMTT(30), <1>1
<1> QED
  BY Zenon, <1>2, <1>3, <1>4, <1>5 DEF Framed

\* Of the frames fr, gr lacks at most the callee c of the last.
Looks(E, fr, gr, c) ==
  /\ gr \in Seq(Frame(E)) /\ Len(gr) = Len(fr)
  /\ \A i \in 1 .. Len(fr) :
       /\ gr[i].vertex = fr[i].vertex /\ gr[i].callees \subseteq fr[i].callees
       /\ \A x \in fr[i].callees \ gr[i].callees : i = Len(fr) /\ x = c

\* Of the links ll, kk has that of u lowered to the number of c.
Lowers(ix, ll, st, kk, u, c) ==
  /\ kk \in [DOMAIN ix -> Nat] /\ kk[u] <= ll[u] /\ (c \in On(st) => kk[u] <= ix[c])
  /\ kk[u] = ll[u] \/ (c \in On(st) /\ kk[u] = ix[c])
  /\ \A y \in DOMAIN ix : y # u => kk[y] = ll[y]

\* The last frame is that of u.
AtLast(fr, u) == Len(fr) \in 1 .. Len(fr) /\ u = fr[Len(fr)].vertex

\* A callee that has its number already keeps the invariant.
LEMMA SkipKeeps ==
  ASSUME NEW E, NEW ix, NEW ll, NEW st, NEW fr, NEW cs,
         SearchOK(E, ix, ll, st, fr, cs), NEW u, AtLast(fr, u),
         NEW c \in DOMAIN ix, c \in fr[Len(fr)].callees, NEW gr, Looks(E, fr, gr, c),
         NEW kk, Lowers(ix, ll, st, kk, u, c)
  PROVE  SearchOK(E, ix, kk, st, gr, cs)
<1>0. PICK m \in 1 .. Len(fr) : Len(fr) = m /\ u = fr[m].vertex
  BY Zenon DEF AtLast
<1> USE <1>0
<1>1. /\ TypedOK(E, ix, ll, st, fr, cs) /\ StackOK(ix, st, cs) /\ PathOK(E, ix, st, fr)
      /\ EdgesOK(E, ix, fr, cs) /\ ReachOK(E, ix, st, fr)
      /\ LinksOK(E, ix, ll, st, fr) /\ ClassesOK(E, cs)
  BY Zenon DEF SearchOK
<1>2. Framed(E, ix, ll, st, fr)
  BY Zenon, FramesAre
<1>3. /\ \A y \in On(st) : y \in DOMAIN ix /\ ix[y] \in Nat /\ ll[y] \in Nat
      /\ \A i \in 1 .. m : fr[i].vertex \in On(st)
  BY <1>2, Zenon DEF Framed
<1>4. /\ gr \in Seq(Frame(E)) /\ Len(gr) = m
      /\ \A i \in 1 .. m : gr[i].vertex = fr[i].vertex /\ gr[i].callees \subseteq fr[i].callees
  BY Zenon DEF Looks
<1>5. ASSUME NEW y, NEW x \in Looked(E, gr, y), x \notin Looked(E, fr, y)
      PROVE  y = u /\ x = c
  <2>1. x \in E[y]
    BY Zenon, <1>5 DEF Looked
  <2>2. PICK i \in 1 .. m : fr[i].vertex = y /\ x \in fr[i].callees
    BY Zenon, <1>5, <2>1 DEF Looked
  <2>3. x \notin gr[i].callees
    BY Zenon, <1>4, <1>5, <2>2 DEF Looked
  <2> QED
    BY Zenon, <2>2, <2>3 DEF Looks
<1>6. /\ kk \in [DOMAIN ix -> Nat] /\ kk[u] <= ll[u] /\ (c \in On(st) => kk[u] <= ix[c])
      /\ kk[u] = ll[u] \/ (c \in On(st) /\ kk[u] = ix[c])
  BY Zenon DEF Lowers
<1>7. \A i \in 1 .. m : /\ kk[fr[i].vertex] <= ll[fr[i].vertex] /\ kk[fr[i].vertex] \in Nat
                        /\ i # m => kk[fr[i].vertex] = ll[fr[i].vertex]
  <2>1. ASSUME NEW i \in 1 .. m
        PROVE  /\ kk[fr[i].vertex] <= ll[fr[i].vertex] /\ kk[fr[i].vertex] \in Nat
               /\ i # m => kk[fr[i].vertex] = ll[fr[i].vertex]
    <3>1. fr[i].vertex \in DOMAIN ix /\ ll[fr[i].vertex] \in Nat
      BY Zenon, <1>3
    <3>2. i # m => fr[i].vertex # u
      BY Zenon, <1>2 DEF Framed
    <3>3. fr[i].vertex # u => kk[fr[i].vertex] = ll[fr[i].vertex]
      BY Zenon, <3>1 DEF Lowers
    <3> QED
      BY SMTT(30), <1>6, <3>1, <3>2, <3>3
  <2> QED
    BY Zenon, <2>1
<1>8. TypedOK(E, ix, kk, st, gr, cs)
  BY ZenonT(60), <1>1, <1>4, <1>6 DEF TypedOK
<1>9. PathOK(E, ix, st, gr)
  <2>1. ASSUME NEW i \in 1 .. m
        PROVE  gr[i].vertex \in On(st) /\ gr[i].callees \subseteq E[gr[i].vertex]
    BY Zenon, <1>1, <1>4 DEF PathOK
  <2>2. ASSUME NEW i \in 1 .. m, NEW j \in 1 .. m, i < j
        PROVE  ix[gr[i].vertex] < ix[gr[j].vertex]
    BY Zenon, <1>1, <1>4, <2>2 DEF PathOK
  <2> QED
    BY ZenonT(60), <1>4, <2>1, <2>2 DEF PathOK
<1>10. EdgesOK(E, ix, gr, cs)
  BY ZenonT(60), <1>1, <1>5 DEF EdgesOK
<1>11. ReachOK(E, ix, st, gr)
  BY ZenonT(60), <1>1, <1>4 DEF ReachOK
<1>12. LinksOK(E, ix, kk, st, gr)
  <2>1. ASSUME NEW i \in 1 .. m PROVE kk[fr[i].vertex] <= ix[fr[i].vertex]
    <3>1. ll[fr[i].vertex] <= ix[fr[i].vertex]
      BY Zenon, <1>1 DEF LinksOK
    <3> QED
      BY SMTT(30), <1>3, <1>7, <3>1
  <2>2. ASSUME NEW i \in 1 .. m
        PROVE  \E w \in On(st) : ix[w] = kk[fr[i].vertex] /\ Goes(E, fr[i].vertex, w)
    <3>1. CASE kk[fr[i].vertex] = ll[fr[i].vertex]
      BY Zenon, <1>1, <3>1 DEF LinksOK
    <3>2. CASE kk[fr[i].vertex] # ll[fr[i].vertex]
      <4>1. i = m /\ c \in On(st) /\ kk[u] = ix[c]
        BY SMTT(30), <1>6, <1>7, <3>2
      <4>2. Goes(E, u, c)
        BY Zenon, <1>2, GoesEdge DEF Framed
      <4> QED
        BY Zenon, <4>1, <4>2
    <3> QED
      BY ZenonT(60), <3>1, <3>2
  <2>3. ASSUME NEW i \in 1 .. m, NEW y \in On(st), Within(ix, gr, i, y),
               NEW w \in Looked(E, gr, y) \cap On(st)
        PROVE  kk[fr[i].vertex] <= ix[w]
    <3>1. ix[fr[i].vertex] <= ix[y] /\ (i < m => ix[y] < ix[fr[i + 1].vertex])
      BY <1>4, <2>3, i < m => i + 1 \in 1 .. m DEF Within
    <3>2. CASE w \in Looked(E, fr, y)
      <4>1. ll[fr[i].vertex] <= ix[w]
        BY ZenonT(60), <1>1, <2>3, <3>1, <3>2 DEF LinksOK, Within
      <4> QED
        BY SMTT(30), <1>3, <1>7, <4>1
    <3>3. CASE w \notin Looked(E, fr, y)
      <4>1. y = u /\ w = c
        BY Zenon, <1>5, <3>3
      <4>2. i = m
        <5>1. ASSUME i < m PROVE FALSE
          <6>1. i + 1 \in 1 .. m /\ i + 1 <= m
            BY <5>1
          <6>2. ix[fr[i + 1].vertex] <= ix[u]
            BY Zenon, <1>2, <6>1 DEF Framed
          <6>3. ix[u] \in Nat /\ ix[fr[i + 1].vertex] \in Nat
            BY Zenon, <1>3, <6>1
          <6> QED
            BY SMTT(30), <3>1, <4>1, <5>1, <6>2, <6>3
        <5> QED
          BY <5>1
      <4> QED
        BY Zenon, <1>6, <4>1, <4>2
    <3> QED
      BY Zenon, <3>2, <3>3
  <2> QED
    BY ZenonT(60), <1>4, <2>1, <2>2, <2>3 DEF LinksOK
<1> QED
  BY ZenonT(60), <1>1, <1>8, <1>9, <1>10, <1>11, <1>12 DEF SearchOK


\* Dropping a finished frame changes no function's looked-at callees.
LEMMA LookedAlike ==
  ASSUME NEW E, NEW fr, NEW gr, Len(fr) \in Nat, Len(fr) # 0, fr[Len(fr)].callees = {},
         Len(gr) = Len(fr) - 1, \A i \in 1 .. Len(gr) : gr[i] = fr[i], NEW y
  PROVE  Looked(E, gr, y) = Looked(E, fr, y)
<1>1. ASSUME NEW x, NEW i \in 1 .. Len(fr), fr[i].vertex = y, x \in fr[i].callees
      PROVE  i \in 1 .. Len(gr) /\ gr[i].vertex = y /\ x \in gr[i].callees
  <2>1. i # Len(fr)
    BY Zenon, <1>1
  <2>2. i \in 1 .. Len(gr)
    BY <2>1
  <2> QED
    BY Zenon, <1>1, <2>2
<1>2. ASSUME NEW x, NEW i \in 1 .. Len(gr), gr[i].vertex = y, x \in gr[i].callees
      PROVE  i \in 1 .. Len(fr) /\ fr[i].vertex = y /\ x \in fr[i].callees
  BY SMTT(30), <1>2
<1> QED
  BY Zenon, <1>1, <1>2 DEF Looked

\* The frames gr are fr without the last, whose callees were all looked at.
Drops(E, fr, gr) ==
  /\ gr \in Seq(Frame(E)) /\ Len(gr) = Len(fr) - 1
  /\ \A i \in 1 .. Len(gr) : gr[i] = fr[i]
  /\ fr[Len(fr)].callees = {}

\* Of the links ll, kk has that of the last frame but one lowered to that of u.
Passes(ix, ll, kk, fr, u) ==
  /\ kk \in [DOMAIN ix -> Nat]
  /\ \A i \in 1 .. Len(fr) - 1 :
       /\ kk[fr[i].vertex] <= ll[fr[i].vertex]
       /\ i # Len(fr) - 1 => kk[fr[i].vertex] = ll[fr[i].vertex]
       /\ i = Len(fr) - 1 => kk[fr[i].vertex] <= ll[u]
       /\ kk[fr[i].vertex] = ll[fr[i].vertex] \/ kk[fr[i].vertex] = ll[u]

\* Leaving a frame whose link is lower than its number keeps the invariant.
LEMMA StayKeeps ==
  ASSUME NEW E, NEW ix, NEW ll, NEW st, NEW fr, NEW cs,
         SearchOK(E, ix, ll, st, fr, cs), NEW u, AtLast(fr, u), ll[u] # ix[u],
         NEW gr, Drops(E, fr, gr), NEW kk, Passes(ix, ll, kk, fr, u)
  PROVE  SearchOK(E, ix, kk, st, gr, cs)
<1>16. PICK m \in 1 .. Len(fr) : Len(fr) = m /\ u = fr[m].vertex
  BY ZenonT(60) DEF AtLast
<1> USE <1>16
<1>1. /\ TypedOK(E, ix, ll, st, fr, cs) /\ StackOK(ix, st, cs) /\ PathOK(E, ix, st, fr)
      /\ EdgesOK(E, ix, fr, cs) /\ ReachOK(E, ix, st, fr)
      /\ LinksOK(E, ix, ll, st, fr) /\ ClassesOK(E, cs)
  BY ZenonT(60) DEF SearchOK
<1>2. Framed(E, ix, ll, st, fr)
  BY Zenon, FramesAre
<1>0. m \in Nat /\ m \in 1 .. m /\ Len(gr) = m - 1
  BY Zenon, <1>2 DEF Framed, Drops
<1>3. /\ \A y \in On(st) : y \in DOMAIN ix /\ ix[y] \in Nat /\ ll[y] \in Nat
      /\ \A i \in 1 .. m : fr[i].vertex \in On(st)
  BY <1>2, Zenon DEF Framed
<1>15. \A y : Looked(E, gr, y) = Looked(E, fr, y)
  BY <1>0, LookedAlike DEF Drops
<1>4. /\ \A i \in 1 .. Len(gr) : i \in 1 .. m /\ gr[i] = fr[i] /\ i # m
      /\ \A i \in 1 .. m : i # m => i \in 1 .. Len(gr)
  BY <1>0 DEF Drops
<1>5. u \in On(st) /\ ix[u] \in Nat /\ ll[u] \in Nat /\ ll[u] < ix[u]
  <2>1. u \in On(st) /\ ll[u] <= ix[u]
    BY ZenonT(60), <1>0, <1>1, <1>3 DEF LinksOK
  <2> QED
    BY SMTT(30), <1>3, <2>1
<1>6. PICK w \in On(st) : ix[w] = ll[u] /\ Goes(E, u, w)
  BY ZenonT(60), <1>0, <1>1 DEF LinksOK
<1>7. PICK k \in 1 .. m : ix[fr[k].vertex] <= ix[w] /\ Goes(E, w, fr[k].vertex)
  BY Zenon, <1>1 DEF ReachOK
<1>8. k # m /\ k \in 1 .. Len(gr) /\ ix[fr[k].vertex] <= ix[u] /\ Goes(E, u, fr[k].vertex)
  <2>1. k # m /\ ix[fr[k].vertex] <= ix[u]
    BY SMTT(30), <1>3, <1>5, <1>6, <1>7
  <2>2. Goes(E, u, fr[k].vertex)
    BY Zenon, <1>6, <1>7, GoesTrans
  <2> QED
    BY Zenon, <1>4, <2>1, <2>2
<1>9. TypedOK(E, ix, kk, st, gr, cs)
  BY Zenon, <1>1 DEF TypedOK, Drops, Passes
<1>10. PathOK(E, ix, st, gr)
  <2>1. ASSUME NEW i \in 1 .. Len(gr)
        PROVE  gr[i].vertex \in On(st) /\ gr[i].callees \subseteq E[gr[i].vertex]
    BY ZenonT(60), <1>1, <1>4 DEF PathOK
  <2>2. ASSUME NEW i \in 1 .. Len(gr), NEW j \in 1 .. Len(gr), i < j
        PROVE  ix[gr[i].vertex] < ix[gr[j].vertex]
    BY ZenonT(60), <1>1, <1>4, <2>2 DEF PathOK
  <2> QED
    BY ZenonT(60), <2>1, <2>2 DEF PathOK
<1>11. EdgesOK(E, ix, gr, cs)
  BY ZenonT(60), <1>1, <1>15 DEF EdgesOK
<1>12. ReachOK(E, ix, st, gr)
  <2>1. ASSUME NEW i \in 1 .. Len(gr), NEW y \in On(st), ix[gr[i].vertex] <= ix[y]
        PROVE  Goes(E, gr[i].vertex, y)
    BY ZenonT(60), <1>1, <1>4, <2>1 DEF ReachOK
  <2>2. ASSUME NEW y \in On(st)
        PROVE  \E i \in 1 .. Len(gr) : ix[gr[i].vertex] <= ix[y] /\ Goes(E, y, gr[i].vertex)
    <3>1. PICK i \in 1 .. m : ix[fr[i].vertex] <= ix[y] /\ Goes(E, y, fr[i].vertex)
      BY Zenon, <1>1 DEF ReachOK
    <3>2. CASE i # m
      BY Zenon, <1>4, <3>1, <3>2
    <3>3. CASE i = m
      <4>1. Goes(E, y, fr[k].vertex)
        BY ZenonT(60), <1>8, <3>1, <3>3, GoesTrans
      <4>2. ix[fr[k].vertex] <= ix[y]
        BY SMTT(30), <1>3, <1>5, <1>8, <3>1, <3>3
      <4> QED
        BY Zenon, <1>4, <1>8, <4>1, <4>2
    <3> QED
      BY ZenonT(60), <3>2, <3>3
  <2> QED
    BY ZenonT(60), <2>1, <2>2 DEF ReachOK
<1>13. \A i \in 1 .. Len(gr) :
         /\ gr[i].vertex = fr[i].vertex /\ gr[i].vertex \in On(st)
         /\ kk[gr[i].vertex] \in Nat /\ kk[gr[i].vertex] <= ll[gr[i].vertex]
         /\ i # m - 1 => kk[gr[i].vertex] = ll[gr[i].vertex]
         /\ i = m - 1 => kk[gr[i].vertex] <= ll[u]
         /\ kk[gr[i].vertex] = ll[gr[i].vertex] \/ kk[gr[i].vertex] = ll[u]
  <2>1. ASSUME NEW i \in 1 .. Len(gr)
        PROVE  /\ gr[i].vertex = fr[i].vertex /\ gr[i].vertex \in On(st)
               /\ kk[gr[i].vertex] \in Nat
    <3>1. gr[i].vertex = fr[i].vertex /\ gr[i].vertex \in On(st)
      BY ZenonT(60), <1>3, <1>4
    <3> QED
      BY Zenon, <1>3, <3>1 DEF Passes
  <2>2. \A i \in 1 .. Len(gr) :
          /\ kk[fr[i].vertex] <= ll[fr[i].vertex]
          /\ i # m - 1 => kk[fr[i].vertex] = ll[fr[i].vertex]
          /\ i = m - 1 => kk[fr[i].vertex] <= ll[u]
          /\ kk[fr[i].vertex] = ll[fr[i].vertex] \/ kk[fr[i].vertex] = ll[u]
    BY ZenonT(60), <1>0 DEF Passes
  <2> QED
    BY ZenonT(60), <2>1, <2>2
<1>14. LinksOK(E, ix, kk, st, gr)
  <2>1. ASSUME NEW i \in 1 .. Len(gr) PROVE kk[gr[i].vertex] <= ix[gr[i].vertex]
    <3>1. ll[gr[i].vertex] <= ix[gr[i].vertex]
      BY ZenonT(60), <1>1, <1>4 DEF LinksOK
    <3> QED
      BY SMTT(30), <1>3, <1>13, <3>1
  <2>2. ASSUME NEW i \in 1 .. Len(gr)
        PROVE  \E x \in On(st) : ix[x] = kk[gr[i].vertex] /\ Goes(E, gr[i].vertex, x)
    <3>1. CASE kk[gr[i].vertex] = ll[gr[i].vertex]
      BY ZenonT(60), <1>1, <1>4, <3>1 DEF LinksOK
    <3>2. CASE kk[gr[i].vertex] # ll[gr[i].vertex]
      <4>2. kk[gr[i].vertex] = ll[u]
        BY ZenonT(60), <1>13, <3>2
      <4>3. Goes(E, gr[i].vertex, u)
        <5>1. i \in 1 .. m /\ i <= m /\ gr[i] = fr[i]
          BY SMTT(30), <1>4
        <5>2. ix[fr[i].vertex] <= ix[u]
          BY ZenonT(60), <1>0, <1>2, <5>1 DEF Framed
        <5> QED
          BY ZenonT(60), <1>1, <1>5, <5>1, <5>2 DEF ReachOK
      <4> QED
        BY Zenon, <1>6, <4>2, <4>3, GoesTrans
    <3> QED
      BY ZenonT(60), <3>1, <3>2
  <2>3. ASSUME NEW i \in 1 .. Len(gr), NEW y \in On(st), Within(ix, gr, i, y),
               NEW x \in Looked(E, gr, y) \cap On(st)
        PROVE  kk[gr[i].vertex] <= ix[x]
    <3>1. /\ ix[gr[i].vertex] <= ix[y] /\ (i < m - 1 => ix[y] < ix[gr[i + 1].vertex])
          /\ x \in Looked(E, fr, y) \cap On(st) /\ ix[x] \in Nat /\ ix[y] \in Nat
      <4>1. x \in Looked(E, fr, y) \cap On(st)
        BY Zenon, <1>15, <2>3
      <4>2. ix[x] \in Nat /\ ix[y] \in Nat
        BY ZenonT(60), <1>3, <4>1
      <4> QED
        BY ZenonT(60), <1>0, <2>3, <4>1, <4>2 DEF Within
    <3>2. ASSUME NEW j \in 1 .. m, Within(ix, fr, j, y) PROVE ll[fr[j].vertex] <= ix[x]
      BY ZenonT(60), <1>1, <3>1, <3>2 DEF LinksOK
    <3>6. /\ i \in 1 .. m /\ gr[i].vertex = fr[i].vertex /\ ll[gr[i].vertex] \in Nat
          /\ kk[gr[i].vertex] \in Nat /\ kk[gr[i].vertex] <= ll[gr[i].vertex]
      BY ZenonT(60), <1>3, <1>4, <1>13
    <3>7. ASSUME Within(ix, fr, i, y) PROVE kk[gr[i].vertex] <= ix[x]
      <4>1. ll[gr[i].vertex] <= ix[x]
        BY ZenonT(60), <3>2, <3>6, <3>7
      <4> QED
        BY SMTT(30), <3>1, <3>6, <4>1
    <3>3. CASE i < m - 1
      <4>1. i + 1 \in 1 .. Len(gr) /\ gr[i + 1] = fr[i + 1]
        BY SMTT(30), <1>0, <1>4, <3>3
      <4>2. Within(ix, fr, i, y)
        BY ZenonT(60), <3>1, <3>3, <3>6, <4>1 DEF Within
      <4> QED
        BY ZenonT(60), <3>7, <4>2
    <3>4. CASE i = m - 1 /\ ix[y] < ix[u]
      <4>1. Within(ix, fr, i, y)
        BY SMTT(30), <1>0, <3>1, <3>4, <3>6 DEF Within
      <4> QED
        BY Zenon, <3>7, <4>1
    <3>5. CASE i = m - 1 /\ ix[u] <= ix[y]
      <4>1. Within(ix, fr, m, y)
        BY <1>0, <3>5 DEF Within
      <4>2. ll[u] <= ix[x]
        BY ZenonT(60), <1>0, <3>2, <4>1
      <4>3. kk[gr[i].vertex] <= ll[u]
        BY Zenon, <1>13, <3>5
      <4> QED
        BY SMTT(30), <1>5, <3>1, <3>6, <4>2, <4>3
    <3> QED
      BY SMTT(30), <1>0, <1>5, <3>1, <3>3, <3>4, <3>5
  <2> QED
    BY ZenonT(60), <2>1, <2>2, <2>3 DEF LinksOK
<1> QED
  BY ZenonT(60), <1>1, <1>9, <1>10, <1>11, <1>12, <1>14 DEF SearchOK


\* The part of the stack from u on.
Above(ix, st, u) == {y \in On(st) : ix[u] <= ix[y]}

\* The stack su is what st has below u.
Pops(E, ix, st, su, u) ==
  /\ su \in Seq(DOMAIN E) /\ Len(su) \in 0 .. Len(st)
  /\ \A i \in 1 .. Len(su) : su[i] = st[i]
  /\ On(su) = On(st) \ Above(ix, st, u)

\* The last frame is that of u, finished, and its link is its number.
AtRoot(ix, ll, fr, u) ==
  /\ Len(fr) \in 1 .. Len(fr) /\ u = fr[Len(fr)].vertex
  /\ fr[Len(fr)].callees = {} /\ ll[u] = ix[u]

\* The stack from a finished root on is a class, and calls only components
\* and itself.
LEMMA PopIsClass ==
  ASSUME NEW E, IsMap(E), NEW ix, NEW ll, NEW st, NEW fr, NEW cs,
         SearchOK(E, ix, ll, st, fr, cs), NEW u, AtRoot(ix, ll, fr, u)
  PROVE  /\ u \in Above(ix, st, u) /\ Above(ix, st, u) = Class(E, u) /\ u \in DOMAIN E
         /\ Closed(E, (UNION cs) \cup Above(ix, st, u))
<1> DEFINE C == Above(ix, st, u)
           P == UNION cs
           m == Len(fr)
<1>0. m \in 1 .. m /\ u = fr[m].vertex /\ fr[m].callees = {} /\ ll[u] = ix[u]
  BY Zenon DEF AtRoot
<1>1. /\ TypedOK(E, ix, ll, st, fr, cs) /\ StackOK(ix, st, cs)
      /\ EdgesOK(E, ix, fr, cs) /\ ReachOK(E, ix, st, fr) /\ LinksOK(E, ix, ll, st, fr)
  BY Zenon DEF SearchOK
<1>2. Framed(E, ix, ll, st, fr)
  BY Zenon, FramesAre
<1>3. /\ \A y \in On(st) : y \in DOMAIN ix /\ ix[y] \in Nat
      /\ \A i \in 1 .. m : fr[i].vertex \in On(st)
  BY <1>2, Zenon DEF Framed
<1>4. /\ DOMAIN ix \subseteq DOMAIN E /\ DOMAIN ix = On(st) \cup P /\ On(st) \cap P = {}
      /\ P \subseteq DOMAIN E
  BY Zenon, <1>1 DEF TypedOK, StackOK
<1>5. u \in On(st) /\ u \in C /\ u \in DOMAIN E /\ ix[u] \in Nat /\ C \subseteq On(st)
  <2>1. u \in On(st) /\ ix[u] \in Nat
    BY Zenon, <1>0, <1>3
  <2> QED
    BY <1>4, <2>1 DEF Above
<1>6. ASSUME NEW y \in C PROVE Goes(E, u, y) /\ Goes(E, y, u)
  <2>1. y \in On(st) /\ ix[u] <= ix[y]
    BY ZenonT(60), <1>6 DEF Above
  <2>2. Goes(E, u, y)
    BY ZenonT(60), <1>0, <1>1, <2>1 DEF ReachOK
  <2>3. PICK i \in 1 .. m : Goes(E, y, fr[i].vertex)
    BY ZenonT(60), <1>0, <1>1, <2>1 DEF ReachOK
  <2>4. ix[fr[i].vertex] <= ix[u]
    BY SMTT(30), <1>0, <1>2 DEF Framed
  <2>5. Goes(E, fr[i].vertex, u)
    BY ZenonT(60), <1>0, <1>1, <1>5, <2>4 DEF ReachOK
  <2> QED
    BY Zenon, <2>2, <2>3, <2>5, GoesTrans
<1>7. ASSUME NEW y \in C, NEW w \in E[y] PROVE w \in P \cup C
  <2>1. y \in On(st) /\ ix[u] <= ix[y] /\ y \in DOMAIN ix /\ ix[y] \in Nat
    BY Zenon, <1>3, <1>7 DEF Above
  <2>2. ASSUME NEW i \in 1 .. Len(fr), fr[i].vertex = y PROVE w \notin fr[i].callees
    <3>1. ix[fr[i].vertex] <= ix[u]
      BY SMTT(30), <1>0, <1>2 DEF Framed
    <3>2. ix[fr[i].vertex] = ix[fr[m].vertex]
      BY SMTT(30), <1>0, <1>3, <1>5, <2>1, <2>2, <3>1
    <3>3. i = m
      BY Zenon, <1>0, <1>2, <3>2 DEF Framed
    <3> QED
      BY Zenon, <1>0, <3>3
  <2>3. w \in Looked(E, fr, y)
    BY ZenonT(60), <1>7, <2>2 DEF Looked
  <2>4. w \in DOMAIN ix
    BY Zenon, <1>1, <2>1, <2>3 DEF EdgesOK
  <2>5. ASSUME w \in On(st) PROVE w \in C
    <3>1. Within(ix, fr, m, y)
      BY SMTT(30), <1>0, <2>1 DEF Within
    <3>2. ll[u] <= ix[w]
      BY Zenon, <1>0, <1>1, <2>1, <2>3, <2>5, <3>1 DEF LinksOK
    <3> QED
      BY Zenon, <1>0, <2>5, <3>2 DEF Above
  <2> QED
    BY Zenon, <1>4, <2>4, <2>5
<1>8. Closed(E, P)
  BY ZenonT(60), <1>1 DEF EdgesOK
<1>9. Closed(E, P \cup C)
  <2>1. ASSUME NEW h \in P \cup C PROVE E[h] \subseteq P \cup C
    <3>1. CASE h \in P
      BY Zenon, <1>8, <3>1 DEF Closed
    <3>2. CASE h \in C
      BY Zenon, <1>7, <3>2
    <3> QED
      BY Zenon, <3>1, <3>2
  <2> QED
    BY Zenon, <2>1 DEF Closed
<1> HIDE DEF C, P
<1>10. C \subseteq Class(E, u)
  BY Zenon, <1>4, <1>5, <1>6 DEF Class
<1>11. ASSUME NEW g \in Class(E, u) PROVE g \in C
  <2>1. Goes(E, u, g) /\ Goes(E, g, u)
    BY Zenon, <1>11 DEF Class
  <2>2. g \in P \cup C
    <3>1. P \cup C \in SUBSET DOMAIN E /\ u \in P \cup C
      BY Zenon, <1>4, <1>5
    <3> QED
      BY Zenon, <1>9, <2>1, <3>1, GoesStays
  <2>3. g \notin P
    <3>1. P \in SUBSET DOMAIN E
      BY Zenon, <1>4
    <3>2. g \in P => u \in P
      BY Zenon, <1>8, <2>1, <3>1, GoesStays
    <3> QED
      BY Zenon, <1>4, <1>5, <3>2
  <2> QED
    BY Zenon, <2>2, <2>3
<1>12. C = Class(E, u)
  BY Zenon, <1>10, <1>11
<1> QED
  BY <1>5, <1>9, <1>12, Zenon DEF C, P


\* Popping a component keeps the invariant.
LEMMA PopKeeps ==
  ASSUME NEW E, IsMap(E), NEW ix, NEW ll, NEW st, NEW fr, NEW cs,
         SearchOK(E, ix, ll, st, fr, cs), NEW u, AtLast(fr, u), ll[u] = ix[u],
         NEW gr, Drops(E, fr, gr), NEW kk, Passes(ix, ll, kk, fr, u),
         NEW su, Pops(E, ix, st, su, u)
  PROVE  SearchOK(E, ix, kk, su, gr, cs \cup {Above(ix, st, u)})
<1> DEFINE C == Above(ix, st, u)
           ds == cs \cup {C}
<1>6. u \in C /\ C = Class(E, u) /\ u \in DOMAIN E /\ Closed(E, (UNION cs) \cup C)
  <2>1. AtRoot(ix, ll, fr, u)
    BY Zenon DEF Drops, AtRoot, AtLast
  <2> QED
    BY ZenonT(60), <2>1, PopIsClass
<1>0. PICK m \in 1 .. Len(fr) : Len(fr) = m /\ u = fr[m].vertex
  BY ZenonT(60) DEF AtLast
<1> USE <1>0
<1>1. /\ TypedOK(E, ix, ll, st, fr, cs) /\ StackOK(ix, st, cs) /\ PathOK(E, ix, st, fr)
      /\ EdgesOK(E, ix, fr, cs) /\ ReachOK(E, ix, st, fr)
      /\ LinksOK(E, ix, ll, st, fr) /\ ClassesOK(E, cs)
  BY ZenonT(60) DEF SearchOK
<1>2. Framed(E, ix, ll, st, fr)
  BY ZenonT(60), FramesAre
<1>3. /\ m \in Nat /\ m \in 1 .. m /\ Len(gr) = m - 1
      /\ \A y \in On(st) : y \in DOMAIN ix /\ ix[y] \in Nat /\ ll[y] \in Nat
      /\ \A i \in 1 .. m : fr[i].vertex \in On(st)
  <2>1. m \in Nat /\ m \in 1 .. m /\ Len(gr) = m - 1
    BY Zenon, <1>2 DEF Framed, Drops
  <2>2. /\ \A y \in On(st) : y \in DOMAIN ix /\ ix[y] \in Nat /\ ll[y] \in Nat
        /\ \A i \in 1 .. m : fr[i].vertex \in On(st)
    BY ZenonT(60), <1>2 DEF Framed
  <2> QED
    BY ZenonT(60), <2>1, <2>2
<1>4. /\ \A i \in 1 .. Len(gr) : i \in 1 .. m /\ gr[i] = fr[i] /\ i # m
      /\ \A i \in 1 .. m : i # m => i \in 1 .. Len(gr)
  BY SMTT(30), <1>3 DEF Drops
<1>5. \A y : Looked(E, gr, y) = Looked(E, fr, y)
  BY SMTT(30), <1>3, LookedAlike DEF Drops
<1>7. UNION ds = (UNION cs) \cup C
  <2> HIDE DEF C
  <2> QED
    BY ZenonT(60)
<1>8. /\ u \in On(st) /\ ix[u] \in Nat /\ On(su) = On(st) \ C /\ C \subseteq On(st)
      /\ \A y \in On(su) : y \in On(st) /\ y \in DOMAIN ix /\ ix[y] \in Nat /\ ix[y] < ix[u]
      /\ \A y \in On(st) : ix[y] < ix[u] => y \in On(su)
  <2>1. On(su) = On(st) \ C /\ C \subseteq On(st)
    BY Zenon DEF Pops, Above
  <2>2. u \in On(st) /\ ix[u] \in Nat
    BY ZenonT(60), <1>3
  <2>3. ASSUME NEW y \in On(st) PROVE y \in C <=> ~(ix[y] < ix[u])
    BY SMTT(30), <1>3, <2>2 DEF Above
  <2> QED
    BY ZenonT(60), <1>3, <2>1, <2>2, <2>3
<1> HIDE DEF C, ds
<1>9. \A i \in 1 .. Len(gr) :
        /\ gr[i].vertex = fr[i].vertex /\ gr[i].vertex \in On(st) /\ ix[gr[i].vertex] < ix[u]
        /\ kk[gr[i].vertex] = ll[gr[i].vertex] /\ ll[gr[i].vertex] <= ix[gr[i].vertex]
  <2>1. ASSUME NEW i \in 1 .. Len(gr)
        PROVE  /\ gr[i].vertex = fr[i].vertex /\ gr[i].vertex \in On(st)
               /\ ix[gr[i].vertex] < ix[u] /\ ll[gr[i].vertex] <= ix[gr[i].vertex]
               /\ kk[gr[i].vertex] = ll[gr[i].vertex]
    <3>1. i \in 1 .. m /\ i < m /\ gr[i] = fr[i] /\ fr[i].vertex \in On(st)
      BY SMTT(30), <1>3, <1>4
    <3>2. ix[fr[i].vertex] < ix[u]
      BY ZenonT(60), <1>1, <1>3, <3>1 DEF PathOK
    <3>3. ll[fr[i].vertex] <= ix[fr[i].vertex]
      BY ZenonT(60), <1>1, <3>1 DEF LinksOK
    <3>4. /\ kk[fr[i].vertex] = ll[fr[i].vertex] \/ kk[fr[i].vertex] = ll[u]
          /\ kk[fr[i].vertex] <= ll[fr[i].vertex]
      BY ZenonT(60), <1>3, <3>1 DEF Passes
    <3>5. /\ ix[fr[i].vertex] \in Nat /\ ll[fr[i].vertex] \in Nat /\ ll[u] = ix[u]
      BY ZenonT(60), <1>3, <3>1
    <3>6. kk[fr[i].vertex] = ll[fr[i].vertex]
      <4>1. ix[u] \in Nat
        BY Zenon, <1>8
      <4>2. ~(ll[u] <= ll[fr[i].vertex])
        BY SMTT(30), <3>2, <3>3, <3>5, <4>1
      <4> QED
        BY Zenon, <3>4, <4>2
    <3> QED
      BY ZenonT(60), <3>1, <3>2, <3>3, <3>6
  <2> QED
    BY ZenonT(60), <2>1
<1>10. TypedOK(E, ix, kk, su, gr, ds)
  <2>1. ds \subseteq SUBSET DOMAIN E
    BY ZenonT(60), <1>1, <1>6 DEF TypedOK, Class, ds
  <2> QED
    BY Zenon, <1>1, <2>1 DEF TypedOK, Drops, Passes, Pops
<1>11. StackOK(ix, su, ds)
  <2>1. ASSUME NEW i \in 1 .. Len(su), NEW j \in 1 .. Len(su), i < j
        PROVE  ix[su[i]] < ix[su[j]]
    <3>1. i \in 1 .. Len(st) /\ j \in 1 .. Len(st) /\ su[i] = st[i] /\ su[j] = st[j]
      BY SMTT(30), <1>2 DEF Pops, Framed
    <3> QED
      BY ZenonT(60), <1>1, <2>1, <3>1 DEF StackOK
  <2>2. DOMAIN ix = On(st) \cup UNION cs /\ On(st) \cap UNION cs = {}
    BY ZenonT(60), <1>1 DEF StackOK
  <2>3. DOMAIN ix = On(su) \cup UNION ds /\ On(su) \cap UNION ds = {}
    BY ZenonT(60), <1>7, <1>8, <2>2
  <2> QED
    BY ZenonT(60), <2>1, <2>3 DEF StackOK
<1>12. PathOK(E, ix, su, gr)
  <2>1. ASSUME NEW i \in 1 .. Len(gr)
        PROVE  gr[i].vertex \in On(su) /\ gr[i].callees \subseteq E[gr[i].vertex]
    <3>1. gr[i].callees \subseteq E[gr[i].vertex]
      BY ZenonT(60), <1>1, <1>4 DEF PathOK
    <3> QED
      BY ZenonT(60), <1>8, <1>9, <3>1
  <2>2. ASSUME NEW i \in 1 .. Len(gr), NEW j \in 1 .. Len(gr), i < j
        PROVE  ix[gr[i].vertex] < ix[gr[j].vertex]
    BY ZenonT(60), <1>1, <1>4, <2>2 DEF PathOK
  <2> QED
    BY ZenonT(60), <2>1, <2>2 DEF PathOK
<1>13. EdgesOK(E, ix, gr, ds)
  BY ZenonT(60), <1>1, <1>5, <1>6, <1>7 DEF EdgesOK
<1>14. ReachOK(E, ix, su, gr)
  <2>1. ASSUME NEW i \in 1 .. Len(gr), NEW y \in On(su), ix[gr[i].vertex] <= ix[y]
        PROVE  Goes(E, gr[i].vertex, y)
    BY ZenonT(60), <1>1, <1>4, <1>8, <2>1 DEF ReachOK
  <2>2. ASSUME NEW y \in On(su)
        PROVE  \E i \in 1 .. Len(gr) : ix[gr[i].vertex] <= ix[y] /\ Goes(E, y, gr[i].vertex)
    <3>1. PICK i \in 1 .. m : ix[fr[i].vertex] <= ix[y] /\ Goes(E, y, fr[i].vertex)
      BY ZenonT(60), <1>1, <1>8 DEF ReachOK
    <3>2. i # m
      <4>1. ix[y] \in Nat /\ ix[u] \in Nat /\ ix[y] < ix[u]
        BY Zenon, <1>8
      <4>2. ~(ix[u] <= ix[y])
        BY <4>1
      <4> QED
        BY Zenon, <1>0, <3>1, <4>2
    <3> QED
      BY ZenonT(60), <1>4, <3>1, <3>2
  <2> QED
    BY ZenonT(60), <2>1, <2>2 DEF ReachOK
<1>15. LinksOK(E, ix, kk, su, gr)
  <2>1. ASSUME NEW i \in 1 .. Len(gr)
        PROVE  \E w \in On(su) : ix[w] = kk[gr[i].vertex] /\ Goes(E, gr[i].vertex, w)
    <3>1. PICK w \in On(st) : ix[w] = ll[fr[i].vertex] /\ Goes(E, fr[i].vertex, w)
      BY ZenonT(60), <1>1, <1>4 DEF LinksOK
    <3>2. ix[w] < ix[u]
      <4>1. /\ ix[fr[i].vertex] < ix[u] /\ ll[fr[i].vertex] <= ix[fr[i].vertex]
            /\ fr[i].vertex \in On(st)
        BY Zenon, <1>9
      <4>2. /\ ix[fr[i].vertex] \in Nat /\ ll[fr[i].vertex] \in Nat /\ ix[u] \in Nat
        BY Zenon, <1>3, <1>8, <4>1
      <4>3. ll[fr[i].vertex] < ix[u]
        BY SMTT(30), <4>1, <4>2
      <4> QED
        BY Zenon, <3>1, <4>3
    <3> QED
      BY ZenonT(60), <1>8, <1>9, <3>1, <3>2
  <2>2. ASSUME NEW i \in 1 .. Len(gr), NEW y \in On(su), Within(ix, gr, i, y),
               NEW x \in Looked(E, gr, y) \cap On(su)
        PROVE  kk[gr[i].vertex] <= ix[x]
    <3>1. /\ ix[gr[i].vertex] <= ix[y] /\ (i < m - 1 => ix[y] < ix[gr[i + 1].vertex])
          /\ i \in 1 .. m /\ gr[i] = fr[i] /\ y \in On(st) /\ ix[y] < ix[u]
      BY ZenonT(60), <1>3, <1>4, <1>8, <2>2 DEF Within
    <3>2. x \in Looked(E, fr, y) \cap On(st)
      BY ZenonT(60), <1>5, <1>8, <2>2
    <3>3. CASE i < m - 1
      <4>1. i + 1 \in 1 .. Len(gr) /\ gr[i + 1] = fr[i + 1]
        <5>1. i + 1 \in 1 .. Len(gr)
          BY SMTT(30), <1>3, <3>3
        <5> QED
          BY ZenonT(60), <1>4, <5>1
      <4>2. Within(ix, fr, i, y)
        BY ZenonT(60), <3>1, <3>3, <4>1 DEF Within
      <4> QED
        BY ZenonT(60), <1>1, <1>9, <3>1, <3>2, <4>2 DEF LinksOK
    <3>4. CASE i = m - 1
      <4>1. Within(ix, fr, i, y)
        <5>1. i + 1 = m
          BY SMTT(30), <1>3, <3>4
        <5> QED
          BY ZenonT(60), <3>1, <5>1 DEF Within
      <4> QED
        BY Zenon, <1>1, <1>9, <3>1, <3>2, <4>1 DEF LinksOK
    <3> QED
      BY <1>3, <3>3, <3>4
  <2> QED
    BY ZenonT(60), <1>9, <2>1, <2>2 DEF LinksOK
<1>16. ClassesOK(E, ds)
  BY ZenonT(60), <1>1, <1>6 DEF ClassesOK, ds
<1>17. SearchOK(E, ix, kk, su, gr, ds)
  BY ZenonT(60), <1>10, <1>11, <1>12, <1>13, <1>14, <1>15, <1>16 DEF SearchOK
<1> QED
  BY ZenonT(60), <1>17 DEF ds, C


(***************************************************************************)
(* The search                                                              *)
(***************************************************************************)

CallMap == [f \in graph.functions |-> Callees(f)]

\* The calls of a graph are a map from its functions to sets of them.
LEMMA CallsAreMap ==
  ASSUME IsGraph(graph)
  PROVE  IsMap(CallMap) /\ DOMAIN CallMap = graph.functions
BY Zenon DEF IsGraph, IsMap, CallMap, Callees

\* Before the first function the invariant holds.
LEMMA InitSearches ==
  ASSUME SearchInit, IsGraph(graph)
  PROVE  SearchOK(CallMap, index, lowlink, stack, dfs, sccs)
<1>1. index = <<>> /\ lowlink = <<>> /\ stack = <<>> /\ dfs = <<>> /\ sccs = {}
  BY Zenon DEF SearchInit
<1>2. On(stack) = {} /\ UNION sccs = {} /\ DOMAIN index = {} /\ 1 .. Len(dfs) = {}
      /\ 1 .. Len(stack) = {}
  BY <1>1 DEF On
<1>3. TypedOK(CallMap, index, lowlink, stack, dfs, sccs)
  BY <1>1, <1>2 DEF TypedOK
<1>4. StackOK(index, stack, sccs) /\ PathOK(CallMap, index, stack, dfs)
  BY Zenon, <1>2 DEF StackOK, PathOK
<1>5. EdgesOK(CallMap, index, dfs, sccs) /\ ReachOK(CallMap, index, stack, dfs)
  BY Zenon, <1>2 DEF EdgesOK, ReachOK, Closed
<1>6. LinksOK(CallMap, index, lowlink, stack, dfs) /\ ClassesOK(CallMap, sccs)
  BY ZenonT(60), <1>1, <1>2 DEF LinksOK, ClassesOK
<1> QED
  BY Zenon, <1>3, <1>4, <1>5, <1>6 DEF SearchOK

\* Discover keeps the invariant.
LEMMA DiscoverSearches ==
  ASSUME SearchOK(CallMap, index, lowlink, stack, dfs, sccs), IsGraph(graph), Discover
  PROVE  SearchOK(CallMap, index', lowlink', stack', dfs', sccs)
<1>1. PICK v \in graph.functions : v \notin DOMAIN index /\ PushVertex(v, dfs)
  BY ZenonT(60) DEF Discover
<1>2. v \in (DOMAIN CallMap) \ DOMAIN index /\ IsMap(CallMap)
  BY Zenon, <1>1, CallsAreMap
<1>3. Leads(CallMap, dfs, dfs, v)
  BY DEF Leads, Discover
<1>4. Pushes(CallMap, v, dfs, index, lowlink, stack, index', lowlink', stack', dfs')
  BY Zenon, <1>1 DEF PushVertex, Pushes, CallMap
<1> QED
  BY ZenonT(60), <1>2, <1>3, <1>4, PushKeeps

\* VisitCallee keeps the invariant.
LEMMA VisitSearches ==
  ASSUME SearchOK(CallMap, index, lowlink, stack, dfs, sccs), IsGraph(graph), VisitCallee
  PROVE  SearchOK(CallMap, index', lowlink', stack', dfs', sccs)
<1> DEFINE m == Len(dfs)
           u == dfs[m].vertex
<1>1. PICK c \in dfs[m].callees :
        LET frames == [dfs EXCEPT ![m].callees = @ \ {c}]
        IN  IF c \notin DOMAIN index
            THEN PushVertex(c, frames)
            ELSE /\ dfs' = frames
                 /\ lowlink' = IF OnStack(c) /\ index[c] < lowlink[u]
                               THEN [lowlink EXCEPT ![u] = index[c]]
                               ELSE lowlink
                 /\ UNCHANGED <<index, stack>>
  BY Zenon DEF VisitCallee, Top
<1> DEFINE g == [dfs[m] EXCEPT !.callees = @ \ {c}]
           gr == [dfs EXCEPT ![m] = g]
<1>2. IsMap(CallMap) /\ DOMAIN CallMap = graph.functions
  BY Zenon, CallsAreMap
<1>3. Framed(CallMap, index, lowlink, stack, dfs) /\ dfs \in Seq(Frame(CallMap))
  BY Zenon, FramesAre DEF SearchOK, TypedOK
<1>4. m \in 1 .. m /\ m \in Nat
  BY SMTT(30), <1>3 DEF VisitCallee
<1>5. dfs[m] \in Frame(CallMap) /\ c \in CallMap[u] /\ c \in DOMAIN CallMap /\ u \in DOMAIN index
  <2>1. dfs[m] \in Frame(CallMap) /\ dfs[m].callees \subseteq CallMap[u] /\ u \in On(stack)
    BY <1>3, <1>4, Zenon DEF Framed
  <2>2. dfs[m].callees \subseteq DOMAIN CallMap
    BY Zenon, <2>1 DEF Frame
  <2>3. u \in DOMAIN index
    BY <1>3, <2>1, Zenon DEF Framed
  <2> QED
    BY Zenon, <2>1, <2>2, <2>3
<1>6. g \in Frame(CallMap) /\ g.vertex = u /\ g.callees = dfs[m].callees \ {c}
  BY Zenon, <1>5 DEF Frame
<1> HIDE DEF g
<1>7. /\ gr \in Seq(Frame(CallMap)) /\ Len(gr) = m /\ gr[m] = g
      /\ \A i \in 1 .. m : i # m => gr[i] = dfs[i]
  BY <1>3, <1>4, <1>6, ExceptIs
<1>8. gr = [dfs EXCEPT ![m].callees = @ \ {c}]
  BY Zenon DEF g
<1> HIDE DEF gr
<1>9. Looks(CallMap, dfs, gr, c)
  BY ZenonT(60), <1>4, <1>6, <1>7 DEF Looks
<1>10. CASE c \notin DOMAIN index
  <2>1. Leads(CallMap, dfs, gr, c)
    BY Zenon, <1>5, <1>9 DEF Looks, Leads
  <2>2. PushVertex(c, gr)
    BY ZenonT(60), <1>1, <1>8, <1>10
  <2>3. Pushes(CallMap, c, gr, index, lowlink, stack, index', lowlink', stack', dfs')
    BY ZenonT(60), <1>2, <1>5, <2>2 DEF PushVertex, Pushes, CallMap
  <2>4. c \in (DOMAIN CallMap) \ DOMAIN index
    BY ZenonT(60), <1>5, <1>10
  <2> QED
    BY ZenonT(60), <1>2, <2>1, <2>3, <2>4, PushKeeps
<1>11. CASE c \in DOMAIN index
  <2>1. /\ dfs' = gr /\ index' = index /\ stack' = stack
        /\ lowlink' = IF OnStack(c) /\ index[c] < lowlink[u]
                      THEN [lowlink EXCEPT ![u] = index[c]] ELSE lowlink
    BY Zenon, <1>1, <1>8, <1>11
  <2>2. index \in [DOMAIN index -> Nat] /\ lowlink \in [DOMAIN index -> Nat]
        /\ stack \in Seq(DOMAIN CallMap)
    BY Zenon DEF SearchOK, TypedOK
  <2>3. OnStack(c) <=> c \in On(stack)
    <3>1. DOMAIN stack = 1 .. Len(stack)
      BY <2>2
    <3> QED
      BY <3>1, Zenon DEF OnStack, On, Range
  <2>4. Lowers(index, lowlink, stack, lowlink', u, c)
    <3>1. u \in DOMAIN index /\ lowlink[u] \in Nat /\ index[c] \in Nat
      BY Zenon, <1>5, <1>11, <2>2
    <3> HIDE DEF u
    <3>2. CASE c \in On(stack) /\ index[c] < lowlink[u]
      BY SMTT(30), <2>1, <2>2, <2>3, <3>1, <3>2 DEF Lowers
    <3>3. CASE ~(c \in On(stack) /\ index[c] < lowlink[u])
      BY SMTT(30), <2>1, <2>2, <2>3, <3>1, <3>3 DEF Lowers
    <3> QED
      BY Zenon, <3>2, <3>3
  <2>5. SearchOK(CallMap, index, lowlink', stack, gr, sccs)
    <3>1. AtLast(dfs, u)
      BY Zenon, <1>4 DEF AtLast
    <3> QED
      BY ZenonT(60), <1>9, <1>11, <2>4, <3>1, SkipKeeps
  <2> QED
    BY Zenon, <2>1, <2>5
<1> QED
  BY Zenon, <1>10, <1>11


\* A prefix of a sequence.
LEMMA PrefixIs ==
  ASSUME NEW S, NEW s \in Seq(S), NEW k \in 0 .. Len(s)
  PROVE  /\ SubSeq(s, 1, k) \in Seq(S) /\ Len(SubSeq(s, 1, k)) = k
         /\ \A i \in 1 .. k : SubSeq(s, 1, k)[i] = s[i]
OBVIOUS

\* The stack from the place of u on, and below it.
LEMMA PopIs ==
  ASSUME NEW E, NEW ix, NEW ll, NEW st, NEW fr, NEW cs, SearchOK(E, ix, ll, st, fr, cs),
         NEW k \in 1 .. Len(st)
  PROVE  /\ Above(ix, st, st[k]) = {st[i] : i \in k .. Len(st)}
         /\ Pops(E, ix, st, SubSeq(st, 1, k - 1), st[k])
<1> DEFINE su == SubSeq(st, 1, k - 1)
           u == st[k]
<1>1. st \in Seq(DOMAIN E) /\ Len(st) \in Nat
  BY DEF SearchOK, TypedOK
<1>2. \A i \in 1 .. Len(st) : ix[st[i]] \in Nat
  <2>1. On(st) \subseteq DOMAIN ix /\ ix \in [DOMAIN ix -> Nat]
    BY Zenon DEF SearchOK, TypedOK, StackOK
  <2>2. \A i \in 1 .. Len(st) : st[i] \in On(st)
    BY Zenon DEF On
  <2> QED
    BY Zenon, <2>1, <2>2
<1>3. ASSUME NEW i \in 1 .. Len(st) PROVE ix[u] <= ix[st[i]] <=> k <= i
  <2>1. /\ i < k => ix[st[i]] < ix[st[k]]
        /\ k < i => ix[st[k]] < ix[st[i]]
    BY ZenonT(60) DEF SearchOK, StackOK
  <2> QED
    BY SMTT(30), <1>1, <1>2, <2>1
<1>4. Above(ix, st, u) = {st[i] : i \in k .. Len(st)}
  <2>1. ASSUME NEW i \in 1 .. Len(st), ix[u] <= ix[st[i]] PROVE i \in k .. Len(st)
    BY <1>1, <1>3, <2>1
  <2>2. ASSUME NEW i \in k .. Len(st) PROVE i \in 1 .. Len(st) /\ ix[u] <= ix[st[i]]
    BY <1>1, <1>3
  <2> HIDE DEF u
  <2> QED
    BY Zenon, <2>1, <2>2 DEF Above, On
<1>5. /\ su \in Seq(DOMAIN E) /\ Len(su) = k - 1 /\ \A i \in 1 .. k - 1 : su[i] = st[i]
  <2>1. k - 1 \in 0 .. Len(st)
    BY SMTT(30), <1>1
  <2> QED
    BY Zenon, <1>1, <2>1, PrefixIs
<1> HIDE DEF su, u
<1>6. On(su) = On(st) \ Above(ix, st, u)
  <2>1. ASSUME NEW i \in 1 .. k - 1 PROVE i \in 1 .. Len(st) /\ ~(ix[u] <= ix[st[i]])
    BY <1>1, <1>3
  <2>2. ASSUME NEW i \in 1 .. Len(st), ~(ix[u] <= ix[st[i]]) PROVE i \in 1 .. k - 1
    BY <1>1, <1>3, <2>2
  <2> QED
    BY SMTT(30), <1>5, <2>1, <2>2 DEF On, Above
<1>7. Len(su) \in 0 .. Len(st)
  BY <1>1, <1>5
<1>8. Pops(E, ix, st, su, u)
  BY Zenon, <1>5, <1>6, <1>7 DEF Pops
<1> QED
  BY Zenon, <1>4, <1>8 DEF su, u

\* Retreat keeps the invariant.
LEMMA RetreatSearches ==
  ASSUME SearchOK(CallMap, index, lowlink, stack, dfs, sccs), IsGraph(graph), Retreat
  PROVE  SearchOK(CallMap, index, lowlink', stack', dfs', sccs')
<1> DEFINE m == Len(dfs)
           u == dfs[m].vertex
           k == CHOOSE i \in DOMAIN stack : stack[i] = u
           p == dfs[m - 1].vertex
           root == lowlink[u] = index[u]
<1>1. /\ dfs[m].callees = {} /\ dfs # <<>>
      /\ stack' = IF root THEN SubSeq(stack, 1, k - 1) ELSE stack
      /\ sccs' = IF root THEN sccs \cup {{stack[i] : i \in k .. Len(stack)}} ELSE sccs
      /\ dfs' = SubSeq(dfs, 1, m - 1)
      /\ lowlink' = IF m > 1 /\ lowlink[u] < lowlink[p]
                    THEN [lowlink EXCEPT ![p] = lowlink[u]] ELSE lowlink
  BY Zenon DEF Retreat, Top
<1>2. IsMap(CallMap)
  BY Zenon, CallsAreMap
<1>3. /\ Framed(CallMap, index, lowlink, stack, dfs)
      /\ dfs \in Seq(Frame(CallMap)) /\ stack \in Seq(DOMAIN CallMap)
      /\ index \in [DOMAIN index -> Nat] /\ lowlink \in [DOMAIN index -> Nat]
  BY ZenonT(60), FramesAre DEF SearchOK, TypedOK
<1>4. m \in 1 .. m /\ m \in Nat /\ m - 1 \in 0 .. m
  <2>1. m \in Nat /\ m # 0
    BY <1>1, <1>3
  <2> QED
    BY <2>1
<1>5. AtLast(dfs, u)
  BY Zenon, <1>4 DEF AtLast
<1>6. \A i \in 1 .. m : dfs[i].vertex \in On(stack) /\ dfs[i].vertex \in DOMAIN index
  BY <1>3, Zenon DEF Framed
<1>7. k \in 1 .. Len(stack) /\ stack[k] = u
  <2>1. DOMAIN stack = 1 .. Len(stack)
    BY <1>3
  <2>2. \E i \in DOMAIN stack : stack[i] = u
    BY Zenon, <1>4, <1>6, <2>1 DEF On
  <2> QED
    BY Zenon, <2>1, <2>2
<1>8. Drops(CallMap, dfs, dfs')
  <2> HIDE DEF m
  <2>1. SubSeq(dfs, 1, m - 1) \in Seq(Frame(CallMap)) /\ Len(SubSeq(dfs, 1, m - 1)) = m - 1
        /\ \A i \in 1 .. m - 1 : SubSeq(dfs, 1, m - 1)[i] = dfs[i]
    BY Zenon, <1>3, <1>4, PrefixIs DEF m
  <2> QED
    BY Zenon, <1>1, <2>1 DEF Drops, m
<1>9. Passes(index, lowlink, lowlink', dfs, u)
  <2>1. u \in DOMAIN index /\ lowlink[u] \in Nat
    BY Zenon, <1>3, <1>4, <1>6
  <2>2. ASSUME NEW i \in 1 .. m - 1
        PROVE  /\ dfs[i].vertex \in DOMAIN index /\ lowlink[dfs[i].vertex] \in Nat
               /\ i # m - 1 => dfs[i].vertex # p
               /\ m > 1 /\ p \in DOMAIN index /\ lowlink[p] \in Nat
    <3>1. i \in 1 .. m /\ m - 1 \in 1 .. m /\ m > 1
      BY <1>4
    <3>2. i # m - 1 => dfs[i].vertex # p
      BY ZenonT(60), <1>3, <3>1 DEF Framed
    <3> QED
      BY Zenon, <1>3, <1>6, <3>1, <3>2
  <2> HIDE DEF u, p, m
  <2>3. CASE m > 1 /\ lowlink[u] < lowlink[p]
    <3>1. lowlink' = [lowlink EXCEPT ![p] = lowlink[u]]
      BY Zenon, <1>1, <2>3
    <3>2. lowlink' \in [DOMAIN index -> Nat]
      BY ZenonT(60), <1>3, <2>1, <3>1
    <3>3. ASSUME NEW i \in 1 .. m - 1
          PROVE  /\ lowlink'[dfs[i].vertex] <= lowlink[dfs[i].vertex]
                 /\ i # m - 1 => lowlink'[dfs[i].vertex] = lowlink[dfs[i].vertex]
                 /\ i = m - 1 => lowlink'[dfs[i].vertex] <= lowlink[u]
                 /\ \/ lowlink'[dfs[i].vertex] = lowlink[dfs[i].vertex]
                    \/ lowlink'[dfs[i].vertex] = lowlink[u]
      <4>1. CASE dfs[i].vertex = p
        <5>1. lowlink'[dfs[i].vertex] = lowlink[u] /\ i = m - 1
          BY ZenonT(60), <1>3, <2>2, <3>1, <4>1
        <5> QED
          BY SMTT(30), <2>1, <2>2, <2>3, <4>1, <5>1
      <4>2. CASE dfs[i].vertex # p
        <5>1. lowlink'[dfs[i].vertex] = lowlink[dfs[i].vertex] /\ i # m - 1
          BY Zenon, <1>3, <2>2, <3>1, <4>2 DEF p
        <5> QED
          BY <2>2, <5>1
      <4> QED
        BY Zenon, <4>1, <4>2
    <3> QED
      BY Zenon, <3>2, <3>3 DEF Passes, m
  <2>4. CASE ~(m > 1 /\ lowlink[u] < lowlink[p])
    <3>1. lowlink' = lowlink
      BY Zenon, <1>1, <2>4
    <3>2. ASSUME NEW i \in 1 .. m - 1, i = m - 1 PROVE lowlink[dfs[i].vertex] <= lowlink[u]
      BY <2>1, <2>2, <2>4, <3>2 DEF p
    <3> QED
      BY SMTT(30), <1>3, <2>1, <2>2, <3>1, <3>2 DEF Passes, m
  <2> QED
    BY Zenon, <2>3, <2>4
<1>10. CASE ~root
  <2>1. stack' = stack /\ sccs' = sccs
    BY ZenonT(60), <1>1, <1>10
  <2> HIDE DEF u
  <2>2. SearchOK(CallMap, index, lowlink', stack, dfs', sccs)
    BY Zenon, <1>5, <1>8, <1>9, <1>10, StayKeeps
  <2> QED
    BY Zenon, <2>1, <2>2
<1>11. CASE root
  <2>1. stack' = SubSeq(stack, 1, k - 1) /\ sccs' = sccs \cup {{stack[i] : i \in k .. Len(stack)}}
    BY Zenon, <1>1, <1>11
  <2> HIDE DEF u, k
  <2>2. sccs' = sccs \cup {Above(index, stack, u)} /\ Pops(CallMap, index, stack, stack', u)
    <3>1. k \in 1 .. Len(stack)
      BY Zenon, <1>7
    <3>2. /\ Above(index, stack, stack[k]) = {stack[i] : i \in k .. Len(stack)}
          /\ Pops(CallMap, index, stack, SubSeq(stack, 1, k - 1), stack[k])
      BY <3>1, PopIs, Zenon
    <3>3. stack[k] = u
      BY ZenonT(60), <1>7
    <3> QED
      BY <2>1, <3>2, <3>3, Zenon
  <2>3. SearchOK(CallMap, index, lowlink', stack', dfs', sccs \cup {Above(index, stack, u)})
    BY ZenonT(60), <1>2, <1>5, <1>8, <1>9, <1>11, <2>2, PopKeeps
  <2> QED
    BY Zenon, <2>2, <2>3
<1> QED
  BY Zenon, <1>10, <1>11


\* The components come out only after the search, and bottom up.
OrderOK ==
  /\ order = <<>> \/ Explored
  /\ order \in Seq(sccs)
  /\ \A i \in DOMAIN order : \A f \in order[i] :
       Callees(f) \subseteq UNION {order[j] : j \in 1 .. i}

SearchInv ==
  /\ IsGraph(graph) /\ SearchOK(CallMap, index, lowlink, stack, dfs, sccs) /\ OrderOK

\* The property's reachability is that of the calls.
LEMMA SccOfIsClass ==
  ASSUME IsGraph(graph), NEW f
  PROVE  SccOf(f) = Class(CallMap, f)
<1>1. DOMAIN CallMap = graph.functions
  BY Zenon DEF CallMap
<1>2. ASSUME NEW S \in SUBSET graph.functions
      PROVE  (\A h \in S : Callees(h) \subseteq S) <=> Closed(CallMap, S)
  BY Zenon DEF Closed, CallMap
<1>3. ASSUME NEW a, NEW b PROVE Reaches(a, b) <=> Goes(CallMap, a, b)
  BY <1>1, <1>2, Zenon DEF Reaches, Goes
<1> QED
  BY Zenon, <1>1, <1>3 DEF SccOf, Class

\* When the search ends, the components are the classes.
LEMMA ExploredIsExact ==
  ASSUME SearchInv, Explored
  PROVE  /\ sccs = {Class(CallMap, f) : f \in graph.functions}
         /\ graph.functions = UNION sccs
<1>1. IsMap(CallMap) /\ DOMAIN CallMap = graph.functions
  BY Zenon, CallsAreMap DEF SearchInv
<1>2. /\ TypedOK(CallMap, index, lowlink, stack, dfs, sccs) /\ StackOK(index, stack, sccs)
      /\ ReachOK(CallMap, index, stack, dfs) /\ ClassesOK(CallMap, sccs)
  BY Zenon DEF SearchInv, SearchOK
<1>3. dfs = <<>> /\ DOMAIN index = graph.functions
  BY Zenon DEF Explored
<1>4. On(stack) = {}
  <2>1. 1 .. Len(dfs) = {}
    BY <1>3
  <2> QED
    BY Zenon, <1>2, <2>1 DEF ReachOK
<1>5. graph.functions = UNION sccs
  BY Zenon, <1>2, <1>3, <1>4 DEF StackOK
<1>6. ASSUME NEW f \in graph.functions PROVE Class(CallMap, f) \in sccs
  <2>1. PICK c \in sccs : f \in c
    BY Zenon, <1>5
  <2>2. PICK g \in DOMAIN CallMap : c = Class(CallMap, g)
    BY Zenon, <1>2 DEF ClassesOK
  <2>3. Class(CallMap, f) = c
    BY Zenon, <2>1, <2>2, ClassSame
  <2> QED
    BY Zenon, <2>3
<1>7. ASSUME NEW c \in sccs PROVE \E f \in graph.functions : c = Class(CallMap, f)
  BY Zenon, <1>1, <1>2 DEF ClassesOK
<1> QED
  BY Zenon, <1>5, <1>6, <1>7

\* After the search, the component of a function is its class.
LEMMA SccForIs ==
  ASSUME SearchInv, Explored, NEW f \in graph.functions
  PROVE  /\ f \in SccForFunction(f) /\ SccForFunction(f) \in sccs
         /\ SccForFunction(f) = Class(CallMap, f)
<1>1. sccs = {Class(CallMap, g) : g \in graph.functions} /\ DOMAIN CallMap = graph.functions
  BY Zenon, ExploredIsExact, CallsAreMap DEF SearchInv
<1>2. f \in Class(CallMap, f)
  BY Zenon, <1>1, GoesSelf DEF Class
<1>3. SccForFunction(f) \in sccs /\ f \in SccForFunction(f)
  <2>1. \E c \in sccs : f \in c
    BY Zenon, <1>1, <1>2
  <2> QED
    BY Zenon, <2>1 DEF SccForFunction
<1>4. PICK g \in graph.functions : SccForFunction(f) = Class(CallMap, g)
  BY Zenon, <1>1, <1>3
<1>5. Class(CallMap, f) = Class(CallMap, g)
  BY <1>1, <1>3, <1>4, ClassSame
<1> QED
  BY Zenon, <1>3, <1>4, <1>5


\* A nonempty set of naturals has a least element.
LEMMA LeastIs ==
  ASSUME NEW T \in SUBSET Nat, T # {}
  PROVE  \E n \in T : \A k \in T : n <= k
<1>1. PICK n \in T : \A k \in T : <<k, n>> \notin OpToRel(<, Nat)
  BY Zenon, NatLessThanWellFounded, WFMin
<1>2. \A k \in T : ~(k < n)
  BY Zenon, <1>1 DEF OpToRel
<1> QED
  BY <1>2

\* What f reaches.
Reached(E, f) == {g \in DOMAIN E : Goes(E, f, g)}

\* A function of another class that f reaches, reaches less than f does.
LEMMA ReachedShrinks ==
  ASSUME NEW E, IsMap(E), NEW f \in DOMAIN E, NEW g \in DOMAIN E,
         Goes(E, f, g), ~Goes(E, g, f)
  PROVE  /\ Cardinality(Reached(E, f)) \in Nat /\ Cardinality(Reached(E, g)) \in Nat
         /\ Cardinality(Reached(E, g)) < Cardinality(Reached(E, f))
<1> DEFINE A == Reached(E, f)
           B == Reached(E, g)
<1>1. IsFiniteSet(DOMAIN E) /\ A \in SUBSET DOMAIN E
  BY Zenon DEF IsMap, Reached
<1>2. B \in SUBSET A
  BY Zenon, GoesTrans DEF Reached
<1>3. f \in A /\ f \notin B
  BY Zenon, GoesSelf DEF Reached
<1> HIDE DEF A, B
<1>4. IsFiniteSet(A)
  BY Zenon, <1>1, FS_Subset
<1>5. IsFiniteSet(B) /\ Cardinality(B) <= Cardinality(A) /\ (Cardinality(A) = Cardinality(B) => A = B)
  BY Zenon, <1>2, <1>4, FS_Subset
<1>6. Cardinality(A) \in Nat /\ Cardinality(B) \in Nat
  BY Zenon, <1>4, <1>5, FS_CardinalityType
<1> QED
  BY <1>3, <1>5, <1>6 DEF A, B

\* Until all components are out one of them is ready.
LEMMA OneIsReady ==
  ASSUME SearchInv, Explored, ~Ordered
  PROVE  \E c \in sccs \ Range(order) : Successors(c) \subseteq Range(order)
<1> DEFINE E == CallMap
           F == {f \in graph.functions : SccForFunction(f) \notin Range(order)}
           T == {Cardinality(Reached(E, f)) : f \in F}
<1>1. IsMap(E) /\ DOMAIN E = graph.functions
  BY Zenon, CallsAreMap DEF SearchInv
<1>2. /\ sccs = {Class(E, f) : f \in graph.functions}
      /\ \A f \in graph.functions : /\ f \in SccForFunction(f) /\ SccForFunction(f) \in sccs
                                    /\ SccForFunction(f) = Class(E, f)
  BY Zenon, ExploredIsExact, SccForIs
<1>3. Range(order) \subseteq sccs /\ Range(order) # sccs
  <2>1. order \in Seq(sccs)
    BY Zenon DEF SearchInv, OrderOK
  <2> QED
    BY <2>1 DEF Ordered, Range
<1>4. F # {}
  <2>1. PICK c \in sccs : c \notin Range(order)
    BY Zenon, <1>3
  <2>2. PICK f \in graph.functions : c = Class(E, f)
    BY Zenon, <1>2
  <2> QED
    BY Zenon, <1>2, <2>1, <2>2
<1> HIDE DEF E
<1>5. T \in SUBSET Nat
  <2>1. ASSUME NEW f \in F PROVE Cardinality(Reached(E, f)) \in Nat
    <3>1. IsFiniteSet(DOMAIN E) /\ Reached(E, f) \in SUBSET DOMAIN E
      BY Zenon, <1>1 DEF IsMap, Reached
    <3>2. IsFiniteSet(Reached(E, f))
      BY Zenon, <3>1, FS_Subset
    <3> QED
      BY Zenon, <3>2, FS_CardinalityType
  <2> QED
    BY Zenon, <2>1
<1>6. T # {}
  BY Zenon, <1>4
<1>7. PICK n \in T : \A k \in T : n <= k
  <2> HIDE DEF T
  <2> QED
    BY Zenon, <1>5, <1>6, LeastIs
<1>8. PICK f \in F : \A g \in F : Cardinality(Reached(E, f)) <= Cardinality(Reached(E, g))
  BY Zenon, <1>7
<1> DEFINE c == SccForFunction(f)
<1>9. f \in graph.functions /\ c \in sccs \ Range(order) /\ c = Class(E, f)
  BY Zenon, <1>2
<1> HIDE DEF c
<1>10. ASSUME NEW d \in Successors(c) PROVE d \in Range(order)
  <2>1. PICK h \in c : \E g \in Callees(h) : d = SccForFunction(g) /\ d # c
    BY Zenon, <1>10 DEF Successors
  <2>2. PICK g \in Callees(h) : d = SccForFunction(g) /\ d # c
    BY Zenon, <2>1
  <2>3. h \in graph.functions /\ Goes(E, f, h) /\ Goes(E, h, f)
    BY Zenon, <1>1, <1>9 DEF Class
  <2>4. g \in E[h] /\ g \in graph.functions
    <3>1. g \in E[h]
      BY ZenonT(60), <2>2, <2>3 DEF E, CallMap
    <3> QED
      BY Zenon, <1>1, <2>3, <3>1 DEF IsMap
  <2>5. Goes(E, f, g)
    BY ZenonT(60), <2>3, <2>4, GoesEdge, GoesTrans
  <2>6. ~Goes(E, g, f)
    <3>1. ASSUME Goes(E, g, f) PROVE FALSE
      <4>1. g \in Class(E, f)
        BY ZenonT(60), <1>1, <2>4, <2>5, <3>1 DEF Class
      <4>2. Class(E, g) = Class(E, f)
        BY ZenonT(60), <1>1, <1>9, <4>1, ClassSame
      <4> QED
        BY ZenonT(60), <1>2, <1>9, <2>2, <2>4, <4>2
    <3> QED
      BY Zenon, <3>1
  <2>7. /\ Cardinality(Reached(E, f)) \in Nat /\ Cardinality(Reached(E, g)) \in Nat
        /\ Cardinality(Reached(E, g)) < Cardinality(Reached(E, f))
    BY ZenonT(60), <1>1, <1>9, <2>4, <2>5, <2>6, ReachedShrinks
  <2>8. g \notin F
    BY <1>8, <2>7
  <2> QED
    BY Zenon, <2>2, <2>4, <2>8
<1> QED
  BY Zenon, <1>9, <1>10

\* EmitScc keeps the order bottom up.
LEMMA EmitOrders ==
  ASSUME SearchInv, EmitScc
  PROVE  OrderOK'
<1>1. /\ Explored /\ UNCHANGED <<graph, index, lowlink, stack, dfs, sccs>>
      /\ OrderOK /\ Explored'
  BY Zenon DEF EmitScc, SearchInv, Explored
<1>2. PICK c \in sccs \ Range(order) :
        Successors(c) \subseteq Range(order) /\ order' = Append(order, c)
  BY Zenon DEF EmitScc
<1>3. order \in Seq(sccs) /\ Len(order) \in Nat
  BY <1>1 DEF OrderOK
<1>4. /\ order' \in Seq(sccs) /\ Len(order') = Len(order) + 1
      /\ \A i \in 1 .. Len(order) : order'[i] = order[i]
      /\ order'[Len(order) + 1] = c
  BY <1>2, <1>3, AppendIs
<1>5. /\ DOMAIN order = 1 .. Len(order) /\ DOMAIN order' = 1 .. Len(order) + 1
  BY <1>3, <1>4
<1>6. ASSUME NEW i \in 1 .. Len(order) + 1, NEW f \in order'[i], NEW g \in Callees(f)
      PROVE  \E j \in 1 .. i : g \in order'[j]
  <2>1. CASE i \in 1 .. Len(order)
    <3>1. f \in order[i]
      BY Zenon, <1>4, <1>6, <2>1
    <3>2. PICK j \in 1 .. i : g \in order[j]
      BY SMTT(30), <1>1, <1>5, <1>6, <2>1, <3>1 DEF OrderOK
    <3>3. j \in 1 .. Len(order)
      BY <2>1
    <3> QED
      BY Zenon, <1>4, <3>2, <3>3
  <2>2. CASE i = Len(order) + 1
    <3>1. f \in c
      BY Zenon, <1>4, <1>6, <2>2
    <3>2. g \in graph.functions
      BY Zenon, <1>6 DEF SearchInv, IsGraph, Callees
    <3>3. g \in SccForFunction(g)
      BY Zenon, <1>1, <3>2, SccForIs
    <3>4. CASE SccForFunction(g) = c
      <4>1. i \in 1 .. i /\ g \in order'[i]
        BY Zenon, <1>3, <1>4, <2>2, <3>3, <3>4
      <4> QED
        BY Zenon, <4>1
    <3>5. CASE SccForFunction(g) # c
      <4>1. SccForFunction(g) \in Successors(c)
        BY Zenon, <1>6, <3>1, <3>5 DEF Successors
      <4>2. PICK j \in DOMAIN order : SccForFunction(g) = order[j]
        BY Zenon, <1>2, <4>1 DEF Range
      <4>3. j \in 1 .. i /\ order'[j] = order[j]
        BY SMTT(30), <1>3, <1>4, <1>5, <2>2
      <4> QED
        BY Zenon, <3>3, <4>2, <4>3
    <3> QED
      BY Zenon, <3>4, <3>5
  <2> QED
    BY SMTT(30), <1>3, <2>1, <2>2
<1>7. ASSUME NEW i \in DOMAIN order', NEW f \in order'[i]
      PROVE  Callees(f)' \subseteq UNION {order'[j] : j \in 1 .. i}
  <2>1. Callees(f)' = Callees(f)
    BY Zenon, <1>1 DEF Callees
  <2> QED
    BY ZenonT(60), <1>5, <1>6, <1>7, <2>1
<1> QED
  BY Zenon, <1>1, <1>4, <1>7 DEF OrderOK


\* A step of the search, while nothing is out, leaves the order empty.
LEMMA StillEmpty ==
  ASSUME OrderOK, ~Explored, UNCHANGED order
  PROVE  OrderOK'
<1>1. order = <<>> /\ order' = <<>>
  BY Zenon DEF OrderOK
<1> QED
  BY <1>1 DEF OrderOK

\* Every step keeps the search's invariant.
LEMMA SearchStep ==
  ASSUME SearchInv, [SccNext]_sccVars
  PROVE  SearchInv'
<1>1. IsGraph(graph) /\ SearchOK(CallMap, index, lowlink, stack, dfs, sccs) /\ OrderOK
  BY Zenon DEF SearchInv
<1>2. ASSUME graph' = graph, SearchOK(CallMap, index', lowlink', stack', dfs', sccs'), OrderOK'
      PROVE  SearchInv'
  <2>1. CallMap' = CallMap
    BY Zenon, <1>2 DEF CallMap, Callees
  <2>2. IsGraph(graph)'
    BY Zenon, <1>1, <1>2
  <2> QED
    BY Zenon, <1>2, <2>1, <2>2 DEF SearchInv
<1>3. CASE Discover
  <2>1. graph' = graph /\ sccs' = sccs /\ order' = order /\ ~Explored
    BY Zenon, <1>3 DEF Discover, Explored
  <2>2. SearchOK(CallMap, index', lowlink', stack', dfs', sccs)
    BY Zenon, <1>1, <1>3, DiscoverSearches
  <2>3. OrderOK'
    BY Zenon, <1>1, <2>1, StillEmpty
  <2> QED
    BY Zenon, <1>2, <2>1, <2>2, <2>3
<1>4. CASE VisitCallee
  <2>1. graph' = graph /\ sccs' = sccs /\ order' = order /\ ~Explored
    BY Zenon, <1>4 DEF VisitCallee, Explored
  <2>2. SearchOK(CallMap, index', lowlink', stack', dfs', sccs)
    BY Zenon, <1>1, <1>4, VisitSearches
  <2>3. OrderOK'
    BY Zenon, <1>1, <2>1, StillEmpty
  <2> QED
    BY Zenon, <1>2, <2>1, <2>2, <2>3
<1>5. CASE Retreat
  <2>1. graph' = graph /\ index' = index /\ order' = order /\ ~Explored
    BY Zenon, <1>5 DEF Retreat, Explored
  <2>2. SearchOK(CallMap, index, lowlink', stack', dfs', sccs')
    BY Zenon, <1>1, <1>5, RetreatSearches
  <2>3. OrderOK'
    BY Zenon, <1>1, <2>1, StillEmpty
  <2> QED
    BY Zenon, <1>2, <2>1, <2>2, <2>3
<1>6. CASE EmitScc
  <2>1. UNCHANGED <<graph, index, lowlink, stack, dfs, sccs>>
    BY Zenon, <1>6 DEF EmitScc
  <2>2. OrderOK'
    BY Zenon, <1>6, EmitOrders
  <2> QED
    BY Zenon, <1>1, <1>2, <2>1, <2>2
<1>7. CASE UNCHANGED sccVars
  <2>1. UNCHANGED <<graph, index, lowlink, stack, dfs, sccs, order>>
    BY Zenon, <1>7 DEF sccVars, searchVars
  <2>2. OrderOK'
    <3>1. \A f : Callees(f)' = Callees(f)
      BY Zenon, <2>1 DEF Callees
    <3>2. Explored' <=> Explored
      BY Zenon, <2>1 DEF Explored
    <3> QED
      BY ZenonT(60), <1>1, <2>1, <3>1, <3>2 DEF OrderOK
  <2> QED
    BY Zenon, <1>1, <1>2, <2>1, <2>2
<1> QED
  BY Zenon, <1>3, <1>4, <1>5, <1>6, <1>7 DEF SccNext

\* The invariant is enough for the property.
LEMMA SearchGives ==
  ASSUME SearchInv
  PROVE  SccGraphExact
<1>1. ASSUME Explored PROVE sccs = {SccOf(f) : f \in graph.functions}
  <2>1. sccs = {Class(CallMap, f) : f \in graph.functions}
    BY Zenon, <1>1, ExploredIsExact
  <2>2. \A f : SccOf(f) = Class(CallMap, f)
    BY Zenon, SccOfIsClass DEF SearchInv
  <2> QED
    BY Zenon, <2>1, <2>2
<1>2. \A i \in DOMAIN order : \A f \in order[i] :
        Callees(f) \subseteq UNION {order[j] : j \in 1 .. i}
  BY Zenon DEF SearchInv, OrderOK
<1>3. Explored /\ ~Ordered =>
        \E c \in sccs \ Range(order) : Successors(c) \subseteq Range(order)
  BY Zenon, OneIsReady
<1>4. IsGraph(graph)
  BY Zenon DEF SearchInv
<1> QED
  BY Zenon, <1>1, <1>2, <1>3, <1>4 DEF SccGraphExact

\* A search that has not begun satisfies the invariant, whatever the graph.
LEMMA SearchStarts == IsGraph(graph) /\ SearchInit => SearchInv
<1> SUFFICES ASSUME IsGraph(graph), SearchInit PROVE SearchInv
  BY Zenon
<1>1. SearchOK(CallMap, index, lowlink, stack, dfs, sccs)
  BY Zenon, InitSearches
<1>2. order = <<>>
  BY Zenon DEF SearchInit
<1>3. OrderOK
  BY <1>2 DEF OrderOK
<1> QED
  BY Zenon, <1>1, <1>3 DEF SearchInv

\* SccGraph::Build is right for every finite call graph: it finds exactly the
\* classes of functions that reach each other, emits them bottom up, and never
\* reports that the condensation has a cycle.
THEOREM SccGraphIsExact == Search => []SccGraphExact
<1>1. IsGraph(graph) /\ SearchInit => SearchInv
  BY Zenon, SearchStarts
<1>2. SearchInv /\ [SccNext]_sccVars => SearchInv'
  BY Zenon, SearchStep
<1>3. SearchInv => SccGraphExact
  BY Zenon, SearchGives
<1> QED
  BY <1>1, <1>2, <1>3, PTL DEF Search

(***************************************************************************)
(* The order of the components                                             *)
(***************************************************************************)

\* What the loop over the components relies on.
Layers ==
    /\ \E S : order \in Seq(S)
    /\ \A i \in 1 .. Len(order) : order[i] \in sccs /\ order[i] \in SUBSET graph.functions
    /\ sccs = {order[i] : i \in 1 .. Len(order)}
    /\ UNION sccs = graph.functions
    /\ \A i \in 1 .. Len(order) : \A g \in order[i] : SccForFunction(g) = order[i]
    /\ \A i \in 1 .. Len(order) : \A f \in order[i] :
         Callees(f) \subseteq UNION {order[j] : j \in 1 .. i}
    /\ \A f \in graph.functions : Callees(f) \subseteq graph.functions

\* A finished search gives it.
LEMMA OrderedLayers ==
    ASSUME SearchInv, Ordered
    PROVE  Layers
<1>1. Explored /\ Range(order) = sccs
  BY DEF Ordered
<1>2. order \in Seq(sccs) /\ IsGraph(graph)
  BY DEF SearchInv, OrderOK
<1>3. DOMAIN order = 1 .. Len(order) /\ \A i \in 1 .. Len(order) : order[i] \in sccs
  BY <1>2
<1>4. sccs = {Class(CallMap, f) : f \in graph.functions} /\ graph.functions = UNION sccs
  BY SMTT(30), <1>1, ExploredIsExact
<1>5. sccs = {order[i] : i \in 1 .. Len(order)}
  BY SMTT(30), <1>1, <1>3 DEF Range
<1>6. ASSUME NEW c \in sccs, NEW g \in c PROVE SccForFunction(g) = c
  <2>1. PICK f \in graph.functions : c = Class(CallMap, f)
    BY <1>4
  <2>2. DOMAIN CallMap = graph.functions
    BY DEF CallMap
  <2>3. Class(CallMap, g) = c
    BY SMTT(30), <2>1, <2>2, ClassSame
  <2>4. g \in graph.functions
    BY <1>4
  <2> QED
    BY SMTT(30), <1>1, <2>3, <2>4, SccForIs
<1>7. \A i \in 1 .. Len(order) : \A f \in order[i] :
        Callees(f) \subseteq UNION {order[j] : j \in 1 .. i}
  BY SMTT(30), <1>3 DEF SearchInv, OrderOK
<1>8. \A f \in graph.functions : Callees(f) \subseteq graph.functions
  BY <1>2 DEF IsGraph, Callees
<1>9. \A i \in 1 .. Len(order) : order[i] \in SUBSET graph.functions
  BY <1>3, <1>4
<1> QED
  BY <1>2, <1>3, <1>4, <1>5, <1>6, <1>7, <1>8, <1>9, Zenon DEF Layers

\* What a component calls is in it or in one of its successors, and those
\* have come before it.
LEMMA SuccessorsBefore ==
    ASSUME Layers, NEW i \in 1 .. Len(order)
    PROVE  /\ \A c \in Successors(order[i]) : \E m \in 1 .. (i - 1) : c = order[m]
           /\ \A f \in order[i] : Callees(f) \subseteq order[i] \cup UNION Successors(order[i])
<1> DEFINE c == order[i]
<1>0. Len(order) \in Nat /\ i \in Nat
  BY DEF Layers
<1>1. ASSUME NEW f \in c, NEW g \in Callees(f)
      PROVE  \E m \in 1 .. i : g \in order[m] /\ SccForFunction(g) = order[m]
  <2>1. PICK m \in 1 .. i : g \in order[m]
    BY <1>1 DEF Layers
  <2>2. m \in 1 .. Len(order)
    BY <1>0
  <2> QED
    BY <2>1, <2>2 DEF Layers
<1>2. ASSUME NEW d \in Successors(c) PROVE \E m \in 1 .. (i - 1) : d = order[m]
  <2>1. d # c /\ \E f \in c : \E g \in Callees(f) : d = SccForFunction(g)
    BY DEF Successors
  <2>2. PICK m \in 1 .. i : d = order[m]
    BY <1>1, <2>1
  <2>3. m # i
    BY <2>1, <2>2
  <2>4. m \in 1 .. (i - 1)
    BY SMTT(30), <1>0, <2>3
  <2> QED
    BY <2>2, <2>4
<1>3. ASSUME NEW f \in c, NEW g \in Callees(f) PROVE g \in c \cup UNION Successors(c)
  <2>1. g \in SccForFunction(g)
    BY <1>1
  <2>2. SccForFunction(g) = c \/ SccForFunction(g) \in Successors(c)
    BY DEF Successors
  <2> QED
    BY SMTT(30), <2>1, <2>2
<1> QED
  BY <1>2, <1>3

\* The same of a graph that a step puts in place.
LEMMA SearchStartsNext == IsGraph(graph)' /\ SearchInit' => SearchInv'
BY SearchStarts, PTL

\* Nothing is left to do once all the components are out.
LEMMA OrderedStops ==
    ASSUME Ordered
    PROVE  ~SccNext
<1>1. dfs = <<>> /\ DOMAIN index = graph.functions /\ sccs \ Range(order) = {}
  BY DEF Ordered, Explored
<1>2. ~Discover
  BY <1>1, Zenon DEF Discover
<1>3. ~VisitCallee /\ ~Retreat
  BY <1>1, Zenon DEF VisitCallee, Retreat
<1>4. ~EmitScc
  BY <1>1, Zenon DEF EmitScc
<1> QED
  BY <1>2, <1>3, <1>4, Zenon DEF SccNext

=============================================================================
