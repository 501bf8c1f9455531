------------------------ MODULE SummarizationProofs ------------------------
(***************************************************************************)
(* Proofs about the summarization engine, for all programs: each of its    *)
(* steps preserves the invariant, and the properties that the runs check   *)
(* follow from it.                                                         *)
(***************************************************************************)
EXTENDS PathProofs

-----------------------------------------------------------------------------
(* How the start environments are shared out.                              *)

(* Path e is path d gone on: it may have assumed more.                     *)
Continues(p, d, e) ==
  /\ e.name = d.name
  /\ Feasible(p, e) \subseteq Feasible(p, d)
  /\ \A i \in DOMAIN d.assumptions :
       i \in DOMAIN e.assumptions /\ e.assumptions[i] = d.assumptions[i]

(* Of the paths, those from position n on have taken over the environments *)
(* that the path at position n had.                                        *)
TakeOver(p, paths, n, next) ==
  /\ n \in DOMAIN paths
  /\ DOMAIN paths \cup DOMAIN next \subseteq Nat
  /\ \A i \in DOMAIN paths : i # n => i \in DOMAIN next /\ i < n
  /\ \A i \in DOMAIN next :
       \/ i \in DOMAIN paths /\ i # n /\ i < n /\ next[i] = paths[i]
       \/ ~(i < n) /\ Continues(p, paths[n], next[i])
  /\ \A i, j \in DOMAIN next : (~(i < n) /\ ~(j < n) /\ i # j) =>
       Apart(next[i], Feasible(p, next[i]), next[j], Feasible(p, next[j]))
  /\ \A env \in Feasible(p, paths[n]) :
       \E i \in DOMAIN next : ~(i < n) /\ env \in Feasible(p, next[i])

(* What has parted stays apart.                                            *)
LEMMA ApartSymmetric ==
  ASSUME NEW a, NEW A, NEW b, NEW B, Apart(a, A, b, B)
  PROVE  Apart(b, B, a, A)
BY DEF Apart, Diverge

(* A path that goes on is apart from what the path was apart from.         *)
LEMMA ApartContinues ==
  ASSUME NEW p, NEW d, NEW e, Continues(p, d, e), NEW b, NEW B,
         Apart(d, Feasible(p, d), b, B)
  PROVE  Apart(e, Feasible(p, e), b, B)
BY DEF Apart, Diverge, Continues

(* The environments stay shared out.                                       *)
LEMMA SharesAfter ==
  ASSUME NEW p, NEW paths, NEW n, NEW next, NEW all, TakeOver(p, paths, n, next),
         PathsApart(p, paths), SummariesApart(p, paths, all),
         EveryEnvironmentIsSomewhere(p, paths, all)
  PROVE  /\ PathsApart(p, next) /\ SummariesApart(p, next, all)
         /\ EveryEnvironmentIsSomewhere(p, next, all)
<1> DEFINE d == paths[n]
           Old(i) == i \in DOMAIN paths /\ i # n /\ i < n /\ next[i] = paths[i]
           New(i) == ~(i < n) /\ Continues(p, d, next[i])
<1>1. /\ n \in DOMAIN paths
      /\ \A i \in DOMAIN next : Old(i) \/ New(i)
      /\ \A i \in DOMAIN paths : i # n => i \in DOMAIN next /\ i < n
  BY DEF TakeOver
<1>2. PathsApart(p, next)
  <2> SUFFICES ASSUME NEW i \in DOMAIN next, NEW j \in DOMAIN next, i # j,
                      next[i].name = next[j].name
               PROVE  Apart(next[i], Feasible(p, next[i]), next[j], Feasible(p, next[j]))
    BY DEF PathsApart
  <2>1. CASE Old(i) /\ Old(j)
    BY <2>1 DEF PathsApart
  <2>2. CASE Old(i) /\ New(j)
    <3>1. d.name = paths[i].name
      BY <2>2 DEF Continues
    <3>2. Apart(d, Feasible(p, d), next[i], Feasible(p, next[i]))
      BY <1>1, <2>2, <3>1 DEF PathsApart
    <3>3. Apart(next[j], Feasible(p, next[j]), next[i], Feasible(p, next[i]))
      BY <2>2, <3>2, ApartContinues
    <3> QED BY <3>3, ApartSymmetric
  <2>3. CASE New(i) /\ Old(j)
    <3>1. d.name = paths[j].name
      BY <2>3 DEF Continues
    <3>2. Apart(d, Feasible(p, d), next[j], Feasible(p, next[j]))
      BY <1>1, <2>3, <3>1 DEF PathsApart
    <3> QED BY <2>3, <3>2, ApartContinues
  <2>4. CASE New(i) /\ New(j)
    BY <2>4 DEF TakeOver
  <2> QED BY <1>1, <2>1, <2>2, <2>3, <2>4
<1>3. SummariesApart(p, next, all)
  <2> SUFFICES ASSUME NEW f \in DOMAIN all, NEW i \in DOMAIN next, NEW j \in DOMAIN all[f],
                      next[i].name = f
               PROVE  Apart(next[i], Feasible(p, next[i]), all[f][j], Applies(p, f, all[f][j]))
    BY DEF SummariesApart
  <2>1. CASE Old(i)
    BY <2>1 DEF SummariesApart
  <2>2. CASE New(i)
    <3>1. d.name = f
      BY <2>2 DEF Continues
    <3>2. Apart(d, Feasible(p, d), all[f][j], Applies(p, f, all[f][j]))
      BY <1>1, <3>1 DEF SummariesApart
    <3> QED BY <2>2, <3>2, ApartContinues
  <2> QED BY <1>1, <2>1, <2>2
<1>4. EveryEnvironmentIsSomewhere(p, next, all)
  <2> SUFFICES ASSUME NEW l \in FirstCalls(p), NEW env \in Environments(p.cfgs[CalledAt(p, l)]),
                      NEW i \in DOMAIN paths, paths[i].name = CalledAt(p, l),
                      env \in Feasible(p, paths[i])
               PROVE  \E j \in DOMAIN next :
                        next[j].name = CalledAt(p, l) /\ env \in Feasible(p, next[j])
    BY DEF EveryEnvironmentIsSomewhere
  <2>1. CASE i = n
    <3>1. PICK j \in DOMAIN next : ~(j < n) /\ env \in Feasible(p, next[j])
      BY <2>1 DEF TakeOver
    <3>2. Continues(p, d, next[j])
      BY <1>1, <3>1
    <3> QED BY <2>1, <3>1, <3>2 DEF Continues
  <2>2. CASE i # n
    <3>1. i \in DOMAIN next /\ next[i] = paths[i]
      BY <1>1, <2>2
    <3> QED BY <3>1
  <2> QED BY <2>1, <2>2
<1> QED BY <1>2, <1>3, <1>4

-----------------------------------------------------------------------------
(* The stack of the explorer.                                              *)

(* The top of sequence s is replaced by sequence c.                        *)
Replaced(s, c) == SubSeq(s, 1, Len(s) - 1) \o c

IsReplaced(s, c, t) ==
  /\ IsSeq(t) /\ Len(s) \in Nat \ {0} /\ DOMAIN s = 1 .. Len(s)
  /\ Len(c) \in Nat /\ DOMAIN t = 1 .. (Len(s) - 1) + Len(c)
  /\ \A i \in 1 .. Len(s) - 1 : t[i] = s[i]
  /\ \A i \in 1 .. Len(c) : t[(Len(s) - 1) + i] = c[i]

(* The elements of a sequence whose top has been replaced.                 *)
LEMMA ReplaceTop ==
  ASSUME NEW s, IsSeq(s), s # <<>>, NEW c, IsSeq(c)
  PROVE  IsReplaced(s, c, Replaced(s, c))
<1> DEFINE S == {s[i] : i \in DOMAIN s} \cup {c[i] : i \in DOMAIN c}
           n == Len(s) - 1
           t == Replaced(s, c)
           u == SubSeq(s, 1, n)
<1>1. s \in Seq(S) /\ c \in Seq(S)
  BY SeqMonotonic DEF IsSeq, RangeOf
<1>2. /\ Len(s) \in Nat \ {0} /\ DOMAIN s = 1 .. Len(s) /\ Len(c) \in Nat
      /\ DOMAIN c = 1 .. Len(c)
  <2> HIDE DEF S
  <2> QED BY <1>1, EmptySeq, LenProperties
<1>3. n \in Nat /\ \A i \in 1 .. n : s[i] \in S
  BY <1>2
<1>4. u \in Seq(S) /\ Len(u) = n /\ \A i \in 1 .. n : u[i] = s[i]
  <2>1. u \in Seq(S) /\ Len(u) = (IF 1 <= n THEN n - 1 + 1 ELSE 0)
        /\ \A i \in 1 .. n - 1 + 1 : u[i] = s[1 + i - 1]
    <3> HIDE DEF S, n
    <3> QED BY <1>3, SubSeqProperties
  <2> HIDE DEF S, u, n
  <2> QED BY <1>3, <2>1
<1> HIDE DEF u, n, S, t
<1>5. /\ t \in Seq(S) /\ Len(t) = n + Len(c)
      /\ \A i \in 1 .. n + Len(c) : t[i] = IF i <= n THEN u[i] ELSE c[i - n]
  <2>1. t = u \o c
    BY DEF u, n, t, Replaced
  <2>2. /\ u \o c \in Seq(S) /\ Len(u \o c) = Len(u) + Len(c)
        /\ \A i \in 1 .. Len(u) + Len(c) : (u \o c)[i] = IF i <= Len(u) THEN u[i] ELSE c[i - Len(u)]
    <3>1. u \in Seq(S) /\ c \in Seq(S)
      BY <1>1, <1>4
    <3> QED BY <3>1, ConcatProperties, Zenon
  <2> QED BY <1>4, <2>1, <2>2
<1>6. DOMAIN t = 1 .. n + Len(c)
  BY <1>5
<1>7. \A i \in 1 .. n : t[i] = s[i]
  BY <1>2, <1>3, <1>4, <1>5
<1>8. \A i \in 1 .. Len(c) : t[n + i] = c[i]
  <2> SUFFICES ASSUME NEW i \in 1 .. Len(c) PROVE t[n + i] = c[i]
    OBVIOUS
  <2>1. n + i \in 1 .. n + Len(c) /\ ~(n + i <= n) /\ (n + i) - n = i
    BY <1>2, <1>3
  <2> QED BY <1>5, <2>1
<1>9. IsSeq(t)
  <2>1. n + Len(c) \in Nat
    BY <1>2, <1>3
  <2>2. t = [i \in 1 .. n + Len(c) |-> t[i]]
    BY <1>5, <1>6
  <2> QED BY <2>1, <2>2, FunctionIsSeq
<1> QED BY <1>2, <1>6, <1>7, <1>8, <1>9 DEF n, t, IsReplaced

(* Path d is succeeded by the paths c, which share its environments.       *)
SplitsInto(p, d, c) ==
  /\ IsSeq(c)
  /\ \A i \in DOMAIN c : Continues(p, d, c[i])
  /\ \A i, j \in DOMAIN c : i # j => Apart(c[i], Feasible(p, c[i]), c[j], Feasible(p, c[j]))
  /\ \A env \in Feasible(p, d) : \E i \in DOMAIN c : env \in Feasible(p, c[i])

(* Every element of sequence t is one of s or one of c.                    *)
Mixes(s, c, t) ==
  \A i \in DOMAIN t : \/ i \in DOMAIN s /\ t[i] = s[i]
                      \/ \E j \in DOMAIN c : t[i] = c[j]

(* The contexts pushed on the stack take over from the one popped from it. *)
LEMMA PushTakesOver ==
  ASSUME NEW p, NEW s, IsSeq(s), s # <<>>, NEW c, SplitsInto(p, s[Len(s)], c)
  PROVE  /\ TakeOver(p, s, Len(s), Replaced(s, c))
         /\ IsSeq(Replaced(s, c))
         /\ Mixes(s, c, Replaced(s, c))
<1> DEFINE n == Len(s)
           m == Len(c)
           t == Replaced(s, c)
<1>1. IsReplaced(s, c, t)
  BY ReplaceTop DEF SplitsInto
<1>2. DOMAIN c = 1 .. m
  BY SeqDomain DEF SplitsInto
<1>3. SplitsInto(p, s[n], c)
  OBVIOUS
<1>4. /\ IsSeq(t) /\ n \in Nat \ {0} /\ DOMAIN s = 1 .. n
      /\ m \in Nat /\ DOMAIN t = 1 .. (n - 1) + m
      /\ \A i \in 1 .. n - 1 : t[i] = s[i]
      /\ \A i \in 1 .. m : t[(n - 1) + i] = c[i]
  BY <1>1 DEF IsReplaced
<1> HIDE DEF n, m, t
<1>5. ASSUME NEW i \in DOMAIN t, i < n
      PROVE  i \in DOMAIN s /\ i # n /\ t[i] = s[i]
  BY <1>4, <1>5
<1>6. ASSUME NEW i \in DOMAIN t, ~(i < n)
      PROVE  i - (n - 1) \in DOMAIN c /\ t[i] = c[i - (n - 1)] /\ i \in Nat
  <2>1. i - (n - 1) \in 1 .. m /\ (n - 1) + (i - (n - 1)) = i /\ i \in Nat
    BY <1>4, <1>6
  <2> QED BY <1>2, <1>4, <2>1
<1>7. \A i \in DOMAIN s : i # n => i \in DOMAIN t /\ i < n
  BY <1>4
<1>8. ASSUME NEW i \in DOMAIN t, NEW j \in DOMAIN t, ~(i < n), ~(j < n), i # j
      PROVE  Apart(t[i], Feasible(p, t[i]), t[j], Feasible(p, t[j]))
  <2>1. i - (n - 1) # j - (n - 1)
    BY <1>4, <1>6, <1>8
  <2> QED BY <1>3, <1>6, <1>8, <2>1 DEF SplitsInto
<1>9. ASSUME NEW env \in Feasible(p, s[n])
      PROVE  \E i \in DOMAIN t : ~(i < n) /\ env \in Feasible(p, t[i])
  <2>1. PICK j \in DOMAIN c : env \in Feasible(p, c[j])
    BY <1>3 DEF SplitsInto
  <2>2. (n - 1) + j \in DOMAIN t /\ ~((n - 1) + j < n) /\ t[(n - 1) + j] = c[j]
    BY <1>2, <1>4
  <2> QED BY <2>1, <2>2
<1>10. DOMAIN s \cup DOMAIN t \subseteq Nat /\ n \in DOMAIN s
  BY <1>4
<1>11. ASSUME NEW i \in DOMAIN t
       PROVE  \/ i \in DOMAIN s /\ i # n /\ i < n /\ t[i] = s[i]
              \/ ~(i < n) /\ Continues(p, s[n], t[i])
  BY <1>3, <1>5, <1>6 DEF SplitsInto
<1>12. TakeOver(p, s, n, t)
  BY <1>7, <1>8, <1>9, <1>10, <1>11 DEF TakeOver
<1>13. Mixes(s, c, t)
  BY <1>5, <1>6 DEF Mixes
<1> QED BY <1>4, <1>12, <1>13 DEF n, t

(* The invariant, of all its variables.                                    *)
InvOf(p, ver, paths, all) ==
  /\ IsSeq(paths)
  /\ ver \in [FlattenedInterface(p) -> Nat]
  /\ \A i \in DOMAIN paths : PathOK(p, ver, paths[i])
  /\ SummariesOK(p, all)
  /\ PathsApart(p, paths)
  /\ SummariesApart(p, paths, all)
  /\ EveryEnvironmentIsSomewhere(p, paths, all)

(* A step that lets the current path go on preserves it.                   *)
LEMMA ExplorationKeepsInv ==
  ASSUME NEW p, CodeOK(p), NEW ver, NEW s, NEW all, InvOf(p, ver, s, all), s # <<>>,
         NEW ver2 \in [FlattenedInterface(p) -> Nat],
         \A x \in FlattenedInterface(p) : ver[x] <= ver2[x],
         NEW c, SplitsInto(p, s[Len(s)], c),
         \A i \in DOMAIN c : PathOK(p, ver2, c[i])
  PROVE  InvOf(p, ver2, Replaced(s, c), all)
<1> DEFINE t == Replaced(s, c)
           n == Len(s)
<1>1. IsSeq(s) /\ ver \in [FlattenedInterface(p) -> Nat]
  BY DEF InvOf
<1>2. TakeOver(p, s, n, t) /\ IsSeq(t) /\ Mixes(s, c, t)
  BY <1>1, PushTakesOver
<1> HIDE DEF n, t
<1>3. ASSUME NEW i \in DOMAIN s
      PROVE  PathOK(p, ver2, s[i])
  <2>1. PathOK(p, ver, s[i])
    BY DEF InvOf
  <2>2. OwnVariables(p, s[i]) \subseteq FlattenedInterface(p)
    BY <2>1, VertexOfPath DEF PathOK
  <2> QED BY <1>1, <2>1, <2>2, MoreVersions
<1>4. \A i \in DOMAIN t : PathOK(p, ver2, t[i])
  BY <1>2, <1>3 DEF Mixes
<1>5. /\ PathsApart(p, t) /\ SummariesApart(p, t, all)
      /\ EveryEnvironmentIsSomewhere(p, t, all)
  BY <1>2, SharesAfter DEF InvOf
<1>6. SummariesOK(p, all)
  BY DEF InvOf
<1> QED BY <1>2, <1>4, <1>5, <1>6 DEF InvOf, t


-----------------------------------------------------------------------------
(* The contexts that succeed the current one.                              *)

(* Sequences of one and two elements.                                      *)
LEMMA OneOrTwo ==
  ASSUME NEW a, NEW b
  PROVE  /\ IsSeq(<<a>>) /\ DOMAIN <<a>> = {1} /\ <<a>>[1] = a
         /\ IsSeq(<<a, b>>) /\ DOMAIN <<a, b>> = {1, 2}
         /\ <<a, b>>[1] = a /\ <<a, b>>[2] = b
<1> DEFINE s == <<a>>
           t == <<a, b>>
<1>1. DOMAIN s = {1} /\ DOMAIN t = {1, 2} /\ s[1] = a /\ t[1] = a /\ t[2] = b
  BY SMT
<1>2. s \in Seq({a}) /\ t \in Seq({a, b})
  BY SMT
<1> HIDE DEF s, t
<1>3. {s[i] : i \in DOMAIN s} = {a} /\ {t[i] : i \in DOMAIN t} = {a, b}
  BY <1>1
<1>4. IsSeq(s) /\ IsSeq(t)
  BY <1>2, <1>3 DEF IsSeq, RangeOf
<1> QED BY <1>1, <1>4 DEF s, t

(* One path keeps all environments.                                        *)
LEMMA OneSuccessor ==
  ASSUME NEW p, NEW d, NEW e, Continues(p, d, e), Feasible(p, d) \subseteq Feasible(p, e)
  PROVE  SplitsInto(p, d, <<e>>) /\ DOMAIN <<e>> = {1} /\ <<e>>[1] = e
<1> DEFINE c == <<e>>
<1>1. IsSeq(c) /\ DOMAIN c = {1} /\ c[1] = e
  BY OneOrTwo
<1> HIDE DEF c
<1>2. SplitsInto(p, d, c)
  BY <1>1 DEF SplitsInto
<1> QED BY <1>1, <1>2 DEF c

(* Two paths share them.                                                   *)
LEMMA TwoSuccessors ==
  ASSUME NEW p, NEW d, NEW a, Continues(p, d, a), NEW b, Continues(p, d, b),
         Apart(a, Feasible(p, a), b, Feasible(p, b)),
         Feasible(p, d) \subseteq Feasible(p, a) \cup Feasible(p, b)
  PROVE  SplitsInto(p, d, <<a, b>>) /\ DOMAIN <<a, b>> = {1, 2}
         /\ <<a, b>>[1] = a /\ <<a, b>>[2] = b
<1> DEFINE c == <<a, b>>
<1>1. IsSeq(c) /\ DOMAIN c = {1, 2} /\ c[1] = a /\ c[2] = b
  BY OneOrTwo
<1> HIDE DEF c
<1>2. Apart(b, Feasible(p, b), a, Feasible(p, a))
  BY ApartSymmetric
<1>3. SplitsInto(p, d, c)
  BY <1>1, <1>2 DEF SplitsInto
<1> QED BY <1>1, <1>3 DEF c

-----------------------------------------------------------------------------
(* The actions of the exploration.                                         *)

(* What the assumption says of the program that is summarized.             *)
LEMMA ProgramOK ==
  ASSUME prog \in Programs
  PROVE  CodeOK(P)
BY SummarizedCodeAssumption DEF CodeOK, P

(* The invariant of the specification is that of its variables.            *)
LEMMA InvUnfolded == Inv <=> prog \in Programs /\ InvOf(P, version, explorer, summaries)
BY DEF Inv, InvOf

(* The current path and its vertex.                                        *)
LEMMA CurrentPath ==
  ASSUME Inv, explorer # <<>>
  PROVE  /\ CodeOK(P) /\ InvOf(P, version, explorer, summaries)
         /\ PathOK(P, version, Current)
         /\ version \in [FlattenedInterface(P) -> Nat]
         /\ Graph = BlockOf(P, Current) /\ Vertex = VertexOf(P, Current)
         /\ Current = explorer[Len(explorer)]
<1>1. Len(explorer) \in DOMAIN explorer
  <2>1. explorer \in Seq({explorer[i] : i \in DOMAIN explorer})
    BY DEF Inv, IsSeq, RangeOf
  <2> QED BY <2>1, EmptySeq, LenProperties
<1>2. PathOK(P, version, Current)
  BY <1>1 DEF Inv, Current
<1>3. CodeOK(P)
  BY ProgramOK DEF Inv
<1> QED BY <1>2, <1>3, InvUnfolded DEF Inv, Graph, Vertex, VertexOf, BlockOf, Current

(* Versions that are not incremented do not decrease.                      *)
LEMMA SameVersions ==
  ASSUME NEW p, NEW ver \in [FlattenedInterface(p) -> Nat]
  PROVE  \A x \in FlattenedInterface(p) : ver[x] <= ver[x]
OBVIOUS

(* Executor::execute on a vertex that has no effect.                       *)
LEMMA PassKeepsInv ==
  ASSUME Inv, HandlePassThroughVertex
  PROVE  Inv'
<1> DEFINE e == Passed(P, Current)
<1>1. explorer # <<>> /\ UNCHANGED <<prog, version, summaries>>
  BY Zenon DEF HandlePassThroughVertex, Push
<1>2. /\ CodeOK(P) /\ InvOf(P, version, explorer, summaries)
      /\ PathOK(P, version, Current) /\ version \in [FlattenedInterface(P) -> Nat]
      /\ Graph = BlockOf(P, Current) /\ Vertex = VertexOf(P, Current)
      /\ Current = explorer[Len(explorer)]
  BY <1>1, CurrentPath
<1>3. explorer' = Replaced(explorer, <<e>>)
  BY <1>2, Zenon DEF HandlePassThroughVertex, Push, Replaced, Passed
<1>4. Vertex.type = "ENTRY" \/ (Vertex.type = "REGULAR" /\ Vertex.op = "none")
  BY Zenon DEF HandlePassThroughVertex
<1>5. /\ PathOK(P, version, e) /\ Feasible(P, e) = Feasible(P, Current)
      /\ e.name = Current.name /\ e.assumptions = Current.assumptions
  <2>1. e = Passed(P, Current)
    OBVIOUS
  <2> HIDE DEF e
  <2> QED BY <1>2, <1>4, <2>1, PassedOK
<1> HIDE DEF e
<1>6. Continues(P, Current, e)
  BY <1>5 DEF Continues
<1>7. SplitsInto(P, explorer[Len(explorer)], <<e>>) /\ DOMAIN <<e>> = {1} /\ <<e>>[1] = e
  BY <1>2, <1>5, <1>6, OneSuccessor
<1>8. \A i \in DOMAIN <<e>> : PathOK(P, version, <<e>>[i])
  BY <1>5, <1>7
<1>9. InvOf(P, version, Replaced(explorer, <<e>>), summaries)
  BY <1>1, <1>2, <1>7, <1>8, SameVersions, ExplorationKeepsInv
<1>10. InvOf(P, version, explorer', summaries)
  BY <1>3, <1>9
<1>11. prog \in Programs
  BY DEF Inv
<1> QED BY <1>1, <1>10, <1>11 DEF Inv, InvOf, P


(* Executor::visit of an assignment.                                       *)
LEMMA AssignmentKeepsInv ==
  ASSUME Inv, VisitAssignmentInstruction
  PROVE  Inv'
<1> DEFINE x == Flatten(Current.scope, Vertex.var)
           e == Assigned(P, version, Current)
<1>1. explorer # <<>> /\ Vertex.op = "assign" /\ UNCHANGED <<prog, summaries>>
  BY Zenon DEF VisitAssignmentInstruction, Push
<1>2. /\ CodeOK(P) /\ InvOf(P, version, explorer, summaries)
      /\ PathOK(P, version, Current) /\ version \in [FlattenedInterface(P) -> Nat]
      /\ Graph = BlockOf(P, Current) /\ Vertex = VertexOf(P, Current)
      /\ Current = explorer[Len(explorer)]
  BY <1>1, CurrentPath
<1>3. explorer' = Replaced(explorer, <<e>>) /\ version' = Incremented(version, x)
  BY <1>2, ZenonT(60) DEF VisitAssignmentInstruction, Push, Replaced, Assigned, Incremented
<1>4. /\ PathOK(P, version', e) /\ Feasible(P, e) = Feasible(P, Current)
      /\ e.name = Current.name /\ e.assumptions = Current.assumptions
  <2>1. e = Assigned(P, version, Current) /\ x = Flatten(Current.scope, Vertex.var)
    OBVIOUS
  <2> HIDE DEF e, x
  <2> QED BY <1>1, <1>2, <1>3, <2>1, AssignedOK
<1>5. x \in FlattenedInterface(P)
  <2>1. PathPlaced(P, Current)
    BY <1>2 DEF PathOK
  <2> QED BY <1>1, <1>2, <2>1, VertexOfPath
<1> HIDE DEF e, x
<1>6. /\ version' \in [FlattenedInterface(P) -> Nat]
      /\ \A y \in FlattenedInterface(P) : version[y] <= version'[y]
  BY <1>2, <1>3, <1>5 DEF Incremented
<1>7. Continues(P, Current, e)
  BY <1>4 DEF Continues
<1>8. SplitsInto(P, explorer[Len(explorer)], <<e>>) /\ DOMAIN <<e>> = {1} /\ <<e>>[1] = e
  BY <1>2, <1>4, <1>7, OneSuccessor
<1>9. \A i \in DOMAIN <<e>> : PathOK(P, version', <<e>>[i])
  BY <1>4, <1>8
<1>10. InvOf(P, version', Replaced(explorer, <<e>>), summaries)
  BY <1>1, <1>2, <1>6, <1>8, <1>9, ExplorationKeepsInv
<1>11. prog \in Programs
  BY DEF Inv
<1> QED BY <1>1, <1>3, <1>10, <1>11 DEF Inv, InvOf, P

(* The two branches of a decision share the environments of the path.      *)
Branch(p, d, e, sign, holds) ==
  /\ Continues(p, d, e)
  /\ Feasible(p, e) = IF sign THEN Feasible(p, d) \cap holds ELSE Feasible(p, d) \ holds
  /\ e.assumptions[Len(d.assumptions) + 1][2] = sign
  /\ Len(d.assumptions) + 1 \in DOMAIN e.assumptions

(* Assuming a sign of the decision makes one of them.                      *)
LEMMA BranchOfDecision ==
  ASSUME NEW p, CodeOK(p), NEW ver, NEW d, PathOK(p, ver, d),
         VertexOf(p, d).op = "if", NEW sign \in BOOLEAN,
         NEW holds, holds = EnvironmentsOf(p, d, EncodeInPath(d, VertexOf(p, d).cond))
  PROVE  Branch(p, d, Assumed(p, d, sign), sign, holds)
<1> DEFINE e == Assumed(p, d, sign)
           v == VertexOf(p, d)
           cond == EncodeInPath(d, v.cond)
<1>1. e = Assumed(p, d, sign) /\ v = VertexOf(p, d) /\ v.op = "if" /\ cond = EncodeInPath(d, v.cond)
  OBVIOUS
<1> HIDE DEF e, v, cond
<1>2. /\ e.name = d.name
      /\ DOMAIN e.assumptions = DOMAIN d.assumptions \cup {Len(d.assumptions) + 1}
      /\ \A i \in DOMAIN d.assumptions : e.assumptions[i] = d.assumptions[i]
      /\ e.assumptions[Len(d.assumptions) + 1] = <<cond, sign>>
      /\ Feasible(p, e) =
           {env \in Feasible(p, d) : (env \in EnvironmentsOf(p, d, cond)) = sign}
  BY <1>1, AssumedFeasible
<1>3. Continues(p, d, e)
  BY <1>2 DEF Continues
<1>4. holds = EnvironmentsOf(p, d, cond)
  BY <1>1
<1>5. Feasible(p, e) = IF sign THEN Feasible(p, d) \cap holds ELSE Feasible(p, d) \ holds
  <2>1. CASE sign = TRUE
    BY <1>2, <1>4, <2>1
  <2>2. CASE sign = FALSE
    BY <1>2, <1>4, <2>2
  <2> QED BY <2>1, <2>2
<1>6. e.assumptions[Len(d.assumptions) + 1][2] = sign
  BY <1>2
<1>7. Len(d.assumptions) + 1 \in DOMAIN e.assumptions
  BY <1>2
<1> QED BY <1>3, <1>5, <1>6, <1>7 DEF e, Branch


(* Executor::visit of a decision.                                          *)
LEMMA DecisionKeepsInv ==
  ASSUME Inv, VisitIfInstruction
  PROVE  Inv'
<1> DEFINE holds == EnvironmentsOf(P, Current, EncodeInPath(Current, VertexOf(P, Current).cond))
           F == Feasible(P, Current)
           positive == Assumed(P, Current, TRUE)
           negative == Assumed(P, Current, FALSE)
<1>1. explorer # <<>> /\ Vertex.op = "if" /\ UNCHANGED <<prog, version, summaries>>
  BY Zenon DEF VisitIfInstruction, Push
<1>2. /\ CodeOK(P) /\ InvOf(P, version, explorer, summaries)
      /\ PathOK(P, version, Current) /\ version \in [FlattenedInterface(P) -> Nat]
      /\ Graph = BlockOf(P, Current) /\ Vertex = VertexOf(P, Current)
      /\ Current = explorer[Len(explorer)]
  BY <1>1, CurrentPath
<1>3. /\ positive = Follow([Current EXCEPT !.assumptions =
                              Append(@, <<EncodeInPath(Current, Vertex.cond), TRUE>>)],
                           Target(Graph, Current.label, "TRUE_BRANCH"))
      /\ negative = Follow([Current EXCEPT !.assumptions =
                              Append(@, <<EncodeInPath(Current, Vertex.cond), FALSE>>)],
                           Target(Graph, Current.label, "FALSE_BRANCH"))
      /\ holds = EnvironmentsOf(P, Current, EncodeInPath(Current, Vertex.cond))
  BY <1>2 DEF Assumed
<1>4. \/ F \cap holds = {} /\ explorer' = Replaced(explorer, <<negative>>)
      \/ F \cap holds # {} /\ F \subseteq holds /\ explorer' = Replaced(explorer, <<positive>>)
      \/ /\ F \cap holds # {} /\ ~(F \subseteq holds)
         /\ explorer' = Replaced(explorer, <<positive, negative>>)
  <2> HIDE DEF holds, positive, negative
  <2> QED BY <1>3, Zenon DEF VisitIfInstruction, Push, Replaced
<1>5. /\ Continues(P, Current, positive) /\ Feasible(P, positive) = F \cap holds
      /\ positive.assumptions[Len(Current.assumptions) + 1][2] = TRUE
      /\ Len(Current.assumptions) + 1 \in DOMAIN positive.assumptions
  <2>1. VertexOf(P, Current).op = "if" /\ TRUE \in BOOLEAN
    BY <1>1, <1>2
  <2>2. Branch(P, Current, Assumed(P, Current, TRUE), TRUE, holds)
    BY <1>2, <2>1, BranchOfDecision
  <2>3. Branch(P, Current, positive, TRUE, holds)
    BY <2>2
  <2> HIDE DEF positive, negative, holds
  <2> QED BY <2>3 DEF Branch
<1>6. /\ Continues(P, Current, negative) /\ Feasible(P, negative) = F \ holds
      /\ negative.assumptions[Len(Current.assumptions) + 1][2] = FALSE
      /\ Len(Current.assumptions) + 1 \in DOMAIN negative.assumptions
  <2>1. VertexOf(P, Current).op = "if" /\ FALSE \in BOOLEAN
    BY <1>1, <1>2
  <2>2. Branch(P, Current, Assumed(P, Current, FALSE), FALSE, holds)
    BY <1>2, <2>1, BranchOfDecision
  <2>3. Branch(P, Current, negative, FALSE, holds)
    BY <2>2
  <2> HIDE DEF positive, negative, holds
  <2> QED BY <2>3 DEF Branch
<1>7. F # {}
  BY <1>2 DEF PathOK
<1>8. Feasible(P, positive) # {} => PathOK(P, version, positive)
  <2>1. positive = Assumed(P, Current, TRUE) /\ VertexOf(P, Current).op = "if" /\ TRUE \in BOOLEAN
    BY <1>1, <1>2
  <2> HIDE DEF positive
  <2> QED BY <1>2, <2>1, AssumedOK
<1>9. Feasible(P, negative) # {} => PathOK(P, version, negative)
  <2>1. negative = Assumed(P, Current, FALSE) /\ VertexOf(P, Current).op = "if" /\ FALSE \in BOOLEAN
    BY <1>1, <1>2
  <2> HIDE DEF negative
  <2> QED BY <1>2, <2>1, AssumedOK
<1> HIDE DEF holds, F, positive, negative
<1>10. F = Feasible(P, Current)
  BY DEF F
<1>11. ASSUME NEW c, SplitsInto(P, Current, c), \A i \in DOMAIN c : PathOK(P, version, c[i])
       PROVE  InvOf(P, version, Replaced(explorer, c), summaries)
  <2>1. SplitsInto(P, explorer[Len(explorer)], c)
    BY <1>2, <1>11
  <2> QED BY <1>1, <1>2, <1>11, <2>1, SameVersions, ExplorationKeepsInv
<1>12. InvOf(P, version, explorer', summaries)
  <2>1. CASE F \cap holds = {} /\ explorer' = Replaced(explorer, <<negative>>)
    <3>1. Feasible(P, negative) = F
      BY <1>6, <2>1
    <3>2. /\ SplitsInto(P, Current, <<negative>>)
          /\ DOMAIN <<negative>> = {1} /\ <<negative>>[1] = negative
      BY <1>6, <1>10, <3>1, OneSuccessor
    <3>3. \A i \in DOMAIN <<negative>> : PathOK(P, version, <<negative>>[i])
      BY <1>7, <1>9, <3>1, <3>2
    <3> QED BY <1>11, <2>1, <3>2, <3>3
  <2>2. CASE F \subseteq holds /\ explorer' = Replaced(explorer, <<positive>>)
    <3>1. Feasible(P, positive) = F
      BY <1>5, <2>2
    <3>2. /\ SplitsInto(P, Current, <<positive>>)
          /\ DOMAIN <<positive>> = {1} /\ <<positive>>[1] = positive
      BY <1>5, <1>10, <3>1, OneSuccessor
    <3>3. \A i \in DOMAIN <<positive>> : PathOK(P, version, <<positive>>[i])
      BY <1>7, <1>8, <3>1, <3>2
    <3> QED BY <1>11, <2>2, <3>2, <3>3
  <2>3. CASE /\ F \cap holds # {} /\ ~(F \subseteq holds)
             /\ explorer' = Replaced(explorer, <<positive, negative>>)
    <3>1. /\ Feasible(P, positive) # {} /\ Feasible(P, negative) # {}
          /\ F \subseteq Feasible(P, positive) \cup Feasible(P, negative)
      BY <1>5, <1>6, <2>3
    <3>2. Apart(positive, Feasible(P, positive), negative, Feasible(P, negative))
      BY <1>5, <1>6 DEF Apart, Diverge
    <3>3. /\ SplitsInto(P, Current, <<positive, negative>>)
          /\ DOMAIN <<positive, negative>> = {1, 2}
          /\ <<positive, negative>>[1] = positive /\ <<positive, negative>>[2] = negative
      <4>1. /\ Feasible(P, Current) \subseteq Feasible(P, positive) \cup Feasible(P, negative)
            /\ Continues(P, Current, positive) /\ Continues(P, Current, negative)
        BY <1>5, <1>6, <1>10, <3>1
      <4>2. SplitsInto(P, Current, <<positive, negative>>)
        BY <3>2, <4>1, TwoSuccessors
      <4> QED BY <4>2, OneOrTwo
    <3>4. \A i \in DOMAIN <<positive, negative>> : PathOK(P, version, <<positive, negative>>[i])
      BY <1>8, <1>9, <3>1, <3>3
    <3> QED BY <1>11, <2>3, <3>3, <3>4
  <2> QED BY <1>4, <2>1, <2>2, <2>3
<1>13. prog \in Programs
  BY DEF Inv
<1> QED BY <1>1, <1>12, <1>13 DEF Inv, InvOf, P

-----------------------------------------------------------------------------
(* Paths are summarized.                                                   *)

(* What WellFormedSummaries and ReferencesResolve say of each summary.     *)
LEMMA SummariesOfProgramFit ==
  ASSUME NEW q
  PROVE  /\ (WellFormedSummaries(q) /\ ReferencesResolve(q)) =>
              \A f \in DOMAIN q.summaries : \A i \in DOMAIN q.summaries[f] :
                FitsProgram(q, f, q.summaries[f][i])
         /\ (\A f \in DOMAIN q.summaries : \A i \in DOMAIN q.summaries[f] :
               FitsProgram(q, f, q.summaries[f][i])) =>
              /\ WellFormedSummaries(q)
              /\ (\A s \in DOMAIN q.scopes : \A l \in DOMAIN CfgOf(q, s).vertices :
                   \A ref \in References(CfgOf(q, s).vertices[l]) :
                     Flatten(s, ref) \in FlattenedInterface(q)) => ReferencesResolve(q)
<1>1. ASSUME WellFormedSummaries(q), ReferencesResolve(q),
             NEW f \in DOMAIN q.summaries, NEW i \in DOMAIN q.summaries[f]
      PROVE  FitsProgram(q, f, q.summaries[f][i])
  BY <1>1 DEF WellFormedSummaries, ReferencesResolve, FitsProgram
<1>2. ASSUME \A f \in DOMAIN q.summaries : \A i \in DOMAIN q.summaries[f] :
               FitsProgram(q, f, q.summaries[f][i])
      PROVE  WellFormedSummaries(q)
  BY <1>2 DEF WellFormedSummaries, FitsProgram
<1>3. ASSUME \A f \in DOMAIN q.summaries : \A i \in DOMAIN q.summaries[f] :
               FitsProgram(q, f, q.summaries[f][i]),
             \A s \in DOMAIN q.scopes : \A l \in DOMAIN CfgOf(q, s).vertices :
               \A ref \in References(CfgOf(q, s).vertices[l]) :
                 Flatten(s, ref) \in FlattenedInterface(q)
      PROVE  ReferencesResolve(q)
  BY <1>3 DEF ReferencesResolve, FitsProgram
<1> QED BY <1>1, <1>2, <1>3

(* All summaries fit if each one does.                                     *)
LEMMA SummariesFit ==
  ASSUME NEW p, ReferencesResolve(p), NEW all
  PROVE  (\A f \in DOMAIN all : \A k \in DOMAIN all[f] : FitsProgram(p, f, all[f][k]))
         <=> /\ WellFormedSummaries(SummarizedProgram(p, all))
             /\ ReferencesResolve(SummarizedProgram(p, all))
<1> DEFINE q == SummarizedProgram(p, all)
<1>1. q.cfgs = p.cfgs /\ q.scopes = p.scopes /\ q.summaries = all
  BY DEF SummarizedProgram
<1> HIDE DEF q
<1>2. \A s : CfgOf(q, s) = CfgOf(p, s)
  BY <1>1 DEF CfgOf
<1>3. FlattenedInterface(q) = FlattenedInterface(p)
  BY <1>1, <1>2 DEF FlattenedInterface
<1>4. \A f, s : FitsProgram(q, f, s) <=> FitsProgram(p, f, s)
  BY <1>1, <1>3 DEF FitsProgram
<1>5. \A s \in DOMAIN q.scopes : \A l \in DOMAIN CfgOf(q, s).vertices :
        \A ref \in References(CfgOf(q, s).vertices[l]) :
          Flatten(s, ref) \in FlattenedInterface(q)
  BY <1>1, <1>2, <1>3 DEF ReferencesResolve
<1>6. (\A f \in DOMAIN all : \A k \in DOMAIN all[f] : FitsProgram(q, f, all[f][k]))
      <=> WellFormedSummaries(q) /\ ReferencesResolve(q)
  BY <1>1, <1>5, SummariesOfProgramFit
<1> QED BY <1>4, <1>6 DEF q

(* The summaries all, with summary s of function block f added at the end. *)
Added(all, f, s) ==
  [n \in DOMAIN all \cup {f} |->
     IF n = f THEN Append(IF f \in DOMAIN all THEN all[f] ELSE <<>>, s) ELSE all[n]]

(* Summary s has been added to those of function block f, at position m.   *)
IsAdded(all, f, s, m, next) ==
  /\ DOMAIN next = DOMAIN all \cup {f}
  /\ \A g \in DOMAIN next : IsSeq(next[g])
  /\ \A g \in DOMAIN all : \A i \in DOMAIN all[g] :
       i \in DOMAIN next[g] /\ next[g][i] = all[g][i] /\ ~(g = f /\ i = m)
  /\ \A g \in DOMAIN next : \A i \in DOMAIN next[g] :
       (g = f /\ i = m) \/ (g \in DOMAIN all /\ i \in DOMAIN all[g])
  /\ m \in DOMAIN next[f] /\ next[f][m] = s

(* The empty function is a sequence.                                       *)
LEMMA EmptyIsSeq == IsSeq(<<>>) /\ Len(<<>>) = 0 /\ DOMAIN <<>> = {}
<1>1. <<>> \in Seq({<<>>[i] : i \in DOMAIN <<>>}) /\ Len(<<>>) = 0 /\ DOMAIN <<>> = {}
  OBVIOUS
<1> QED BY <1>1 DEF IsSeq, RangeOf

(* This is what appending it does.                                         *)
LEMMA AddSummary ==
  ASSUME NEW all, \A g \in DOMAIN all : IsSeq(all[g]), NEW f, NEW s
  PROVE  \E m : IsAdded(all, f, s, m, Added(all, f, s))
<1> DEFINE known == IF f \in DOMAIN all THEN all[f] ELSE <<>>
           next == Added(all, f, s)
           new == Append(known, s)
           m == Len(known) + 1
<1>1. IsSeq(known) /\ (f \in DOMAIN all => known = all[f]) /\ (f \notin DOMAIN all => DOMAIN known = {})
  BY EmptyIsSeq
<1>2. /\ DOMAIN next = DOMAIN all \cup {f} /\ next[f] = new
      /\ \A g \in DOMAIN all : g # f => next[g] = all[g]
  BY DEF Added
<1> HIDE DEF known, next
<1>3. Len(known) \in Nat /\ DOMAIN known = 1 .. Len(known)
  BY <1>1, SeqDomain
<1>4. /\ IsSeq(new) /\ DOMAIN new = 1 .. m
      /\ \A i \in 1 .. Len(known) : new[i] = known[i]
      /\ new[m] = s
  BY <1>1, AppendSeq
<1> DEFINE k == Len(known)
<1>5. k \in Nat /\ DOMAIN known = 1 .. k /\ m = k + 1
  BY <1>3
<1> HIDE DEF new, m, k
<1>6. /\ DOMAIN new = DOMAIN known \cup {m} /\ m \notin DOMAIN known
      /\ \A i \in DOMAIN known : new[i] = known[i]
  <2>1. 1 .. m = (1 .. k) \cup {m} /\ m \notin 1 .. k
    BY <1>5
  <2> QED BY <1>3, <1>4, <1>5, <2>1
<1>7. \A g \in DOMAIN next : IsSeq(next[g])
  BY <1>2, <1>4
<1>8. ASSUME NEW g \in DOMAIN all, NEW i \in DOMAIN all[g]
      PROVE  i \in DOMAIN next[g] /\ next[g][i] = all[g][i] /\ ~(g = f /\ i = m)
  <2>1. CASE g = f
    BY <1>1, <1>2, <1>6, <1>8, <2>1
  <2>2. CASE g # f
    BY <1>2, <1>8, <2>2
  <2> QED BY <2>1, <2>2
<1>9. ASSUME NEW g \in DOMAIN next, NEW i \in DOMAIN next[g]
      PROVE  (g = f /\ i = m) \/ (g \in DOMAIN all /\ i \in DOMAIN all[g])
  <2>1. CASE g = f
    BY <1>1, <1>2, <1>6, <1>9, <2>1
  <2>2. CASE g # f
    BY <1>2, <1>9, <2>2
  <2> QED BY <2>1, <2>2
<1>10. m \in DOMAIN next[f] /\ next[f][m] = s
  BY <1>2, <1>4, <1>6
<1>11. IsAdded(all, f, s, m, next)
  BY <1>2, <1>7, <1>8, <1>9, <1>10 DEF IsAdded
<1> QED BY <1>11 DEF next

(* The path at position n has become the summary at position m.            *)
Summarizes(p, paths, n, next, all, s, m, all2) ==
  /\ n \in DOMAIN paths
  /\ \A i \in DOMAIN paths : i # n => i \in DOMAIN next
  /\ \A i \in DOMAIN next : i \in DOMAIN paths /\ i # n /\ next[i] = paths[i]
  /\ IsAdded(all, paths[n].name, s, m, all2)
  /\ Applies(p, paths[n].name, s) = Feasible(p, paths[n])
  /\ DOMAIN s.assumptions = DOMAIN paths[n].assumptions
  /\ \A i \in DOMAIN s.assumptions : s.assumptions[i][2] = paths[n].assumptions[i][2]

(* The summary of a path takes the path's share.                           *)
LEMMA SummaryShares ==
  ASSUME NEW p, NEW paths, NEW n, NEW next, NEW all, NEW s, NEW m, NEW all2,
         Summarizes(p, paths, n, next, all, s, m, all2),
         PathsApart(p, paths), SummariesApart(p, paths, all),
         EveryEnvironmentIsSomewhere(p, paths, all)
  PROVE  /\ PathsApart(p, next) /\ SummariesApart(p, next, all2)
         /\ EveryEnvironmentIsSomewhere(p, next, all2)
<1> DEFINE d == paths[n]
           f == paths[n].name
<1>1. /\ n \in DOMAIN paths
      /\ \A i \in DOMAIN paths : i # n => i \in DOMAIN next
      /\ \A i \in DOMAIN next : i \in DOMAIN paths /\ i # n /\ next[i] = paths[i]
      /\ IsAdded(all, f, s, m, all2)
  BY DEF Summarizes
<1>2. \A b, B : Apart(d, Feasible(p, d), b, B) => Apart(s, Applies(p, f, s), b, B)
  BY DEF Summarizes, Apart, Diverge
<1> HIDE DEF d, f
<1>3. PathsApart(p, next)
  BY <1>1 DEF PathsApart
<1>4. ASSUME NEW g \in DOMAIN all2, NEW j \in DOMAIN all2[g], ~(g = f /\ j = m)
      PROVE  g \in DOMAIN all /\ j \in DOMAIN all[g] /\ all2[g][j] = all[g][j]
  BY <1>1, <1>4 DEF IsAdded
<1>5. all2[f][m] = s
  BY <1>1 DEF IsAdded
<1>6. ASSUME NEW j \in DOMAIN all2[f], f \in DOMAIN all2, j # m
      PROVE  Apart(s, Applies(p, f, s), all2[f][j], Applies(p, f, all2[f][j]))
  <2>1. f \in DOMAIN all /\ j \in DOMAIN all[f] /\ all2[f][j] = all[f][j]
    BY <1>4, <1>6
  <2>2. Apart(d, Feasible(p, d), all[f][j], Applies(p, f, all[f][j]))
    BY <1>1, <2>1 DEF SummariesApart, d, f
  <2> QED BY <1>2, <2>1, <2>2
<1>7. SummariesApart(p, next, all2)
  <2>1. ASSUME NEW g \in DOMAIN all2, NEW i \in DOMAIN all2[g], NEW j \in DOMAIN all2[g], i # j
        PROVE  Apart(all2[g][i], Applies(p, g, all2[g][i]), all2[g][j], Applies(p, g, all2[g][j]))
    <3>1. CASE g = f /\ i = m
      BY <1>5, <1>6, <2>1, <3>1
    <3>2. CASE g = f /\ j = m
      <4>1. Apart(s, Applies(p, f, s), all2[f][i], Applies(p, f, all2[f][i]))
        BY <1>6, <2>1, <3>2
      <4> QED BY <1>5, <3>2, <4>1, ApartSymmetric
    <3>3. CASE ~(g = f /\ i = m) /\ ~(g = f /\ j = m)
      <4>1. /\ g \in DOMAIN all /\ i \in DOMAIN all[g] /\ all2[g][i] = all[g][i]
            /\ j \in DOMAIN all[g] /\ all2[g][j] = all[g][j]
        BY <1>4, <3>3
      <4> QED BY <2>1, <4>1 DEF SummariesApart
    <3> QED BY <3>1, <3>2, <3>3
  <2>2. ASSUME NEW g \in DOMAIN all2, NEW i \in DOMAIN next, NEW j \in DOMAIN all2[g],
               next[i].name = g
        PROVE  Apart(next[i], Feasible(p, next[i]), all2[g][j], Applies(p, g, all2[g][j]))
    <3>1. CASE g = f /\ j = m
      <4>1. Apart(d, Feasible(p, d), next[i], Feasible(p, next[i]))
        BY <1>1, <2>2, <3>1 DEF PathsApart, d, f
      <4> QED BY <1>2, <1>5, <3>1, <4>1, ApartSymmetric
    <3>2. CASE ~(g = f /\ j = m)
      <4>1. g \in DOMAIN all /\ j \in DOMAIN all[g] /\ all2[g][j] = all[g][j]
        BY <1>4, <3>2
      <4> QED BY <1>1, <2>2, <4>1 DEF SummariesApart
    <3> QED BY <3>1, <3>2
  <2> QED BY <2>1, <2>2 DEF SummariesApart
<1>8. EveryEnvironmentIsSomewhere(p, next, all2)
  <2> SUFFICES ASSUME NEW l \in FirstCalls(p), NEW env \in Environments(p.cfgs[CalledAt(p, l)])
               PROVE  \/ \E i \in DOMAIN next :
                           next[i].name = CalledAt(p, l) /\ env \in Feasible(p, next[i])
                      \/ /\ CalledAt(p, l) \in DOMAIN all2
                         /\ \E k \in DOMAIN all2[CalledAt(p, l)] :
                              env \in Applies(p, CalledAt(p, l), all2[CalledAt(p, l)][k])
    BY DEF EveryEnvironmentIsSomewhere
  <2> DEFINE g == CalledAt(p, l)
  <2>1. \/ \E i \in DOMAIN paths : paths[i].name = g /\ env \in Feasible(p, paths[i])
        \/ g \in DOMAIN all /\ \E k \in DOMAIN all[g] : env \in Applies(p, g, all[g][k])
    BY DEF EveryEnvironmentIsSomewhere
  <2> HIDE DEF g
  <2>2. CASE g = f /\ env \in Feasible(p, d)
    <3>1. env \in Applies(p, f, s)
      BY <2>2 DEF Summarizes, d, f
    <3> QED BY <1>1, <1>5, <2>2, <3>1 DEF IsAdded, g
  <2>3. ASSUME NEW i \in DOMAIN paths, i # n, paths[i].name = g, env \in Feasible(p, paths[i])
        PROVE  \E j \in DOMAIN next : next[j].name = g /\ env \in Feasible(p, next[j])
    <3>1. i \in DOMAIN next /\ next[i] = paths[i]
      BY <1>1, <2>3
    <3> QED BY <2>3, <3>1
  <2>4. ASSUME g \in DOMAIN all, NEW k \in DOMAIN all[g], env \in Applies(p, g, all[g][k])
        PROVE  g \in DOMAIN all2 /\ \E j \in DOMAIN all2[g] : env \in Applies(p, g, all2[g][j])
    <3>1. g \in DOMAIN all2 /\ k \in DOMAIN all2[g] /\ all2[g][k] = all[g][k]
      BY <1>1, <2>4 DEF IsAdded
    <3> QED BY <2>4, <3>1
  <2>5. \/ g = f /\ env \in Feasible(p, d)
        \/ \E i \in DOMAIN paths : i # n /\ paths[i].name = g /\ env \in Feasible(p, paths[i])
        \/ g \in DOMAIN all /\ \E k \in DOMAIN all[g] : env \in Applies(p, g, all[g][k])
    BY <2>1 DEF d, f
  <2> QED BY <2>2, <2>3, <2>4, <2>5 DEF g
<1> QED BY <1>3, <1>7, <1>8


(* What the summary of a path is, once the path has come to the exit.      *)
LEMMA SummarizedOK ==
  ASSUME NEW p, CodeOK(p), NEW ver, NEW d, PathOK(p, ver, d),
         VertexOf(p, d).type = "EXIT", NEW s, s = SummaryOf(d)
  PROVE  /\ SummaryOK(p, d.name, s) /\ FitsProgram(p, d.name, s)
         /\ Applies(p, d.name, s) = Feasible(p, d)
         /\ DOMAIN s.assumptions = DOMAIN d.assumptions
         /\ \A i \in DOMAIN s.assumptions : s.assumptions[i][2] = d.assumptions[i][2]
<1>1. PathPlaced(p, d) /\ VersionsOK(p, ver, d) /\ TermsOK(p, d) /\ ValuesOK(p, d)
  BY DEF PathOK
<1>2. d.name \in DOMAIN p.cfgs /\ OwnVariables(p, d) \subseteq FlattenedInterface(p)
  BY <1>1, VertexOfPath
<1>3. IsSelfContained(s)
  BY <1>1, SummaryIsSelfContained
<1>4. \A l \in FirstCalls(p) : CalledAt(p, l) = d.name => FollowsRun(p, l, s)
  BY SummaryFollowsRun
<1>5. FitsProgram(p, d.name, s)
  BY <1>1, <1>2, SummaryFits
<1>6. Effect(BlockOf(p, d), s).applies = Feasible(p, d)
  BY <1>1, SummaryAppliesToPath
<1>7. /\ DOMAIN s.assumptions = DOMAIN d.assumptions
      /\ \A i \in DOMAIN d.assumptions : s.assumptions[i][2] = d.assumptions[i][2]
  BY <1>1, SummaryParts
<1> QED BY <1>3, <1>4, <1>5, <1>6, <1>7 DEF SummaryOK, Applies, BlockOf

(* All summaries are in order after one that is has been added.            *)
LEMMA AddedOK ==
  ASSUME NEW p, CodeOK(p), NEW all, SummariesOK(p, all), NEW f, NEW s,
         f \in {CalledAt(p, l) : l \in FirstCalls(p)},
         SummaryOK(p, f, s), FitsProgram(p, f, s),
         NEW m, NEW next, IsAdded(all, f, s, m, next)
  PROVE  SummariesOK(p, next)
<1>1. ReferencesResolve(p)
  BY DEF CodeOK
<1>2. \A g \in DOMAIN all : \A k \in DOMAIN all[g] :
        FitsProgram(p, g, all[g][k]) /\ SummaryOK(p, g, all[g][k])
  BY <1>1, SummariesFit DEF SummariesOK
<1>3. ASSUME NEW g \in DOMAIN next, NEW k \in DOMAIN next[g]
      PROVE  FitsProgram(p, g, next[g][k]) /\ SummaryOK(p, g, next[g][k])
  <2>1. CASE g = f /\ k = m
    BY <2>1 DEF IsAdded
  <2>2. CASE ~(g = f /\ k = m)
    <3>1. g \in DOMAIN all /\ k \in DOMAIN all[g] /\ next[g][k] = all[g][k]
      BY <1>3, <2>2 DEF IsAdded
    <3> QED BY <1>2, <3>1
  <2> QED BY <2>1, <2>2
<1>4. /\ WellFormedSummaries(SummarizedProgram(p, next))
      /\ ReferencesResolve(SummarizedProgram(p, next))
  BY <1>1, <1>3, SummariesFit
<1>5. DOMAIN next \subseteq {CalledAt(p, l) : l \in FirstCalls(p)}
  BY DEF IsAdded, SummariesOK
<1>6. \A g \in DOMAIN next : IsSeq(next[g])
  BY DEF IsAdded
<1> QED BY <1>3, <1>4, <1>5, <1>6 DEF SummariesOK

(* Summarizer::summarizePath: the summary takes over from the path that it *)
(* is made of, and no summary that is known is taken for the same.         *)
LEMMA SummarizeKeepsInv ==
  ASSUME Inv, SummarizePath
  PROVE  Inv'
<1> DEFINE s == SummaryOf(Current)
           f == Current.name
           n == Len(explorer)
           next == Replaced(explorer, <<>>)
           all2 == Added(summaries, f, s)
           known == IF f \in DOMAIN summaries THEN summaries[f] ELSE <<>>
<1>1. explorer # <<>> /\ Vertex.type = "EXIT" /\ UNCHANGED <<prog, version>>
  BY Zenon DEF SummarizePath, Push
<1>2. /\ CodeOK(P) /\ InvOf(P, version, explorer, summaries)
      /\ PathOK(P, version, Current) /\ version \in [FlattenedInterface(P) -> Nat]
      /\ Vertex = VertexOf(P, Current) /\ Current = explorer[n]
  BY <1>1, CurrentPath
<1>3. explorer' = next
  BY Zenon DEF SummarizePath, Push, Replaced
<1>4. /\ SummaryOK(P, f, s) /\ FitsProgram(P, f, s)
      /\ Applies(P, f, s) = Feasible(P, Current)
      /\ DOMAIN s.assumptions = DOMAIN Current.assumptions
      /\ \A i \in DOMAIN s.assumptions : s.assumptions[i][2] = Current.assumptions[i][2]
  <2>1. s = SummaryOf(Current) /\ VertexOf(P, Current).type = "EXIT"
    BY <1>1, <1>2
  <2> HIDE DEF s
  <2> QED BY <1>2, <2>1, SummarizedOK
<1>5. summaries' = IF \E i \in DOMAIN known : SameSummary(known[i], s) THEN summaries ELSE all2
  BY Zenon DEF SummarizePath, Added
<1>6. IsReplaced(explorer, <<>>, next)
  <2>1. IsSeq(explorer)
    BY <1>2 DEF InvOf
  <2> QED BY <1>1, <2>1, EmptyIsSeq, ReplaceTop
<1>7. /\ IsSeq(next) /\ n \in Nat \ {0} /\ DOMAIN explorer = 1 .. n
      /\ DOMAIN next = 1 .. n - 1 /\ \A i \in 1 .. n - 1 : next[i] = explorer[i]
  BY <1>6, EmptyIsSeq DEF IsReplaced
<1> HIDE DEF s, f, n, next, all2
<1>8. /\ n \in DOMAIN explorer
      /\ \A i \in DOMAIN explorer : i # n => i \in DOMAIN next
      /\ \A i \in DOMAIN next : i \in DOMAIN explorer /\ i # n /\ next[i] = explorer[i]
  BY <1>7
<1>9. \A i \in DOMAIN known : ~SameSummary(known[i], s)
  <2> SUFFICES ASSUME f \in DOMAIN summaries, NEW i \in DOMAIN summaries[f]
               PROVE  summaries[f][i].assumptions # s.assumptions
    BY EmptyIsSeq DEF SameSummary
  <2>1. Apart(Current, Feasible(P, Current), summaries[f][i], Applies(P, f, summaries[f][i]))
    BY <1>2, <1>8 DEF InvOf, SummariesApart, f
  <2> QED BY <1>4, <2>1 DEF Apart, Diverge
<1>10. summaries' = all2
  <2> HIDE DEF known
  <2> QED BY <1>5, <1>9
<1>11. PICK m : IsAdded(summaries, f, s, m, all2)
  <2>1. \A g \in DOMAIN summaries : IsSeq(summaries[g])
    BY <1>2 DEF InvOf, SummariesOK
  <2> QED BY <2>1, AddSummary DEF all2
<1>12. Summarizes(P, explorer, n, next, summaries, s, m, all2)
  <2>1. f = explorer[n].name
    BY <1>2 DEF f
  <2> QED BY <1>2, <1>4, <1>8, <1>11, <2>1 DEF Summarizes
<1>13. /\ PathsApart(P, next) /\ SummariesApart(P, next, all2)
       /\ EveryEnvironmentIsSomewhere(P, next, all2)
  BY <1>2, <1>12, SummaryShares DEF InvOf
<1>14. \A i \in DOMAIN next : PathOK(P, version, next[i])
  BY <1>2, <1>8 DEF InvOf
<1>15. SummariesOK(P, all2)
  <2>1. f \in {CalledAt(P, l) : l \in FirstCalls(P)}
    BY <1>2 DEF f, PathOK, PathPlaced
  <2>2. SummariesOK(P, summaries)
    BY <1>2 DEF InvOf
  <2> QED BY <1>2, <1>4, <1>11, <2>1, <2>2, AddedOK
<1>16. InvOf(P, version, explorer', summaries')
  BY <1>2, <1>3, <1>7, <1>10, <1>13, <1>14, <1>15 DEF InvOf
<1>17. prog \in Programs
  BY DEF Inv
<1> QED BY <1>1, <1>16, <1>17 DEF Inv, InvOf, P


-----------------------------------------------------------------------------
(* The initial state.                                                      *)

(* How many elements of the set F of numbers are not above l.              *)
RankOf(F, l) == Cardinality({k \in F : k <= l})

(* This numbers the elements of F from 1 on.                               *)
LEMMA RanksNumber ==
  ASSUME NEW F, F \subseteq Nat, IsFiniteSet(F)
  PROVE  /\ Cardinality(F) \in Nat
         /\ \A l \in F : RankOf(F, l) \in 1 .. Cardinality(F)
         /\ \A k, l \in F : RankOf(F, k) = RankOf(F, l) => k = l
         /\ \A i \in 1 .. Cardinality(F) : \E l \in F : RankOf(F, l) = i
<1> DEFINE N == Cardinality(F)
           Up(l) == {k \in F : k <= l}
<1>1. N \in Nat
  BY FS_CardinalityType
<1>2. ASSUME NEW l \in F
      PROVE  IsFiniteSet(Up(l)) /\ RankOf(F, l) \in 1 .. N
  <2>1. Up(l) \in SUBSET F /\ l \in Up(l)
    OBVIOUS
  <2> DEFINE U == Up(l)
             r == Cardinality(U)
  <2> HIDE DEF U
  <2>2. IsFiniteSet(U) /\ r <= N
    BY <2>1, FS_Subset DEF U
  <2>3. r \in Nat
    BY <2>2, FS_CardinalityType
  <2>4. r # 0
    <3>1. U # {}
      BY <2>1 DEF U
    <3> QED BY <2>2, <3>1, FS_EmptySet
  <2> HIDE DEF r, N
  <2>5. r \in 1 .. N
    BY <1>1, <2>2, <2>3, <2>4
  <2> QED BY <2>2, <2>5 DEF r, U, RankOf
<1>3. ASSUME NEW k \in F, NEW l \in F, RankOf(F, k) = RankOf(F, l), k <= l
      PROVE  k = l
  <2>1. Up(k) \in SUBSET Up(l) /\ l \in Up(l)
    <3>1. k \in Nat /\ l \in Nat /\ \A j \in F : j \in Nat
      OBVIOUS
    <3>2. \A j \in F : j <= k => j <= l
      BY <1>3, <3>1
    <3>3. l <= l
      BY <3>1
    <3> QED BY <3>2, <3>3
  <2>2. Up(l) = Up(k)
    <3> DEFINE A == Up(k)
               B == Up(l)
    <3>1. Cardinality(A) = Cardinality(B) /\ IsFiniteSet(B) /\ A \in SUBSET B
      BY <1>2, <1>3, <2>1 DEF RankOf
    <3> HIDE DEF A, B
    <3>2. A = B
      BY <3>1, FS_Subset
    <3> QED BY <3>2 DEF A, B
  <2>3. l <= k
    BY <2>1, <2>2
  <2> QED BY <1>3, <2>3
<1>4. \A k, l \in F : RankOf(F, k) = RankOf(F, l) => k = l
  <2> SUFFICES ASSUME NEW k \in F, NEW l \in F, RankOf(F, k) = RankOf(F, l) PROVE k = l
    OBVIOUS
  <2>1. k <= l \/ l <= k
    OBVIOUS
  <2> QED BY <1>3, <2>1
<1>5. \A i \in 1 .. N : \E l \in F : RankOf(F, l) = i
  <2> DEFINE rank == [l \in F |-> RankOf(F, l)]
             I == 1 .. N
  <2>1. IsFiniteSet(I) /\ Cardinality(I) = N
    <3> HIDE DEF N
    <3>1. 1 \in Int /\ N \in Int
      BY <1>1
    <3>2. IsFiniteSet(1 .. N) /\ Cardinality(1 .. N) = IF 1 > N THEN 0 ELSE N - 1 + 1
      BY <3>1, FS_Interval
    <3>3. (IF 1 > N THEN 0 ELSE N - 1 + 1) = N
      BY <1>1
    <3> QED BY <3>2, <3>3
  <2>2. rank \in Injection(F, I)
    BY <1>2, <1>4 DEF Injection, IsInjective
  <2> HIDE DEF rank, I
  <2>3. rank \in Surjection(F, I)
    <3>1. Cardinality(F) = Cardinality(I)
      BY <2>1
    <3> QED BY <2>1, <2>2, <3>1, FS_Injection
  <2> QED BY <2>3 DEF Surjection, rank, I
<1> QED BY <1>1, <1>2, <1>4, <1>5

(* The paths that a function block is explored from.                       *)
LEMMA InitialPathOK ==
  ASSUME NEW p, CodeOK(p), NEW l \in FirstCalls(p),
         NEW ver \in [FlattenedInterface(p) -> Nat], NEW d, d = InitialPath(p, l)
  PROVE  /\ PathOK(p, ver, d) /\ d.name = CalledAt(p, l)
         /\ Feasible(p, d) = Environments(p.cfgs[CalledAt(p, l)])
<1> DEFINE g == p.cfgs[CalledAt(p, l)]
           scope == CalleeScope(p, l)
           own == {scope} \X g.vars
<1>1. /\ scope \in DOMAIN p.scopes /\ CfgOf(p, scope) = g
      /\ own \subseteq FlattenedInterface(p)
  BY CalleeOfCall
<1>2. g.entry \in DOMAIN g.vertices
  BY <1>1 DEF CodeOK, WellFormed
<1> HIDE DEF g
<1>3. d = [name |-> CalledAt(p, l), scope |-> scope, label |-> g.entry,
           literals |-> <<g.entry>>, assumptions |-> <<>>, hard |-> <<>>,
           ver |-> [x \in own |-> 0],
           val |-> [n \in own \X {0} |-> {env \in Environments(g) : n[1][2] \in env}]]
  BY DEF InitialPath, CalleeScope, g
<1> HIDE DEF scope
<1>4. /\ d.name = CalledAt(p, l) /\ d.scope = scope /\ d.label = g.entry
      /\ d.literals = <<g.entry>> /\ d.assumptions = <<>> /\ d.hard = <<>>
      /\ d.ver = [x \in own |-> 0]
      /\ d.val = [n \in own \X {0} |-> {env \in Environments(g) : n[1][2] \in env}]
      /\ IsPath(d)
  BY <1>3 DEF IsPath
<1>5. BlockOf(p, d) = g /\ OwnVariables(p, d) = own
  BY <1>4 DEF BlockOf, OwnVariables, g
<1>6. Len(d.hard) = 0 /\ DOMAIN d.hard = {} /\ IsSeq(d.hard)
      /\ DOMAIN d.assumptions = {} /\ IsSeq(d.assumptions)
  BY <1>4, EmptyIsSeq
<1>7. PathPlaced(p, d)
  <2>1. d.name = CalledAt(p, l) /\ d.scope = CalleeScope(p, l)
    BY <1>4 DEF scope
  <2>2. d.literals \in Seq(DOMAIN g.vertices) /\ d.literals # <<>> /\ d.literals[Len(d.literals)] = d.label
    <3> DEFINE entry == g.entry
               labels == DOMAIN g.vertices
    <3>1. entry \in labels
      BY <1>2
    <3> HIDE DEF entry, labels
    <3>2. <<entry>> \in Seq(labels) /\ <<entry>> # <<>> /\ <<entry>>[Len(<<entry>>)] = entry
      BY <3>1
    <3> QED BY <1>4, <3>2 DEF entry, labels
  <2> QED BY <1>2, <1>4, <1>5, <2>1, <2>2 DEF PathPlaced
<1>8. VersionsOK(p, ver, d)
  <2>1. \A x \in own : IsCurrent(p, d, Len(d.hard) + 1, <<x, d.ver[x]>>)
    <3> SUFFICES ASSUME NEW x \in own PROVE IsCurrent(p, d, 1, <<x, 0>>)
      BY <1>4, <1>6
    <3>1. 1 .. 1 - 1 = {}
      OBVIOUS
    <3> QED BY <1>5, <3>1 DEF IsCurrent
  <2>2. DOMAIN d.ver = own
    BY <1>4
  <2> HIDE DEF own
  <2> QED BY <1>5, <1>6, <2>1, <2>2 DEF VersionsOK
<1>9. TermsOK(p, d)
  BY <1>6 DEF TermsOK
<1>10. ValuesOK(p, d)
  <2>1. WrittenNames(d) = {}
    BY <1>6 DEF WrittenNames
  <2>2. \A x \in own : d.val[<<x, 0>>] = {env \in Environments(g) : x[2] \in env}
    BY <1>4
  <2>3. DOMAIN d.val = own \X {0}
    BY <1>4
  <2> HIDE DEF own
  <2> QED BY <1>5, <1>6, <2>1, <2>2, <2>3 DEF ValuesOK
<1>11. Feasible(p, d) = Environments(g)
  BY <1>4, <1>6 DEF Feasible, g
<1>12. Feasible(p, d) # {}
  <2>1. {} \in SUBSET g.vars
    OBVIOUS
  <2> QED BY <1>11, <2>1 DEF Environments
<1>13. FollowsRuns(p, d)
  <2> SUFFICES ASSUME Len(d.literals) <= MaxSteps, NEW k \in FirstCalls(p),
                      CalledAt(p, k) = d.name, NEW env \in Feasible(p, d),
                      NEW trace, trace = CalleeTrace(p, k, env)
               PROVE  /\ \A i \in DOMAIN d.literals :
                           trace[i].label = d.literals[i] /\ trace[i].stack = CalleeStack(p, k)
                      /\ Mirrors(p, d, env, trace[Len(d.literals)])
    BY DEF FollowsRuns
  <2>1. k = l
    BY <1>4, FirstCallsDiffer
  <2>2. Len(d.literals) = 1 /\ DOMAIN d.literals = {1} /\ d.literals[1] = g.entry
    BY <1>4
  <2>3. 1 \in 1 .. MaxSteps
    BY <2>2, MaxStepsAssumption
  <2>4. trace[1] = CalleeStart(p, l, env)
    BY <2>1, <2>3, TraceSteps
  <2> DEFINE start == trace[1]
  <2>5. /\ start.label = g.entry /\ start.stack = CalleeStack(p, l)
        /\ start.env = [x \in FlattenedInterface(p) |-> x[1] = scope /\ x[2] \in env]
        /\ start = [cycle |-> start.cycle, label |-> start.label, stack |-> start.stack,
                    env |-> start.env, taken |-> start.taken]
    BY <2>4 DEF CalleeStart, scope, g
  <2> HIDE DEF start
  <2>6. \A x \in own : start.env[x] = (env \in d.val[<<x, d.ver[x]>>])
    <3> SUFFICES ASSUME NEW x \in own
                 PROVE  start.env[x] = (env \in d.val[<<x, 0>>])
      <4>1. \A x \in own : d.ver[x] = 0
        BY <1>4
      <4> HIDE DEF own
      <4> QED BY <4>1
    <3>1. x \in FlattenedInterface(p) /\ x[1] = scope
      BY <1>1
    <3>2. start.env[x] = (x[2] \in env)
      BY <2>5, <3>1
    <3>3. d.val[<<x, 0>>] = {e \in Environments(g) : x[2] \in e}
      BY <1>4
    <3>4. env \in Environments(g)
      BY <1>11
    <3>5. (env \in d.val[<<x, 0>>]) <=> x[2] \in env
      BY <3>3, <3>4
    <3> QED BY <3>2, <3>5
  <2>7. Mirrors(p, d, env, start)
    <3> HIDE DEF own
    <3> QED BY <1>5, <2>5, <2>6 DEF Mirrors
  <2> QED BY <2>1, <2>2, <2>5, <2>7 DEF start
<1> QED BY <1>4, <1>7, <1>8, <1>9, <1>10, <1>11, <1>12, <1>13 DEF PathOK, g


(* Engine::initialize explores each called function block from its entry,  *)
(* with all environments.                                                  *)
LEMMA InitEstablishesInv ==
  ASSUME Init
  PROVE  Inv
<1> DEFINE F == FirstCalls(P)
           N == Cardinality(F)
           At(i) == CHOOSE l \in F : RankOf(F, l) = i
<1>1. prog \in Programs /\ CodeOK(P)
  BY ProgramOK DEF Init
<1>2. /\ explorer = [i \in 1 .. N |-> InitialPath(P, At(i))]
      /\ version = [x \in FlattenedInterface(P) |-> 0] /\ summaries = <<>>
  BY DEF Init, RankOf
<1>3. version \in [FlattenedInterface(P) -> Nat]
  BY <1>2
<1>4. F \subseteq Nat /\ IsFiniteSet(F)
  <2>1. F \subseteq Nat
    BY <1>1, CalleeOfCall
  <2>2. F \in SUBSET DOMAIN MainCfg(P).vertices
    BY DEF FirstCalls
  <2>3. IsFiniteSet(DOMAIN MainCfg(P).vertices)
    BY <1>1 DEF CodeOK
  <2> QED BY <2>1, <2>2, <2>3, FS_Subset
<1> HIDE DEF F
<1>5. /\ N \in Nat
      /\ \A l \in F : RankOf(F, l) \in 1 .. N
      /\ \A k, l \in F : RankOf(F, k) = RankOf(F, l) => k = l
      /\ \A i \in 1 .. N : \E l \in F : RankOf(F, l) = i
  BY <1>4, RanksNumber
<1>6. \A i \in 1 .. N : At(i) \in F /\ RankOf(F, At(i)) = i
  BY <1>5
<1>7. \A l \in F : At(RankOf(F, l)) = l
  BY <1>5, <1>6
<1> HIDE DEF N, At
<1>8. DOMAIN explorer = 1 .. N /\ \A i \in 1 .. N : explorer[i] = InitialPath(P, At(i))
  BY <1>2
<1>9. IsSeq(explorer)
  <2>1. explorer = [i \in 1 .. N |-> explorer[i]]
    BY <1>2, <1>8
  <2> QED BY <1>5, <2>1, FunctionIsSeq
<1>10. ASSUME NEW i \in DOMAIN explorer
       PROVE  /\ PathOK(P, version, explorer[i]) /\ explorer[i].name = CalledAt(P, At(i))
              /\ Feasible(P, explorer[i]) = Environments(P.cfgs[CalledAt(P, At(i))])
              /\ At(i) \in F /\ RankOf(F, At(i)) = i
  <2>1. At(i) \in FirstCalls(P) /\ RankOf(F, At(i)) = i
    BY <1>6, <1>8 DEF F
  <2>2. explorer[i] = InitialPath(P, At(i))
    BY <1>8
  <2> QED BY <1>1, <1>3, <2>1, <2>2, InitialPathOK DEF F
<1>11. PathsApart(P, explorer)
  <2> SUFFICES ASSUME NEW i \in DOMAIN explorer, NEW j \in DOMAIN explorer,
                      explorer[i].name = explorer[j].name
               PROVE  i = j
    BY DEF PathsApart
  <2>1. At(i) = At(j)
    BY <1>1, <1>10, FirstCallsDiffer DEF F
  <2> QED BY <1>10, <2>1
<1>12. DOMAIN summaries = {}
  BY <1>2
<1>13. SummariesApart(P, explorer, summaries)
  BY <1>12 DEF SummariesApart
<1>14. EveryEnvironmentIsSomewhere(P, explorer, summaries)
  <2> SUFFICES ASSUME NEW l \in F, NEW env \in Environments(P.cfgs[CalledAt(P, l)])
               PROVE  \E i \in DOMAIN explorer :
                        explorer[i].name = CalledAt(P, l) /\ env \in Feasible(P, explorer[i])
    BY DEF EveryEnvironmentIsSomewhere, F
  <2> DEFINE i == RankOf(F, l)
  <2>1. i \in DOMAIN explorer /\ At(i) = l
    BY <1>5, <1>7, <1>8
  <2> HIDE DEF i
  <2> QED BY <1>10, <2>1
<1>15. SummariesOK(P, summaries)
  <2>1. /\ WellFormedSummaries(SummarizedProgram(P, summaries))
        /\ ReferencesResolve(SummarizedProgram(P, summaries))
    BY <1>1, <1>12, SummariesFit DEF CodeOK
  <2> QED BY <1>12, <2>1 DEF SummariesOK
<1> QED BY <1>1, <1>3, <1>9, <1>10, <1>11, <1>13, <1>14, <1>15 DEF Inv

(* Every step preserves the invariant.                                     *)
LEMMA NextKeepsInv ==
  ASSUME Inv, [Next]_vars
  PROVE  Inv'
<1>1. CASE HandlePassThroughVertex
  BY <1>1, PassKeepsInv
<1>2. CASE VisitAssignmentInstruction
  BY <1>2, AssignmentKeepsInv
<1>3. CASE VisitIfInstruction
  BY <1>3, DecisionKeepsInv
<1>4. CASE SummarizePath
  BY <1>4, SummarizeKeepsInv
<1>5. CASE UNCHANGED vars
  BY <1>5 DEF vars, Inv, P
<1> QED BY <1>1, <1>2, <1>3, <1>4, <1>5 DEF Next, Step, Done

(* What summarization knows of its paths and summaries: in every state the *)
(* paths on the explorer's stack and the summaries made so far are in      *)
(* order, they have parted from one another at a decision, and no start    *)
(* environment has been lost.                                              *)
THEOREM InvHolds == Spec => []Inv
<1>1. Init => Inv
  BY InitEstablishesInv
<1>2. Inv /\ [Next]_vars => Inv'
  BY NextKeepsInv
<1> QED BY <1>1, <1>2, PTL DEF Spec

-----------------------------------------------------------------------------
(* What the runs check.                                                    *)

(* Summarizer::summarizePath renumbers the names of a path: each summary   *)
(* that it makes stands on its own, whatever versions other paths have used*)
(* up in the meantime.                                                     *)
THEOREM SummariesSelfContained == Spec => []SummariesAreSelfContained
<1>1. Inv => SummariesAreSelfContained
  BY DEF Inv, SummariesOK, SummaryOK, SummariesAreSelfContained
<1> QED BY <1>1, InvHolds, PTL

(* The summaries that Summarizer::findApplicableSummary is given fit the   *)
(* program whose calls they replace: their labels and variables are those  *)
(* of the program, and the versions that they write have a highest one.    *)
(* This is what the proofs about the engine that applies them assume.      *)
THEOREM SummariesFitProgram ==
  Spec => [](/\ WellFormedSummaries(SummarizedProgram(P, summaries))
             /\ ReferencesResolve(SummarizedProgram(P, summaries)))
<1>1. Inv => /\ WellFormedSummaries(SummarizedProgram(P, summaries))
             /\ ReferencesResolve(SummarizedProgram(P, summaries))
  BY DEF Inv, SummariesOK
<1> QED BY <1>1, InvHolds, PTL


(* Two sets of which one is empty and the other a singleton count as one.  *)
LEMMA OneOfBoth ==
  ASSUME NEW A, NEW B,
         \A x, y \in A : x = y, \A x, y \in B : x = y,
         A = {} \/ B = {}, A # {} \/ B # {}
  PROVE  Cardinality(A) + Cardinality(B) = 1
<1>1. CASE A # {}
  <2>1. PICK x \in A : TRUE
    BY <1>1
  <2>2. A = {x} /\ B = {}
    BY <1>1, <2>1
  <2>3. Cardinality(A) = 1 /\ Cardinality(B) = 0
    BY <2>2, FS_Singleton, FS_EmptySet
  <2> QED BY <2>3
<1>2. CASE B # {}
  <2>1. PICK x \in B : TRUE
    BY <1>2
  <2>2. B = {x} /\ A = {}
    BY <1>2, <2>1
  <2>3. Cardinality(B) = 1 /\ Cardinality(A) = 0
    BY <2>2, FS_Singleton, FS_EmptySet
  <2> QED BY <2>3
<1> QED BY <1>1, <1>2

(* The function block called at l, its summaries, and where its paths are. *)
SharesOf(l, f, known, paths) ==
  /\ f = CalledAt(P, l)
  /\ known = IF f \in DOMAIN summaries THEN summaries[f] ELSE <<>>
  /\ paths = {i \in DOMAIN explorer : explorer[i].name = f}

(* The stack of Explorer and the summaries of Summarizer share out the     *)
(* start environments of a called function block at every moment: each     *)
(* environment belongs to exactly one path or summary, and a branch that   *)
(* none belongs to is never followed, although the false branch is only    *)
(* checked when the true branch is satisfiable.                            *)
THEOREM EnvironmentsPartitioned == Spec => []PathsPartitionEnvironments
<1>1. ASSUME Inv, NEW l \in FirstCalls(P), NEW f, NEW known, NEW paths,
             SharesOf(l, f, known, paths), NEW env \in Environments(P.cfgs[f])
      PROVE  Cardinality({i \in paths : env \in Feasible(P, explorer[i])})
               + Cardinality({i \in DOMAIN known : env \in Applies(P, f, known[i])}) = 1
  <2> DEFINE A == {i \in paths : env \in Feasible(P, explorer[i])}
             B == {i \in DOMAIN known : env \in Applies(P, f, known[i])}
  <2>1. \A i, j \in A : i = j
    BY <1>1 DEF Inv, PathsApart, Apart, SharesOf
  <2>2. \A i \in B : f \in DOMAIN summaries /\ i \in DOMAIN summaries[f]
                     /\ env \in Applies(P, f, summaries[f][i])
    BY <1>1, EmptyIsSeq DEF SharesOf
  <2>3. \A i, j \in B : i = j
    BY <1>1, <2>2 DEF Inv, SummariesApart, Apart
  <2>4. A = {} \/ B = {}
    <3> SUFFICES ASSUME NEW i \in A, NEW j \in B PROVE FALSE
      OBVIOUS
    <3>1. Feasible(P, explorer[i]) \cap Applies(P, f, summaries[f][j]) = {}
      BY <1>1, <2>2 DEF Inv, SummariesApart, Apart, SharesOf
    <3> QED BY <2>2, <3>1
  <2>5. A # {} \/ B # {}
    BY <1>1 DEF Inv, EveryEnvironmentIsSomewhere, SharesOf
  <2> HIDE DEF A, B
  <2>6. Cardinality(A) + Cardinality(B) = 1
    BY <2>1, <2>3, <2>4, <2>5, OneOfBoth
  <2> QED BY <2>6 DEF A, B
<1>2. ASSUME Inv
      PROVE  PathsPartitionEnvironments
  <2>1. ASSUME NEW l \in FirstCalls(P)
        PROVE  LET f == CalledAt(P, l)
                   known == IF f \in DOMAIN summaries THEN summaries[f] ELSE <<>>
                   paths == {i \in DOMAIN explorer : explorer[i].name = f}
                   share == [i \in paths |-> Feasible(P, explorer[i])]
                   done == [i \in DOMAIN known |-> Effect(P.cfgs[f], known[i]).applies]
               IN  /\ \A i \in paths : share[i] # {}
                   /\ \A env \in Environments(P.cfgs[f]) :
                        Cardinality({i \in paths : env \in share[i]})
                          + Cardinality({i \in DOMAIN known : env \in done[i]}) = 1
    <3> DEFINE f == CalledAt(P, l)
               known == IF f \in DOMAIN summaries THEN summaries[f] ELSE <<>>
               paths == {i \in DOMAIN explorer : explorer[i].name = f}
               share == [i \in paths |-> Feasible(P, explorer[i])]
               done == [i \in DOMAIN known |-> Effect(P.cfgs[f], known[i]).applies]
    <3>1. /\ \A i \in paths : share[i] = Feasible(P, explorer[i])
          /\ \A i \in DOMAIN known : done[i] = Applies(P, f, known[i])
      BY DEF Applies
    <3>2. \A i \in paths : share[i] # {}
      BY <1>2, <3>1 DEF Inv, PathOK
    <3>3. SharesOf(l, f, known, paths)
      BY DEF SharesOf
    <3> HIDE DEF f, known, paths, share, done
    <3>4. ASSUME NEW env \in Environments(P.cfgs[f])
          PROVE  Cardinality({i \in paths : env \in share[i]})
                   + Cardinality({i \in DOMAIN known : env \in done[i]}) = 1
      <4>1. /\ {i \in paths : env \in share[i]}
                 = {i \in paths : env \in Feasible(P, explorer[i])}
            /\ {i \in DOMAIN known : env \in done[i]}
                 = {i \in DOMAIN known : env \in Applies(P, f, known[i])}
        BY <3>1
      <4>2. Cardinality({i \in paths : env \in Feasible(P, explorer[i])})
              + Cardinality({i \in DOMAIN known : env \in Applies(P, f, known[i])}) = 1
        BY <1>1, <1>2, <3>3
      <4> QED BY <4>1, <4>2
    <3> QED BY <3>2, <3>4 DEF f, known, paths, share, done
  <2> QED BY <2>1, Zenon DEF PathsPartitionEnvironments
<1> QED BY <1>2, InvHolds, PTL

(* Once Engine::run has returned the summaries of a function block are its *)
(* behaviour: whatever values its variables have at the call, exactly one  *)
(* summary is found applicable, its labels are the path that the simulation*)
(* takes, and its effect is what the simulation ends with.  The simulation *)
(* is followed for MaxSteps steps, so that much is said of the summaries   *)
(* that are no longer than that.                                           *)
THEOREM SummariesExact == Spec => [](RunsLastLongEnough => SummariesAreExact)
<1>1. ASSUME Inv, RunsLastLongEnough, explorer = <<>>, NEW l \in FirstCalls(P),
             NEW f, f = CalledAt(P, l), NEW env \in Environments(P.cfgs[f])
      PROVE  /\ f \in DOMAIN summaries
             /\ \E i \in DOMAIN summaries[f] :
                  /\ env \in Applies(P, f, summaries[f][i])
                  /\ \A j \in DOMAIN summaries[f] :
                       env \in Applies(P, f, summaries[f][j]) => j = i
                  /\ Describes(P, l, summaries[f][i], Effect(P.cfgs[f], summaries[f][i]).final,
                               env, CalleeRun(P, l, env))
  <2>1. DOMAIN explorer = {}
    BY <1>1, EmptyIsSeq
  <2>2. /\ f \in DOMAIN summaries
        /\ \E k \in DOMAIN summaries[f] : env \in Applies(P, f, summaries[f][k])
    BY <1>1, <2>1 DEF Inv, EveryEnvironmentIsSomewhere
  <2>3. PICK i \in DOMAIN summaries[f] : env \in Applies(P, f, summaries[f][i])
    BY <2>2
  <2>4. \A j \in DOMAIN summaries[f] : env \in Applies(P, f, summaries[f][j]) => j = i
    BY <1>1, <2>2, <2>3 DEF Inv, SummariesApart, Apart
  <2>5. FollowsRun(P, l, summaries[f][i])
    BY <1>1, <2>2 DEF Inv, SummariesOK, SummaryOK
  <2>6. Len(summaries[f][i].literals) < MaxSteps
    BY <1>1, <2>2 DEF RunsLastLongEnough
  <2>7. Describes(P, l, summaries[f][i], Effect(P.cfgs[f], summaries[f][i]).final,
                  env, CalleeRun(P, l, env))
    BY <1>1, <2>3, <2>5, <2>6 DEF FollowsRun
  <2> QED BY <2>2, <2>3, <2>4, <2>7
<1>2. ASSUME Inv, RunsLastLongEnough
      PROVE  SummariesAreExact
  <2> SUFFICES ASSUME explorer = <<>>, NEW l \in FirstCalls(P)
               PROVE  LET h == P.cfgs[CalledAt(P, l)]
                          all == summaries[CalledAt(P, l)]
                          effect == [i \in DOMAIN all |-> Effect(h, all[i])]
                      IN  \A env \in Environments(h) :
                            LET run == CalleeRun(P, l, env)
                            IN  \E i \in DOMAIN all :
                                  /\ {j \in DOMAIN all : env \in effect[j].applies} = {i}
                                  /\ Describes(P, l, all[i], effect[i].final, env, run)
    BY Zenon DEF SummariesAreExact
  <2> DEFINE f == CalledAt(P, l)
             h == P.cfgs[f]
             all == summaries[f]
             effect == [i \in DOMAIN all |-> Effect(h, all[i])]
  <2>1. \A i \in DOMAIN all : effect[i] = Effect(h, all[i])
    OBVIOUS
  <2> HIDE DEF effect
  <2>2. \A env \in Environments(h) : \E i \in DOMAIN all :
          /\ {j \in DOMAIN all : env \in effect[j].applies} = {i}
          /\ Describes(P, l, all[i], effect[i].final, env, CalleeRun(P, l, env))
    <3> SUFFICES ASSUME NEW env \in Environments(h)
                 PROVE  \E i \in DOMAIN all :
                          /\ {j \in DOMAIN all : env \in effect[j].applies} = {i}
                          /\ Describes(P, l, all[i], effect[i].final, env, CalleeRun(P, l, env))
      OBVIOUS
    <3>1. PICK i \in DOMAIN all :
            /\ env \in Applies(P, f, all[i])
            /\ \A j \in DOMAIN all : env \in Applies(P, f, all[j]) => j = i
            /\ Describes(P, l, all[i], Effect(h, all[i]).final, env, CalleeRun(P, l, env))
      BY <1>1, <1>2
    <3> HIDE DEF f, h, all
    <3>2. \A j \in DOMAIN all : env \in effect[j].applies <=> env \in Applies(P, f, all[j])
      BY <2>1 DEF Applies, h
    <3>3. {j \in DOMAIN all : env \in effect[j].applies} = {i}
      BY <3>1, <3>2
    <3>4. Describes(P, l, all[i], effect[i].final, env, CalleeRun(P, l, env))
      BY <2>1, <3>1
    <3> QED BY <3>3, <3>4
  <2> QED BY <2>2, Zenon DEF effect
<1>3. Inv => (RunsLastLongEnough => SummariesAreExact)
  BY <1>2
<1> QED BY <1>3, InvHolds, PTL
============================================================================
