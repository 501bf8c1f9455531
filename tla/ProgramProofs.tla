-------------------------- MODULE ProgramProofs ---------------------------
(***************************************************************************)
(* Facts about sequences, programs, call stacks and summaries that the     *)
(* proofs about several engines need.                                      *)
(***************************************************************************)
EXTENDS SymbolicContext, SequenceTheorems, TLAPS

-----------------------------------------------------------------------------
(* Sequences and their elements.                                           *)

(* A sequence over any set is a sequence over its own elements.            *)
LEMMA SeqOfOwnElements ==
  ASSUME NEW S, NEW s \in Seq(S)
  PROVE  IsSeq(s) /\ RangeOf(s) \subseteq S /\ DOMAIN s = 1 .. Len(s) /\ Len(s) \in Nat
BY DEF IsSeq, RangeOf

(* The empty sequence and sequences of one and two elements.               *)
LEMMA ShortSeq ==
  /\ IsSeq(<<>>) /\ RangeOf(<<>>) = {}
  /\ \A x : IsSeq(<<x>>) /\ RangeOf(<<x>>) = {x} /\ Len(<<x>>) = 1 /\ <<x>> # <<>>
  /\ \A x, y : IsSeq(<<x, y>>) /\ RangeOf(<<x, y>>) = {x, y} /\ <<x, y>> # <<>>
BY DEF IsSeq, RangeOf

(* A sequence is empty when it has no elements.                            *)
LEMMA NonemptySeq ==
  ASSUME NEW s, IsSeq(s), s # <<>>
  PROVE  Len(s) \in Nat \ {0} /\ DOMAIN s = 1 .. Len(s) /\ s[1] \in RangeOf(s)
BY DEF IsSeq, RangeOf

(* Appending an element.                                                   *)
LEMMA AppendSeq ==
  ASSUME NEW s, IsSeq(s), NEW x
  PROVE  /\ IsSeq(Append(s, x)) /\ Append(s, x) # <<>>
         /\ RangeOf(Append(s, x)) = RangeOf(s) \cup {x}
         /\ Len(Append(s, x)) = Len(s) + 1
<1> DEFINE S == RangeOf(s) \cup {x}
<1>1. s \in Seq(S)
  BY SeqMonotonic DEF IsSeq
<1>2. /\ Append(s, x) \in Seq(S) /\ Append(s, x) # <<>>
      /\ Len(Append(s, x)) = Len(s) + 1
      /\ \A i \in 1 .. Len(s) : Append(s, x)[i] = s[i]
      /\ Append(s, x)[Len(s) + 1] = x
  BY <1>1, AppendProperties
<1>3. Len(s) \in Nat /\ DOMAIN s = 1 .. Len(s)
  BY <1>1
<1>4. DOMAIN Append(s, x) = 1 .. Len(s) + 1
  BY <1>2, <1>3
<1>5. RangeOf(Append(s, x)) = S
  BY <1>2, <1>3, <1>4 DEF RangeOf
<1> QED BY <1>2, <1>5, SeqOfOwnElements

(* Taking the first element off.                                           *)
LEMMA TailSeq ==
  ASSUME NEW s, IsSeq(s), s # <<>>
  PROVE  /\ IsSeq(Tail(s)) /\ RangeOf(Tail(s)) \subseteq RangeOf(s)
         /\ Head(s) \in RangeOf(s)
         /\ Len(Tail(s)) = Len(s) - 1
<1>1. /\ Head(s) \in RangeOf(s) /\ Tail(s) \in Seq(RangeOf(s))
      /\ Len(Tail(s)) = Len(s) - 1
  BY HeadTailProperties DEF IsSeq
<1> QED BY <1>1, SeqOfOwnElements

(* Replacing the first two elements by one.                                *)
Replaces(s, x, h) == h = <<x>> \o SubSeq(s, 3, Len(s))

LEMMA ReplaceFirstTwo ==
  ASSUME NEW s, IsSeq(s), Len(s) > 1, NEW x,
         NEW h, Replaces(s, x, h)
  PROVE  /\ IsSeq(h) /\ h # <<>>
         /\ RangeOf(h) \subseteq {x} \cup RangeOf(s)
         /\ s[1] \in RangeOf(s) /\ s[2] \in RangeOf(s)
<1> DEFINE S == RangeOf(s) \cup {x}
<1>1. s \in Seq(S) /\ Len(s) \in Nat /\ DOMAIN s = 1 .. Len(s)
  BY SeqMonotonic DEF IsSeq
<1>2. SubSeq(s, 3, Len(s)) \in Seq(S)
  BY <1>1, SubSeqProperties
<1>3. <<x>> \in Seq(S) /\ Len(<<x>>) = 1
  OBVIOUS
<1>4. h \in Seq(S) /\ Len(h) = 1 + Len(SubSeq(s, 3, Len(s)))
  BY <1>2, <1>3, ConcatProperties DEF Replaces
<1>5. h # <<>>
  BY <1>2, <1>4
<1>6. 1 \in DOMAIN s /\ 2 \in DOMAIN s
  BY <1>1
<1>7. s[1] \in RangeOf(s) /\ s[2] \in RangeOf(s)
  BY <1>6 DEF RangeOf
<1>8. IsSeq(h) /\ RangeOf(h) \subseteq S
  BY <1>4, SeqOfOwnElements
<1> QED BY <1>5, <1>7, <1>8

-----------------------------------------------------------------------------
(* The program: facts of WellFormed in the form the steps use.             *)

(* Target finds the edge it looks for.                                     *)
LEMMA TargetLeads ==
  ASSUME NEW g, NEW l, NEW type, NEW labels, Leads(g, l, type, labels)
  PROVE  Target(g, l, type) \in labels
BY DEF Leads, Target

(* The exit of the program is a merge point, with the program's frame.     *)
LEMMA ExitIsMergePoint ==
  ASSUME NEW p, WellFormed(p)
  PROVE  <<MainScope(p), 1, MainCfg(p).exit, MainCfg(p).entry>> \in MergePoints(p)
BY DEF WellFormed, MergePoints, ReturnLabels, MainScope, MainCfg

(* No merge point of the program itself is above its exit.                 *)
LEMMA ExitIsLastMergePoint ==
  ASSUME NEW p, WellFormed(p), NEW m \in MergePoints(p), m[2] <= 1
  PROVE  /\ m[1] = MainScope(p) /\ m[2] = 1 /\ m[4] = MainCfg(p).entry
         /\ m[3] \in Nat /\ m[3] <= MainCfg(p).exit
<1>1. PICK s \in DOMAIN p.scopes :
        \E l \in {k \in DOMAIN CfgOf(p, s).vertices : IsJoin(CfgOf(p, s), k)} \cup {CfgOf(p, s).exit},
           r \in ReturnLabels(p, s) : m = <<s, Len(s), l, r>>
  BY DEF MergePoints
<1>2. PICK l \in {k \in DOMAIN CfgOf(p, s).vertices : IsJoin(CfgOf(p, s), k)} \cup {CfgOf(p, s).exit},
           r \in ReturnLabels(p, s) : m = <<s, Len(s), l, r>>
  BY <1>1
<1>3. s \in Seq(STRING) /\ s # <<>> /\ (Len(s) = 1 => s = MainScope(p))
  BY DEF WellFormed
<1>4. Len(s) = 1 /\ s = MainScope(p)
  BY <1>2, <1>3
<1>5. r = MainCfg(p).entry
  BY <1>4 DEF ReturnLabels
<1>6. l \in DOMAIN CfgOf(p, s).vertices /\ l <= CfgOf(p, s).exit /\ l \in Nat
  BY DEF WellFormed, WellFormedVertex
<1> QED BY <1>2, <1>4, <1>5, <1>6 DEF MainCfg

-----------------------------------------------------------------------------
(* Call stacks.                                                            *)

(* The frames of a call stack.                                              *)
LEMMA FramesOfStack ==
  ASSUME NEW p, WellFormed(p), NEW c, StackOK(p, c.stack)
  PROVE  /\ Depth(c) \in Nat \ {0} /\ DOMAIN c.stack = 1 .. Depth(c)
         /\ Scope(c) \in DOMAIN p.scopes /\ Len(Scope(c)) = Depth(c)
         /\ Depth(c) = 1 => Scope(c) = MainScope(p) /\ ReturnLabel(c) = MainCfg(p).entry
         /\ CfgOf(p, Scope(c)).type = "PROGRAM" <=> Depth(c) = 1
<1> DEFINE F == [scope : DOMAIN p.scopes, ret : Nat]
<1>a. c.stack \in Seq(F) /\ c.stack # <<>>
      /\ \A i \in DOMAIN c.stack : Len(c.stack[i].scope) = i
  BY DEF StackOK
<1>b. Depth(c) \in Nat \ {0} /\ DOMAIN c.stack = 1 .. Depth(c)
  <2> HIDE DEF F
  <2> QED BY <1>a DEF Depth
<1>c. c.stack[Depth(c)] \in F
  <2> HIDE DEF F
  <2> QED BY <1>a, <1>b
<1>1. /\ Depth(c) \in Nat \ {0} /\ DOMAIN c.stack = 1 .. Depth(c)
      /\ c.stack[Depth(c)] \in F
      /\ Len(c.stack[Depth(c)].scope) = Depth(c)
  BY <1>a, <1>b, <1>c
<1>2. Scope(c) \in DOMAIN p.scopes /\ Len(Scope(c)) = Depth(c)
  BY <1>1 DEF Scope, Depth
<1>3. Depth(c) = 1 => Scope(c) = MainScope(p) /\ ReturnLabel(c) = MainCfg(p).entry
  BY DEF StackOK, Scope, Depth, ReturnLabel, MainFrame
<1>4. CfgOf(p, Scope(c)).type = "PROGRAM" <=> Scope(c) = MainScope(p)
  BY <1>2 DEF WellFormed
<1>5. Scope(c) = MainScope(p) => Depth(c) = 1
  BY <1>2 DEF MainScope
<1> QED BY <1>1, <1>2, <1>3, <1>4, <1>5

(* Context d has a frame of instance i on top of those of c.               *)
Frame(c, i, r) == [scope |-> Append(Scope(c), i), ret |-> r]

Pushed(c, i, r, d) == d.stack = Append(c.stack, Frame(c, i, r))

(* A call pushes a frame of the called instance.                           *)
LEMMA PushFrame ==
  ASSUME NEW p, WellFormed(p), NEW c, StackOK(p, c.stack), NEW i,
         Append(Scope(c), i) \in DOMAIN p.scopes,
         NEW r \in DOMAIN CfgOf(p, Scope(c)).vertices,
         NEW d, Pushed(c, i, r, d)
  PROVE  StackOK(p, d.stack) /\ Scope(d) = Append(Scope(c), i) /\ Depth(d) = Depth(c) + 1
<1> DEFINE F == [scope : DOMAIN p.scopes, ret : Nat]
           frame == [scope |-> Append(Scope(c), i), ret |-> r]
<1>2. d.stack = Append(c.stack, frame)
  BY DEF Frame, Pushed
<1>3. /\ Depth(c) \in Nat \ {0} /\ DOMAIN c.stack = 1 .. Depth(c)
      /\ Scope(c) \in DOMAIN p.scopes /\ Len(Scope(c)) = Depth(c)
  BY FramesOfStack
<1>4. c.stack \in Seq(F) /\ c.stack # <<>> /\ c.stack[1] = MainFrame(p)
      /\ \A j \in DOMAIN c.stack :
           /\ Len(c.stack[j].scope) = j
           /\ j > 1 => c.stack[j].ret \in DOMAIN CfgOf(p, c.stack[j - 1].scope).vertices
  BY DEF StackOK
<1>5. r \in Nat
  BY <1>3 DEF WellFormed, WellFormedVertex
<1>6. frame \in F
  BY <1>5
<1>7. /\ d.stack \in Seq(F) /\ d.stack # <<>> /\ Len(d.stack) = Depth(c) + 1
      /\ DOMAIN d.stack = 1 .. Depth(c) + 1
      /\ \A j \in 1 .. Depth(c) : d.stack[j] = c.stack[j]
      /\ d.stack[Depth(c) + 1] = frame
  <2> HIDE DEF F, frame
  <2>1. Len(c.stack) = Depth(c)
    BY DEF Depth
  <2>2. /\ Append(c.stack, frame) \in Seq(F) /\ Append(c.stack, frame) # <<>>
        /\ Len(Append(c.stack, frame)) = Len(c.stack) + 1
        /\ \A j \in 1 .. Len(c.stack) : Append(c.stack, frame)[j] = c.stack[j]
        /\ Append(c.stack, frame)[Len(c.stack) + 1] = frame
    BY <1>4, <1>6, AppendProperties
  <2>3. DOMAIN Append(c.stack, frame) = 1 .. Len(c.stack) + 1
    BY <2>2
  <2> QED BY <1>2, <2>1, <2>2, <2>3
<1>8. Len(Append(Scope(c), i)) = Depth(c) + 1
  <2>1. Scope(c) \in Seq(STRING) /\ Append(Scope(c), i) \in Seq(STRING)
    BY <1>3 DEF WellFormed
  <2>2. Scope(c) \in Seq(STRING \cup {i})
    BY <2>1, SeqMonotonic
  <2> QED BY <1>3, <2>2, AppendProperties
<1>9. StackOK(p, d.stack)
  <2> HIDE DEF F, frame
  <2>1. d.stack[1] = MainFrame(p)
    BY <1>3, <1>4, <1>7
  <2>2. ASSUME NEW j \in DOMAIN d.stack
        PROVE  /\ Len(d.stack[j].scope) = j
               /\ j > 1 => d.stack[j].ret \in DOMAIN CfgOf(p, d.stack[j - 1].scope).vertices
    <3>1. CASE j \in 1 .. Depth(c)
      <4>a. Depth(c) \in Nat /\ j \in Nat /\ (j > 1 => j - 1 \in 1 .. Depth(c))
        BY <1>3, <3>1
      <4>b. \A k \in 1 .. Depth(c) : d.stack[k] = c.stack[k]
        BY <1>7
      <4>1. d.stack[j] = c.stack[j] /\ (j > 1 => d.stack[j - 1] = c.stack[j - 1])
        BY <3>1, <4>a, <4>b
      <4> QED BY <1>3, <1>4, <3>1, <4>1
    <3>2. CASE j = Depth(c) + 1
      <4>a. j - 1 = Depth(c) /\ Depth(c) \in 1 .. Depth(c)
        BY <1>3, <3>2
      <4>b. d.stack[j] = frame /\ \A k \in 1 .. Depth(c) : d.stack[k] = c.stack[k]
        BY <1>7, <3>2
      <4>1. d.stack[j] = frame /\ d.stack[j - 1] = c.stack[Depth(c)]
        BY <4>a, <4>b
      <4>2. c.stack[Depth(c)].scope = Scope(c)
        BY DEF Scope, Depth
      <4> QED BY <1>8, <3>2, <4>1, <4>2 DEF frame
    <3> QED BY <1>3, <1>7, <3>1, <3>2
  <2> QED BY <1>7, <2>1, <2>2 DEF StackOK, F
<1>10. Scope(d) = Append(Scope(c), i) /\ Depth(d) = Depth(c) + 1
  <2>1. Depth(d) = Depth(c) + 1 /\ Scope(d) = d.stack[Depth(c) + 1].scope
    BY <1>7 DEF Scope, Depth
  <2>2. d.stack[Depth(c) + 1] = frame
    BY <1>7
  <2>3. frame.scope = Append(Scope(c), i)
    OBVIOUS
  <2> HIDE DEF frame
  <2> QED BY <2>1, <2>2, <2>3, Zenon
<1> QED BY <1>9, <1>10

(* A return pops the frame and goes to its return label.                   *)
LEMMA PopFrame ==
  ASSUME NEW p, WellFormed(p), NEW c, StackOK(p, c.stack), Depth(c) > 1,
         NEW d, d.label = ReturnLabel(c), d.stack = SubSeq(c.stack, 1, Depth(c) - 1)
  PROVE  StackOK(p, d.stack) /\ AtVertex(p, d)
<1> DEFINE F == [scope : DOMAIN p.scopes, ret : Nat]
           n == Depth(c) - 1
<1>2. d.stack = SubSeq(c.stack, 1, n) /\ d.label = ReturnLabel(c)
  OBVIOUS
<1>3. Depth(c) \in Nat \ {0} /\ DOMAIN c.stack = 1 .. Depth(c) /\ n \in 1 .. Depth(c)
  BY FramesOfStack
<1>4. c.stack \in Seq(F) /\ c.stack[1] = MainFrame(p)
      /\ \A j \in DOMAIN c.stack :
           /\ Len(c.stack[j].scope) = j
           /\ j > 1 => c.stack[j].ret \in DOMAIN CfgOf(p, c.stack[j - 1].scope).vertices
  BY DEF StackOK
<1>5. /\ d.stack \in Seq(F) /\ Len(d.stack) = n /\ DOMAIN d.stack = 1 .. n
      /\ \A j \in 1 .. n : d.stack[j] = c.stack[j]
  <2> HIDE DEF F
  <2>1. Len(c.stack) = Depth(c)
    BY DEF Depth
  <2> QED BY <1>2, <1>3, <1>4, <2>1, SubSeqProperties
<1>6. d.stack # <<>>
  BY <1>3, <1>5
<1>7. StackOK(p, d.stack)
  <2>1. d.stack[1] = MainFrame(p)
    BY <1>3, <1>4, <1>5
  <2>2. ASSUME NEW j \in DOMAIN d.stack
        PROVE  /\ Len(d.stack[j].scope) = j
               /\ j > 1 => d.stack[j].ret \in DOMAIN CfgOf(p, d.stack[j - 1].scope).vertices
    <3>1. j \in DOMAIN c.stack
      BY <1>3, <1>5
    <3>a. n \in Nat /\ j \in 1 .. n /\ (j > 1 => j - 1 \in 1 .. n)
      BY <1>3, <1>5
    <3>2. d.stack[j] = c.stack[j] /\ (j > 1 => d.stack[j - 1] = c.stack[j - 1])
      <4> HIDE DEF n
      <4> QED BY <1>5, <3>a
    <3> QED BY <1>4, <3>1, <3>2
  <2> QED BY <1>5, <1>6, <2>1, <2>2 DEF StackOK
<1>8. Scope(d) = c.stack[n].scope
  BY <1>3, <1>5 DEF Scope
<1>9. ReturnLabel(c) \in DOMAIN CfgOf(p, c.stack[n].scope).vertices
  <2>1. ReturnLabel(c) = c.stack[Depth(c)].ret
    BY DEF ReturnLabel, Depth
  <2>2. Depth(c) \in DOMAIN c.stack /\ Depth(c) > 1 /\ Depth(c) - 1 = n
    BY <1>3
  <2>3. c.stack[Depth(c)].ret \in DOMAIN CfgOf(p, c.stack[Depth(c) - 1].scope).vertices
    BY <1>4, <2>2
  <2> QED BY <2>1, <2>2, <2>3
<1> QED BY <1>2, <1>7, <1>8, <1>9 DEF AtVertex

-----------------------------------------------------------------------------
(* Summaries.                                                              *)

(* HighestVersion is the highest one that is written.                      *)
LEMMA HighestVersionIsHighest ==
  ASSUME NEW p, WellFormedSummaries(p), NEW f \in DOMAIN p.summaries,
         NEW i \in DOMAIN p.summaries[f], NEW s, s = p.summaries[f][i],
         NEW x \in WrittenVariables(s)
  PROVE  /\ HighestVersion(s, x) \in Nat
         /\ <<x, HighestVersion(s, x)>> \in WrittenNames(s)
         /\ \A n \in WrittenNames(s) :
              n[1] = x => n[2] \in Nat /\ n[2] <= HighestVersion(s, x)
<1>1. \E k \in {n[2] : n \in WrittenNames(s)} :
        /\ k \in Nat /\ <<x, k>> \in WrittenNames(s)
        /\ \A n \in WrittenNames(s) : n[1] = x => n[2] \in Nat /\ n[2] <= k
  BY DEF WellFormedSummaries
<1>2. \E k \in {n[2] : n \in WrittenNames(s)} :
        /\ <<x, k>> \in WrittenNames(s)
        /\ \A n \in WrittenNames(s) : n[1] = x => n[2] <= k
  BY <1>1
<1>3. /\ <<x, HighestVersion(s, x)>> \in WrittenNames(s)
      /\ \A n \in WrittenNames(s) : n[1] = x => n[2] <= HighestVersion(s, x)
  BY <1>2 DEF HighestVersion
<1>4. \A n \in WrittenNames(s) : n[1] = x => n[2] \in Nat
  BY <1>1
<1>5. HighestVersion(s, x) \in Nat
  <2> DEFINE h == HighestVersion(s, x)
  <2>1. <<x, h>> \in WrittenNames(s)
    BY <1>3
  <2> HIDE DEF h
  <2>2. h \in Nat
    BY <1>4, <2>1
  <2> QED BY <2>2 DEF h
<1> QED BY <1>3, <1>4, <1>5

(* The summaries that are applied are those of the called function block.  *)
LEMMA SummariesOfCallee ==
  ASSUME NEW p, NEW c, NEW k \in DOMAIN SummariesAt(p, c)
  PROVE  /\ p.scopes[Scope(c)] \in DOMAIN p.summaries
         /\ SummariesAt(p, c) = p.summaries[p.scopes[Scope(c)]]
BY DEF SummariesAt
==========================================================================
