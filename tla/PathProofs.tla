---------------------------- MODULE PathProofs ----------------------------
(***************************************************************************)
(* Proofs about the paths of a function block, for all programs: what the  *)
(* summary of a path says is what the path means, although its names are   *)
(* numbered anew; and a path that the summarization explores is a run of   *)
(* the function block, and so is the summary made of it.                   *)
(***************************************************************************)
EXTENDS SummarizationInvariant, FiniteSetTheorems, SequenceTheorems, TLAPS

-----------------------------------------------------------------------------
(* Numbers and counting.                                                   *)

(* A nonempty set of natural numbers has a least element.                  *)
LEMMA LeastNumber ==
  ASSUME NEW T \in SUBSET Nat, T # {}
  PROVE  \E x \in T : \A y \in T : ~(y < x)
<1> DEFINE R == OpToRel(<, Nat)
<1>1. IsWellFoundedOn(R, Nat)
  BY NatLessThanWellFounded
<1>2. \A x, y \in Nat : y < x => <<y, x>> \in R
  BY DEF OpToRel
<1> HIDE DEF R
<1>3. \E x \in T : \A y \in T : ~(<<y, x>> \in R)
  BY <1>1, WFMin
<1> QED BY <1>2, <1>3

(* A set of positions of a sequence is finite, and so is a part of it.     *)
LEMMA Counting ==
  ASSUME NEW n \in Nat, NEW S \in SUBSET (1 .. n), NEW T \in SUBSET S
  PROVE  /\ IsFiniteSet(S) /\ Cardinality(S) \in Nat
         /\ Cardinality(T) \in Nat
         /\ Cardinality(T) <= Cardinality(S)
         /\ S # {} => Cardinality(S) > 0
         /\ Cardinality(T) = Cardinality(S) => T = S
<1>1. IsFiniteSet(1 .. n)
  BY FS_Interval
<1>2. IsFiniteSet(S)
  BY <1>1, FS_Subset
<1>3. IsFiniteSet(T) /\ Cardinality(T) <= Cardinality(S) /\ (Cardinality(S) = Cardinality(T) => S = T)
  BY <1>2, FS_Subset
<1>4. Cardinality(S) \in Nat /\ Cardinality(T) \in Nat
  BY <1>2, <1>3, FS_CardinalityType
<1>5. Cardinality(S) = 0 <=> S = {}
  BY <1>2, FS_EmptySet
<1>6. S # {} => Cardinality(S) > 0
  <2> DEFINE c == Cardinality(S)
  <2>1. c \in Nat /\ (S # {} => c # 0)
    BY <1>4, <1>5
  <2> HIDE DEF c
  <2>2. S # {} => c > 0
    BY <2>1
  <2> QED BY <2>2 DEF c
<1> QED BY <1>2, <1>3, <1>4, <1>6, Zenon

-----------------------------------------------------------------------------
(* Sequences.                                                              *)

(* A finite sequence is a function on the positions up to its length.      *)
LEMMA SeqDomain ==
  ASSUME NEW s, IsSeq(s)
  PROVE  Len(s) \in Nat /\ DOMAIN s = 1 .. Len(s)
BY DEF IsSeq, RangeOf

(* Appending an element.                                                   *)
LEMMA AppendSeq ==
  ASSUME NEW s, IsSeq(s), NEW x
  PROVE  /\ IsSeq(Append(s, x))
         /\ Len(Append(s, x)) = Len(s) + 1
         /\ DOMAIN Append(s, x) = 1 .. Len(s) + 1
         /\ \A i \in 1 .. Len(s) : Append(s, x)[i] = s[i]
         /\ Append(s, x)[Len(s) + 1] = x
<1> DEFINE S == {s[i] : i \in DOMAIN s} \cup {x}
           t == Append(s, x)
<1>1. s \in Seq(S)
  BY SeqMonotonic DEF IsSeq, RangeOf
<1>2. /\ t \in Seq(S) /\ Len(t) = Len(s) + 1
      /\ \A i \in 1 .. Len(s) : t[i] = s[i]
      /\ t[Len(s) + 1] = x
  BY <1>1, AppendProperties
<1>3. DOMAIN t = 1 .. Len(s) + 1 /\ Len(s) \in Nat
  BY <1>1, <1>2
<1>4. \A y \in S : \E i \in DOMAIN t : t[i] = y
  <2>1. \A i \in DOMAIN s : i \in DOMAIN t /\ t[i] = s[i]
    BY <1>1, <1>2, <1>3
  <2>2. Len(s) + 1 \in DOMAIN t /\ t[Len(s) + 1] = x
    BY <1>2, <1>3
  <2> HIDE DEF t
  <2> QED BY <2>1, <2>2
<1>5. S \subseteq {t[i] : i \in DOMAIN t}
  <2> HIDE DEF S, t
  <2> QED BY <1>4
<1>6. IsSeq(t)
  <2> HIDE DEF S, t
  <2> QED BY <1>2, <1>5, SeqMonotonic DEF IsSeq, RangeOf
<1> QED BY <1>2, <1>3, <1>6

-----------------------------------------------------------------------------
(* The names of a path and their numbers in its summary.                   *)

IsName(p, d, n) == n \in (OwnVariables(p, d) \X {0}) \cup WrittenNames(d)

(* Where a path has made the versions of a variable up to that of n.       *)
UpTo(d, n) == {i \in DOMAIN d.hard : d.hard[i].name[1] = n[1] /\ d.hard[i].name[2] <= n[2]}

(* The versions that a path makes of a variable grow.                      *)
LEMMA VersionsGrow ==
  ASSUME NEW p, NEW ver, NEW d, VersionsOK(p, ver, d)
  PROVE  /\ Len(d.hard) \in Nat /\ DOMAIN d.hard = 1 .. Len(d.hard)
         /\ \A i \in DOMAIN d.hard :
              /\ d.hard[i].name \in OwnVariables(p, d) \X (Nat \ {0})
              /\ d.hard[i].name = <<d.hard[i].name[1], d.hard[i].name[2]>>
              /\ d.hard[i].name[2] \in Nat \ {0}
         /\ \A i, j \in DOMAIN d.hard :
              d.hard[i].name[1] = d.hard[j].name[1] =>
                (i <= j <=> d.hard[i].name[2] <= d.hard[j].name[2])
<1>1. Len(d.hard) \in Nat /\ DOMAIN d.hard = 1 .. Len(d.hard)
  BY SeqDomain DEF VersionsOK
<1>2. ASSUME NEW i \in DOMAIN d.hard
      PROVE  /\ d.hard[i].name \in OwnVariables(p, d) \X (Nat \ {0})
             /\ d.hard[i].name = <<d.hard[i].name[1], d.hard[i].name[2]>>
             /\ d.hard[i].name[2] \in Nat \ {0}
  <2>1. d.hard[i].name \in OwnVariables(p, d) \X (Nat \ {0})
    BY DEF VersionsOK
  <2> QED BY <2>1
<1>3. ASSUME NEW i \in DOMAIN d.hard, NEW j \in DOMAIN d.hard,
             d.hard[i].name[1] = d.hard[j].name[1]
      PROVE  i <= j <=> d.hard[i].name[2] <= d.hard[j].name[2]
  <2>1. /\ i < j => d.hard[i].name[2] < d.hard[j].name[2]
        /\ j < i => d.hard[j].name[2] < d.hard[i].name[2]
    BY <1>3 DEF VersionsOK
  <2>2. d.hard[i].name[2] \in Nat /\ d.hard[j].name[2] \in Nat
    BY <1>2
  <2>3. i \in Nat /\ j \in Nat
    BY <1>1
  <2>4. i = j => d.hard[i].name[2] = d.hard[j].name[2]
    OBVIOUS
  <2> QED BY <2>1, <2>2, <2>3, <2>4
<1> QED BY <1>1, <1>2, <1>3

(* What a name is.                                                         *)
LEMMA NameOfPath ==
  ASSUME NEW p, NEW ver, NEW d, VersionsOK(p, ver, d), NEW n, IsName(p, d, n)
  PROVE  /\ n = <<n[1], n[2]>> /\ n[1] \in OwnVariables(p, d) /\ n[2] \in Nat
         /\ n[2] = 0 => n = <<n[1], 0>>
         /\ n[2] # 0 => \E i \in DOMAIN d.hard : d.hard[i].name = n
<1>1. CASE n \in OwnVariables(p, d) \X {0}
  BY <1>1
<1>2. CASE n \in WrittenNames(d)
  <2>1. PICK i \in DOMAIN d.hard : d.hard[i].name = n
    BY <1>2 DEF WrittenNames
  <2> QED BY <2>1, VersionsGrow
<1> QED BY <1>1, <1>2 DEF IsName

(* The written versions of a variable are numbered from 1 in the order in  *)
(* which they are written.                                                 *)
LEMMA NumberOfWritten ==
  ASSUME NEW p, NEW ver, NEW d, VersionsOK(p, ver, d), NEW i \in DOMAIN d.hard
  PROVE  /\ ReversionInSummary(d, d.hard[i].name) =
              <<d.hard[i].name[1], Cardinality(AssignedBefore(d, i, d.hard[i].name[1])) + 1>>
         /\ Cardinality(AssignedBefore(d, i, d.hard[i].name[1])) \in Nat
<1> DEFINE n == d.hard[i].name
           B == AssignedBefore(d, i, n[1])
<1>1. Len(d.hard) \in Nat /\ DOMAIN d.hard = 1 .. Len(d.hard) /\ i \in Nat
  BY VersionsGrow
<1>2. UpTo(d, n) = B \cup {i}
  <2>1. \A j \in DOMAIN d.hard : d.hard[j].name[1] = n[1] =>
          (d.hard[j].name[2] <= n[2] <=> j <= i)
    BY VersionsGrow
  <2>2. \A j : j \in 1 .. i - 1 \/ j = i <=> j \in DOMAIN d.hard /\ j <= i
    BY <1>1
  <2> QED BY <2>1, <2>2 DEF UpTo, AssignedBefore
<1>3. B \in SUBSET (1 .. Len(d.hard)) /\ i \notin B
  BY <1>1 DEF AssignedBefore
<1>4. IsFiniteSet(B) /\ Cardinality(B) \in Nat
  <2> HIDE DEF B
  <2> QED BY <1>1, <1>3, Counting
<1>5. Cardinality(B \cup {i}) = Cardinality(B) + 1
  <2> HIDE DEF B
  <2> QED BY <1>3, <1>4, FS_AddElement
<1>6. ReversionInSummary(d, n) = <<n[1], Cardinality(UpTo(d, n))>>
  BY DEF ReversionInSummary, UpTo
<1> QED BY <1>2, <1>4, <1>5, <1>6

(* A name that is read has the number of the last write before it.         *)
LEMMA NumberOfRead ==
  ASSUME NEW p, NEW ver, NEW d, VersionsOK(p, ver, d),
         NEW i \in 1 .. Len(d.hard) + 1, NEW n, IsCurrent(p, d, i, n)
  PROVE  /\ ReversionInSummary(d, n) = <<n[1], Cardinality(AssignedBefore(d, i, n[1]))>>
         /\ IsName(p, d, n)
<1>1. /\ Len(d.hard) \in Nat /\ DOMAIN d.hard = 1 .. Len(d.hard) /\ i \in Nat
      /\ n = <<n[1], n[2]>> /\ n[2] \in Nat /\ n[1] \in OwnVariables(p, d)
  BY VersionsGrow DEF IsCurrent
<1>2. \A j \in 1 .. i - 1 : j \in DOMAIN d.hard
  BY <1>1
<1>3. ASSUME NEW j \in DOMAIN d.hard, d.hard[j].name[1] = n[1], d.hard[j].name[2] <= n[2]
      PROVE  j \in 1 .. i - 1
  <2>1. n[2] # 0
    BY <1>1, <1>3, VersionsGrow
  <2>2. PICK k \in 1 .. i - 1 : d.hard[k].name = n
    BY <2>1 DEF IsCurrent
  <2>3. j <= k
    BY <1>2, <1>3, <2>2, VersionsGrow
  <2> QED BY <1>1, <2>2, <2>3
<1>4. UpTo(d, n) = AssignedBefore(d, i, n[1])
  BY <1>2, <1>3 DEF UpTo, AssignedBefore, IsCurrent
<1>5. ReversionInSummary(d, n) = <<n[1], Cardinality(UpTo(d, n))>>
  BY DEF ReversionInSummary, UpTo
<1>6. IsName(p, d, n)
  <2>1. CASE n[2] = 0
    BY <1>1, <2>1 DEF IsName
  <2>2. CASE n[2] # 0
    BY <1>2, <2>2 DEF IsName, IsCurrent, WrittenNames
  <2> QED BY <2>1, <2>2
<1> QED BY <1>4, <1>5, <1>6

(* The new numbers keep the order of the versions, and tell them apart.    *)
LEMMA NumbersKeepOrder ==
  ASSUME NEW p, NEW ver, NEW d, VersionsOK(p, ver, d),
         NEW n, IsName(p, d, n), NEW m, IsName(p, d, m), n[1] = m[1], n[2] <= m[2]
  PROVE  /\ ReversionInSummary(d, n)[2] <= ReversionInSummary(d, m)[2]
         /\ ReversionInSummary(d, n)[2] = ReversionInSummary(d, m)[2] => n = m
<1>1. Len(d.hard) \in Nat /\ DOMAIN d.hard = 1 .. Len(d.hard)
  BY VersionsGrow
<1>2. n = <<n[1], n[2]>> /\ m = <<m[1], m[2]>> /\ n[2] \in Nat /\ m[2] \in Nat
  BY NameOfPath
<1>3. \A i \in DOMAIN d.hard : d.hard[i].name[2] \in Nat
  BY VersionsGrow
<1>4. UpTo(d, n) \subseteq UpTo(d, m) /\ UpTo(d, m) \in SUBSET (1 .. Len(d.hard))
  BY <1>1, <1>2, <1>3 DEF UpTo
<1>5. /\ ReversionInSummary(d, n)[2] = Cardinality(UpTo(d, n))
      /\ ReversionInSummary(d, m)[2] = Cardinality(UpTo(d, m))
  BY DEF ReversionInSummary, UpTo
<1>6. /\ Cardinality(UpTo(d, n)) <= Cardinality(UpTo(d, m))
      /\ Cardinality(UpTo(d, n)) = Cardinality(UpTo(d, m)) => UpTo(d, n) = UpTo(d, m)
  BY <1>1, <1>4, Counting
<1>7. ASSUME UpTo(d, n) = UpTo(d, m)
      PROVE  n = m
  <2>1. CASE m[2] = 0
    BY <1>2, <2>1
  <2>2. CASE m[2] # 0
    <3>1. PICK i \in DOMAIN d.hard : d.hard[i].name = m
      BY <2>2, NameOfPath
    <3>2. i \in UpTo(d, n)
      BY <1>2, <1>7, <3>1 DEF UpTo
    <3>3. m[2] <= n[2]
      BY <3>1, <3>2 DEF UpTo
    <3> QED BY <1>2, <3>3
  <2> QED BY <2>1, <2>2
<1> QED BY <1>5, <1>6, <1>7

(* What the renumbering makes of a name.                                   *)
LEMMA NumberOfName ==
  ASSUME NEW p, NEW ver, NEW d, VersionsOK(p, ver, d), NEW n, IsName(p, d, n)
  PROVE  /\ ReversionInSummary(d, n) = <<n[1], ReversionInSummary(d, n)[2]>>
         /\ ReversionInSummary(d, n)[1] = n[1]
         /\ ReversionInSummary(d, n)[2] \in Nat
         /\ ReversionInSummary(d, n)[2] = 0 <=> n[2] = 0
         /\ \A m : (IsName(p, d, m) /\ ReversionInSummary(d, m) = ReversionInSummary(d, n)) => m = n
<1>1. ReversionInSummary(d, n) = <<n[1], Cardinality(UpTo(d, n))>>
  BY DEF ReversionInSummary, UpTo
<1>2. Len(d.hard) \in Nat /\ UpTo(d, n) \in SUBSET (1 .. Len(d.hard))
  BY VersionsGrow DEF UpTo
<1>3. Cardinality(UpTo(d, n)) \in Nat
  BY <1>2, Counting
<1>4. ASSUME n[2] = 0
      PROVE  Cardinality(UpTo(d, n)) = 0
  <2>1. \A i \in DOMAIN d.hard : d.hard[i].name[2] \in Nat \ {0}
    BY VersionsGrow
  <2>2. UpTo(d, n) = {}
    BY <1>4, <2>1 DEF UpTo
  <2> QED BY <2>2, FS_EmptySet
<1>5. ASSUME n[2] # 0
      PROVE  Cardinality(UpTo(d, n)) # 0
  <2>1. PICK i \in DOMAIN d.hard : d.hard[i].name = n
    BY <1>5, NameOfPath
  <2>2. n[2] \in Nat
    BY NameOfPath
  <2>3. i \in UpTo(d, n)
    BY <2>1, <2>2 DEF UpTo
  <2>4. Cardinality(UpTo(d, n)) > 0
    BY <1>2, <2>3, Counting
  <2> QED BY <1>3, <2>4
<1>6. ASSUME NEW m, IsName(p, d, m), ReversionInSummary(d, m) = ReversionInSummary(d, n)
      PROVE  m = n
  <2>1. ReversionInSummary(d, m) = <<m[1], Cardinality(UpTo(d, m))>>
    BY DEF ReversionInSummary, UpTo
  <2>2. m[1] = n[1]
    BY <1>1, <1>6, <2>1
  <2>3. m[2] \in Nat /\ n[2] \in Nat
    BY <1>6, NameOfPath
  <2>4. m[2] <= n[2] \/ n[2] <= m[2]
    BY <2>3
  <2> QED BY <1>6, <2>2, <2>4, NumbersKeepOrder
<1> QED BY <1>1, <1>3, <1>4, <1>5, <1>6

-----------------------------------------------------------------------------
(* The parts of the summary of a path.                                     *)

(* A term with the new numbers.                                            *)
Renumbered(d, t) ==
  [t EXCEPT !.args = [i \in DOMAIN t.args |-> ReversionInSummary(d, t.args[i])]]

(* It has the same operator, and its arguments are numbered one by one.    *)
LEMMA RenumberedTerm ==
  ASSUME NEW d, NEW t, IsTerm(t)
  PROVE  /\ [t EXCEPT !.args = [i \in DOMAIN @ |-> ReversionInSummary(d, @[i])]] = Renumbered(d, t)
         /\ IsTerm(Renumbered(d, t))
         /\ Renumbered(d, t).op = t.op
         /\ DOMAIN Renumbered(d, t).args = DOMAIN t.args
         /\ \A i \in DOMAIN t.args :
              Renumbered(d, t).args[i] = ReversionInSummary(d, t.args[i])
         /\ ArgumentsOf(Renumbered(d, t)) = {ReversionInSummary(d, n) : n \in ArgumentsOf(t)}
<1>1. [t EXCEPT !.args = [i \in DOMAIN @ |-> ReversionInSummary(d, @[i])]] = Renumbered(d, t)
  BY DEF Renumbered
<1> DEFINE args == [i \in DOMAIN t.args |-> ReversionInSummary(d, t.args[i])]
<1>2. Renumbered(d, t) = [t EXCEPT !.args = args]
  BY DEF Renumbered
<1>3. ArgumentsOf(t) = {t.args[i] : i \in DOMAIN t.args}
  BY DEF ArgumentsOf
<1>4. DOMAIN args = DOMAIN t.args /\ \A i \in DOMAIN t.args : args[i] = ReversionInSummary(d, t.args[i])
  OBVIOUS
<1> HIDE DEF args
<1>5. /\ IsTerm(Renumbered(d, t)) /\ Renumbered(d, t).op = t.op
      /\ Renumbered(d, t).args = args
  <2>1. CASE t = [op |-> t.op, args |-> t.args]
    <3>1. Renumbered(d, t) = [op |-> t.op, args |-> args]
      BY <1>2, <2>1
    <3> QED BY <3>1 DEF IsTerm
  <2>2. CASE t = [op |-> t.op, guard |-> t.guard, args |-> t.args]
    <3>1. Renumbered(d, t) = [op |-> t.op, guard |-> t.guard, args |-> args]
      BY <1>2, <2>2
    <3> QED BY <3>1 DEF IsTerm
  <2> QED BY <2>1, <2>2 DEF IsTerm
<1> QED BY <1>1, <1>3, <1>4, <1>5 DEF ArgumentsOf

(* A function on the positions up to n is a sequence of length n.          *)
LEMMA FunctionIsSeq ==
  ASSUME NEW n \in Nat, NEW f, f = [i \in 1 .. n |-> f[i]]
  PROVE  IsSeq(f) /\ Len(f) = n /\ DOMAIN f = 1 .. n
<1> DEFINE S == {f[i] : i \in 1 .. n}
<1>1. DOMAIN f = 1 .. n
  OBVIOUS
<1>2. f \in [1 .. n -> S]
  OBVIOUS
<1>3. f \in Seq(S)
  <2> HIDE DEF S
  <2> QED BY <1>2, SeqDef
<1>4. Len(f) = n
  <2> HIDE DEF S
  <2> QED BY <1>1, <1>3, LenProperties
<1> QED BY <1>1, <1>3, <1>4 DEF IsSeq, RangeOf

(* The summary has the same assignments and assumptions in the same order, *)
(* with the new numbers.                                                   *)
LEMMA SummaryParts ==
  ASSUME NEW p, NEW ver, NEW d, VersionsOK(p, ver, d), TermsOK(p, d),
         NEW s, s = SummaryOf(d)
  PROVE  /\ s.literals = d.literals
         /\ IsSeq(s.hard) /\ Len(s.hard) = Len(d.hard) /\ DOMAIN s.hard = DOMAIN d.hard
         /\ \A i \in DOMAIN d.hard :
              /\ s.hard[i].name = ReversionInSummary(d, d.hard[i].name)
              /\ s.hard[i].term = Renumbered(d, d.hard[i].term)
         /\ DOMAIN s.assumptions = DOMAIN d.assumptions
         /\ \A i \in DOMAIN d.assumptions :
              /\ s.assumptions[i][1] = Renumbered(d, d.assumptions[i][1])
              /\ s.assumptions[i][2] = d.assumptions[i][2]
<1> DEFINE hard == [i \in DOMAIN d.hard |->
                      [name |-> ReversionInSummary(d, d.hard[i].name),
                       term |-> Renumbered(d, d.hard[i].term)]]
           assumptions == [i \in DOMAIN d.assumptions |->
                             <<Renumbered(d, d.assumptions[i][1]), d.assumptions[i][2]>>]
<1>1. \A i \in DOMAIN d.hard :
        [d.hard[i].term EXCEPT !.args = [k \in DOMAIN @ |-> ReversionInSummary(d, @[k])]]
          = Renumbered(d, d.hard[i].term)
  BY RenumberedTerm DEF TermsOK
<1>2. \A i \in DOMAIN d.assumptions :
        [d.assumptions[i][1] EXCEPT !.args = [k \in DOMAIN @ |-> ReversionInSummary(d, @[k])]]
          = Renumbered(d, d.assumptions[i][1])
  BY RenumberedTerm DEF TermsOK
<1>3. s.literals = d.literals
  BY DEF SummaryOf
<1>4. s.hard = hard
  <2>1. s.hard = [i \in DOMAIN d.hard |->
                    [name |-> ReversionInSummary(d, d.hard[i].name),
                     term |-> [d.hard[i].term EXCEPT !.args =
                                 [k \in DOMAIN @ |-> ReversionInSummary(d, @[k])]]]]
    BY DEF SummaryOf
  <2> QED BY <1>1, <2>1
<1>5. s.assumptions = assumptions
  <2>1. s.assumptions = [i \in DOMAIN d.assumptions |->
                    <<[d.assumptions[i][1] EXCEPT !.args =
                         [k \in DOMAIN @ |-> ReversionInSummary(d, @[k])]],
                      d.assumptions[i][2]>>]
    BY DEF SummaryOf
  <2> QED BY <1>2, <2>1
<1>6. Len(d.hard) \in Nat /\ DOMAIN d.hard = 1 .. Len(d.hard)
  BY VersionsGrow
<1>7. IsSeq(hard) /\ Len(hard) = Len(d.hard)
  <2>1. hard = [i \in 1 .. Len(d.hard) |-> hard[i]]
    BY <1>6
  <2> HIDE DEF hard
  <2> QED BY <1>6, <2>1, FunctionIsSeq
<1>8. \A i \in DOMAIN d.hard :
        /\ hard[i].name = ReversionInSummary(d, d.hard[i].name)
        /\ hard[i].term = Renumbered(d, d.hard[i].term)
  OBVIOUS
<1>9. DOMAIN hard = DOMAIN d.hard
  OBVIOUS
<1>10. /\ DOMAIN assumptions = DOMAIN d.assumptions
       /\ \A i \in DOMAIN d.assumptions :
            /\ assumptions[i][1] = Renumbered(d, d.assumptions[i][1])
            /\ assumptions[i][2] = d.assumptions[i][2]
  OBVIOUS
<1> HIDE DEF hard, assumptions
<1> QED BY <1>3, <1>4, <1>5, <1>7, <1>8, <1>9, <1>10

(* The names and variables that it writes are those of the path.           *)
LEMMA SummaryWrites ==
  ASSUME NEW p, NEW ver, NEW d, VersionsOK(p, ver, d), TermsOK(p, d),
         NEW s, s = SummaryOf(d)
  PROVE  /\ WrittenNames(s) = {ReversionInSummary(d, n) : n \in WrittenNames(d)}
         /\ WrittenVariables(s) = {n[1] : n \in WrittenNames(d)}
<1>1. WrittenNames(s) = {ReversionInSummary(d, n) : n \in WrittenNames(d)}
  <2>1. /\ DOMAIN s.hard = DOMAIN d.hard
        /\ \A i \in DOMAIN d.hard : s.hard[i].name = ReversionInSummary(d, d.hard[i].name)
    BY SummaryParts
  <2> QED BY <2>1 DEF WrittenNames
<1>2. \A n \in WrittenNames(d) : ReversionInSummary(d, n)[1] = n[1]
  BY DEF ReversionInSummary
<1> QED BY <1>1, <1>2 DEF WrittenVariables

(* The summary of a path stands on its own.                                *)
LEMMA SummaryIsSelfContained ==
  ASSUME NEW p, NEW ver, NEW d, VersionsOK(p, ver, d), TermsOK(p, d), ValuesOK(p, d),
         NEW s, s = SummaryOf(d)
  PROVE  IsSelfContained(s)
<1>1. /\ Len(d.hard) \in Nat /\ DOMAIN d.hard = 1 .. Len(d.hard)
      /\ DOMAIN s.hard = DOMAIN d.hard
  BY VersionsGrow, SummaryParts
<1>2. \A i \in DOMAIN d.hard : s.hard[i].name[1] = d.hard[i].name[1]
  <2>1. \A i \in DOMAIN d.hard : s.hard[i].name = ReversionInSummary(d, d.hard[i].name)
    BY SummaryParts
  <2>2. \A n : ReversionInSummary(d, n)[1] = n[1]
    BY DEF ReversionInSummary
  <2> QED BY <2>1, <2>2
<1>3. \A i \in DOMAIN d.hard : \A x : AssignedBefore(s, i, x) = AssignedBefore(d, i, x)
  BY <1>1, <1>2 DEF AssignedBefore
<1>4. ASSUME NEW i \in DOMAIN s.hard
      PROVE  s.hard[i].name[2] = Cardinality(AssignedBefore(s, i, s.hard[i].name[1])) + 1
  <2>1. s.hard[i].name = ReversionInSummary(d, d.hard[i].name) /\ i \in DOMAIN d.hard
    BY <1>1, <1>4, SummaryParts
  <2> QED BY <1>2, <1>3, <2>1, NumberOfWritten
<1>5. ASSUME NEW i \in DOMAIN s.hard, NEW n \in ArgumentsOf(s.hard[i].term)
      PROVE  n[2] = Cardinality(AssignedBefore(s, i, n[1]))
  <2>1. i \in DOMAIN d.hard /\ i \in 1 .. Len(d.hard) + 1
    BY <1>1, <1>5
  <2>a. s.hard[i].term = Renumbered(d, d.hard[i].term)
    BY <2>1, SummaryParts
  <2>b. IsTerm(d.hard[i].term)
    BY <2>1 DEF TermsOK
  <2>2. s.hard[i].term = Renumbered(d, d.hard[i].term) /\ IsTerm(d.hard[i].term)
    BY <2>a, <2>b
  <2>3. PICK m \in ArgumentsOf(d.hard[i].term) : n = ReversionInSummary(d, m)
    BY <1>5, <2>2, RenumberedTerm
  <2>4. IsCurrent(p, d, i, m)
    BY <2>1, <2>3 DEF TermsOK
  <2>5. n = <<m[1], Cardinality(AssignedBefore(d, i, m[1]))>>
    BY <2>1, <2>3, <2>4, NumberOfRead
  <2> QED BY <1>3, <2>1, <2>5
<1>6. ASSUME NEW i \in DOMAIN s.assumptions, NEW n \in ArgumentsOf(s.assumptions[i][1])
      PROVE  n[2] = 0 \/ n \in WrittenNames(s)
  <2>1. i \in DOMAIN d.assumptions
    BY <1>6, SummaryParts
  <2>2. /\ s.assumptions[i][1] = Renumbered(d, d.assumptions[i][1])
        /\ IsTerm(d.assumptions[i][1])
        /\ ArgumentsOf(d.assumptions[i][1]) \subseteq DOMAIN d.val
    BY <2>1, SummaryParts DEF TermsOK
  <2>3. PICK m \in ArgumentsOf(d.assumptions[i][1]) : n = ReversionInSummary(d, m)
    BY <1>6, <2>2, RenumberedTerm
  <2>4. IsName(p, d, m)
    BY <2>2, <2>3 DEF ValuesOK, IsName
  <2>5. CASE m \in WrittenNames(d)
    BY <2>3, <2>5, SummaryWrites
  <2>6. CASE m \notin WrittenNames(d)
    <3>1. m[2] = 0
      BY <2>4, <2>6 DEF IsName
    <3> QED BY <2>3, <2>4, <3>1, NumberOfName
  <2> QED BY <2>5, <2>6
<1> QED BY <1>4, <1>5, <1>6 DEF IsSelfContained

-----------------------------------------------------------------------------
(* The effect of a summary, with its local definitions made explicit.      *)

(* The environments in which the variable of name n is true at the entry.  *)
AtEntry(h, n) == {env \in Environments(h) : n[1][2] \in env}

WritesBefore(s, i, n) == {j \in 1 .. i - 1 : s.hard[j].name = n}

(* The values of the assignments, given those (w) of the earlier ones.     *)
ArgumentIn(h, s, w, i, n) ==
  IF WritesBefore(s, i, n) = {} THEN AtEntry(h, n)
  ELSE w[CHOOSE j \in WritesBefore(s, i, n) : TRUE]

AssignedValues(h, s, w) ==
  [i \in 0 .. Len(s.hard) |->
     IF i = 0 THEN {}
     ELSE Meaning(Environments(h), s.hard[i].term.op,
            [k \in DOMAIN s.hard[i].term.args |->
               ArgumentIn(h, s, w, i, s.hard[i].term.args[k])])]

WorldsIn(h, s) == CHOOSE w : w = AssignedValues(h, s, w)

HardIn(h, s) ==
  [n \in WrittenNames(s) |-> WorldsIn(h, s)[CHOOSE i \in DOMAIN s.hard : s.hard[i].name = n]]

ValueIn(h, s, n) == IF n \in WrittenNames(s) THEN HardIn(h, s)[n] ELSE AtEntry(h, n)

(* The effect of a summary is defined by these values.                     *)
LEMMA EffectUnfolded ==
  ASSUME NEW h, NEW s
  PROVE  Effect(h, s) =
           [applies |-> {env \in Environments(h) : \A i \in DOMAIN s.assumptions :
              (env \in Meaning(Environments(h), s.assumptions[i][1].op,
                         [k \in DOMAIN s.assumptions[i][1].args |->
                            ValueIn(h, s, s.assumptions[i][1].args[k])]))
                = s.assumptions[i][2]},
            final |-> [x \in WrittenVariables(s) |-> HardIn(h, s)[<<x, HighestVersion(s, x)>>]]]
BY Zenon DEF Effect, HardWorlds, ValueIn, HardIn, WorldsIn, AssignedValues, ArgumentIn,
             WritesBefore, AtEntry

(* The assignments of the summary of a path have the values that the path  *)
(* gives them: these satisfy the recursive definition,                     *)
LEMMA PathValuesAreAssigned ==
  ASSUME NEW p, NEW ver, NEW d, VersionsOK(p, ver, d), TermsOK(p, d), ValuesOK(p, d),
         NEW s, s = SummaryOf(d), NEW i \in DOMAIN d.hard, NEW w,
         \A j \in 1 .. i - 1 : w[j] = d.val[d.hard[j].name]
  PROVE  AssignedValues(BlockOf(p, d), s, w)[i] = d.val[d.hard[i].name]
<1> DEFINE h == BlockOf(p, d)
           t == d.hard[i].term
<1>1. /\ Len(d.hard) \in Nat /\ DOMAIN d.hard = 1 .. Len(d.hard) /\ Len(s.hard) = Len(d.hard)
      /\ i \in 1 .. Len(d.hard) /\ i \in 0 .. Len(s.hard) /\ i # 0
      /\ i \in 1 .. Len(d.hard) + 1
  BY VersionsGrow, SummaryParts
<1>2. s.hard[i].term = Renumbered(d, t)
  BY SummaryParts
<1>3. IsTerm(t) /\ \A n \in ArgumentsOf(t) : IsCurrent(p, d, i, n)
  BY DEF TermsOK
<1>4. /\ Renumbered(d, t).op = t.op /\ DOMAIN Renumbered(d, t).args = DOMAIN t.args
      /\ \A k \in DOMAIN t.args : Renumbered(d, t).args[k] = ReversionInSummary(d, t.args[k])
  BY <1>3, RenumberedTerm
<1>5. ASSUME NEW k \in DOMAIN t.args
      PROVE  ArgumentIn(h, s, w, i, ReversionInSummary(d, t.args[k])) = d.val[t.args[k]]
  <2> DEFINE n == t.args[k]
             r == ReversionInSummary(d, n)
  <2>1. n \in ArgumentsOf(t)
    BY DEF ArgumentsOf
  <2>2. IsCurrent(p, d, i, n)
    BY <1>3, <2>1
  <2>3. IsName(p, d, n)
    BY <1>1, <2>2, NumberOfRead
  <2> HIDE DEF n, t
  <2>4. \A j \in 1 .. i - 1 : j \in DOMAIN d.hard /\ s.hard[j].name = ReversionInSummary(d, d.hard[j].name)
    BY <1>1, SummaryParts
  <2>5. \A j \in 1 .. i - 1 : IsName(p, d, d.hard[j].name)
    BY <2>4 DEF IsName, WrittenNames
  <2>6. \A j \in 1 .. i - 1 : s.hard[j].name = r <=> d.hard[j].name = n
    BY <2>3, <2>4, <2>5, NumberOfName
  <2>7. ASSUME WritesBefore(s, i, r) = {}
        PROVE  ArgumentIn(h, s, w, i, r) = d.val[n]
    <3>1. \A j \in 1 .. i - 1 : d.hard[j].name # n
      BY <2>6, <2>7 DEF WritesBefore
    <3>2. n[2] = 0
      BY <2>2, <3>1 DEF IsCurrent
    <3>3. n = <<n[1], 0>> /\ n[1] \in OwnVariables(p, d)
      BY <2>3, <3>2, NameOfPath
    <3>4. d.val[n] = AtEntry(h, n)
      BY <3>3 DEF ValuesOK, AtEntry
    <3>5. AtEntry(h, r) = AtEntry(h, n)
      BY <2>3, NumberOfName DEF AtEntry
    <3> QED BY <2>7, <3>4, <3>5 DEF ArgumentIn
  <2>8. ASSUME WritesBefore(s, i, r) # {}
        PROVE  ArgumentIn(h, s, w, i, r) = d.val[n]
    <3> DEFINE j == CHOOSE j \in WritesBefore(s, i, r) : TRUE
    <3>1. j \in WritesBefore(s, i, r)
      BY <2>8
    <3>2. ArgumentIn(h, s, w, i, r) = w[j]
      BY <2>8 DEF ArgumentIn
    <3> HIDE DEF j
    <3>3. j \in 1 .. i - 1 /\ d.hard[j].name = n
      BY <2>6, <3>1 DEF WritesBefore
    <3> QED BY <3>2, <3>3
  <2> QED BY <2>7, <2>8 DEF n
<1>6. AssignedValues(h, s, w)[i] =
        Meaning(Environments(h), t.op,
          [k \in DOMAIN t.args |-> ArgumentIn(h, s, w, i, ReversionInSummary(d, t.args[k]))])
  <2>1. AssignedValues(h, s, w)[i] =
          Meaning(Environments(h), s.hard[i].term.op,
            [k \in DOMAIN s.hard[i].term.args |->
               ArgumentIn(h, s, w, i, s.hard[i].term.args[k])])
    BY <1>1 DEF AssignedValues
  <2> HIDE DEF t
  <2>2. [k \in DOMAIN Renumbered(d, t).args |-> ArgumentIn(h, s, w, i, Renumbered(d, t).args[k])]
          = [k \in DOMAIN t.args |-> ArgumentIn(h, s, w, i, ReversionInSummary(d, t.args[k]))]
    BY <1>4
  <2> QED BY <1>2, <1>4, <2>1, <2>2, Zenon
<1>7. [k \in DOMAIN t.args |-> ArgumentIn(h, s, w, i, ReversionInSummary(d, t.args[k]))]
        = [k \in DOMAIN t.args |-> d.val[t.args[k]]]
  BY <1>5
<1>8. d.val[d.hard[i].name] = EnvironmentsOf(p, d, t)
  BY DEF ValuesOK
<1>9. EnvironmentsOf(p, d, t) = Meaning(Environments(h), t.op, [k \in DOMAIN t.args |-> d.val[t.args[k]]])
  BY DEF EnvironmentsOf, BlockOf
<1> QED BY <1>6, <1>7, <1>8, <1>9, Zenon

(* and no others do.                                                       *)
LEMMA WorldsOfSummary ==
  ASSUME NEW p, NEW ver, NEW d, VersionsOK(p, ver, d), TermsOK(p, d), ValuesOK(p, d),
         NEW s, s = SummaryOf(d)
  PROVE  \A i \in DOMAIN d.hard : WorldsIn(BlockOf(p, d), s)[i] = d.val[d.hard[i].name]
<1> DEFINE h == BlockOf(p, d)
           w0 == [i \in 0 .. Len(s.hard) |-> IF i = 0 THEN {} ELSE d.val[d.hard[i].name]]
           w == WorldsIn(h, s)
<1>1. /\ Len(d.hard) \in Nat /\ DOMAIN d.hard = 1 .. Len(d.hard) /\ Len(s.hard) = Len(d.hard)
  BY VersionsGrow, SummaryParts
<1>2. w0 = AssignedValues(h, s, w0)
  <2>1. \A i \in 1 .. Len(d.hard) : w0[i] = d.val[d.hard[i].name]
    BY <1>1
  <2>2. w0 = [i \in 0 .. Len(s.hard) |-> w0[i]] /\ w0[0] = {}
    BY <1>1
  <2>3. AssignedValues(h, s, w0) = [i \in 0 .. Len(s.hard) |-> AssignedValues(h, s, w0)[i]]
    BY DEF AssignedValues
  <2>4. AssignedValues(h, s, w0)[0] = {}
    BY <1>1 DEF AssignedValues
  <2> HIDE DEF w0
  <2>5. ASSUME NEW i \in 1 .. Len(d.hard)
        PROVE  AssignedValues(h, s, w0)[i] = w0[i]
    <3>1. \A j \in 1 .. i - 1 : w0[j] = d.val[d.hard[j].name]
      BY <1>1, <2>1
    <3>2. AssignedValues(h, s, w0)[i] = d.val[d.hard[i].name]
      BY <1>1, <3>1, PathValuesAreAssigned
    <3> QED BY <2>1, <3>2
  <2>6. \A i \in 0 .. Len(s.hard) : i = 0 \/ i \in 1 .. Len(d.hard)
    BY <1>1
  <2>7. \A i \in 0 .. Len(s.hard) : AssignedValues(h, s, w0)[i] = w0[i]
    BY <2>2, <2>4, <2>5, <2>6
  <2> QED BY <2>2, <2>3, <2>7
<1>3. w = AssignedValues(h, s, w)
  <2> HIDE DEF w0
  <2> QED BY <1>2, Zenon DEF WorldsIn
<1> DEFINE Bad == {i \in DOMAIN d.hard : w[i] # d.val[d.hard[i].name]}
<1>4. Bad = {}
  <2> SUFFICES ASSUME Bad # {} PROVE FALSE
    OBVIOUS
  <2>1. Bad \in SUBSET Nat
    BY <1>1
  <2>2. PICK i \in Bad : \A j \in Bad : ~(j < i)
    <3> HIDE DEF Bad
    <3> QED BY <2>1, LeastNumber
  <2>3. i \in DOMAIN d.hard /\ i \in Nat
    BY <1>1
  <2>4. \A j \in 1 .. i - 1 : w[j] = d.val[d.hard[j].name]
    <3> HIDE DEF w
    <3>1. \A j \in 1 .. i - 1 : j \in DOMAIN d.hard /\ j < i
      BY <1>1, <2>3
    <3> QED BY <2>2, <3>1
  <2>5. AssignedValues(h, s, w)[i] = d.val[d.hard[i].name]
    <3> HIDE DEF w
    <3> QED BY <2>3, <2>4, PathValuesAreAssigned
  <2>6. w[i] = d.val[d.hard[i].name]
    <3> HIDE DEF w
    <3> QED BY <1>3, <2>5, Zenon
  <2> HIDE DEF w
  <2> QED BY <2>2, <2>6
<1> QED BY <1>4

(* The names of the summary stand for what those of the path stand for.    *)
LEMMA ValuesInSummary ==
  ASSUME NEW p, NEW ver, NEW d, VersionsOK(p, ver, d), TermsOK(p, d), ValuesOK(p, d),
         NEW s, s = SummaryOf(d), NEW n, IsName(p, d, n)
  PROVE  /\ ValueIn(BlockOf(p, d), s, ReversionInSummary(d, n)) = d.val[n]
         /\ n \in WrittenNames(d) =>
              HardIn(BlockOf(p, d), s)[ReversionInSummary(d, n)] = d.val[n]
<1> DEFINE h == BlockOf(p, d)
           r == ReversionInSummary(d, n)
<1>1. /\ DOMAIN s.hard = DOMAIN d.hard
      /\ \A i \in DOMAIN d.hard : s.hard[i].name = ReversionInSummary(d, d.hard[i].name)
  BY SummaryParts
<1>2. \A i \in DOMAIN d.hard : IsName(p, d, d.hard[i].name)
  BY DEF IsName, WrittenNames
<1>3. \A i \in DOMAIN d.hard : s.hard[i].name = r <=> d.hard[i].name = n
  BY <1>1, <1>2, NumberOfName
<1>4. ASSUME n \in WrittenNames(d)
      PROVE  r \in WrittenNames(s) /\ HardIn(h, s)[r] = d.val[n]
  <2> DEFINE i == CHOOSE i \in DOMAIN s.hard : s.hard[i].name = r
  <2>1. r \in WrittenNames(s)
    BY <1>4, SummaryWrites
  <2>2. \E j \in DOMAIN s.hard : s.hard[j].name = r
    BY <1>1, <1>3, <1>4 DEF WrittenNames
  <2>3. i \in DOMAIN d.hard /\ d.hard[i].name = n
    BY <1>1, <1>3, <2>2
  <2>4. HardIn(h, s)[r] = WorldsIn(h, s)[i]
    BY <2>1 DEF HardIn
  <2> HIDE DEF i, h, r
  <2>5. WorldsIn(h, s)[i] = d.val[d.hard[i].name]
    BY <2>3, WorldsOfSummary DEF h
  <2> QED BY <2>1, <2>3, <2>4, <2>5
<1>5. ASSUME n \notin WrittenNames(d)
      PROVE  r \notin WrittenNames(s) /\ AtEntry(h, r) = d.val[n]
  <2>1. n[2] = 0 /\ n = <<n[1], 0>> /\ n[1] \in OwnVariables(p, d)
    BY <1>5 DEF IsName
  <2>2. \A i \in DOMAIN d.hard : d.hard[i].name # n
    BY <1>5 DEF WrittenNames
  <2>3. r \notin WrittenNames(s)
    BY <1>1, <1>3, <2>2 DEF WrittenNames
  <2>4. r[1] = n[1]
    BY NumberOfName
  <2>5. d.val[n] = AtEntry(h, n)
    BY <2>1 DEF ValuesOK, AtEntry
  <2> QED BY <2>3, <2>4, <2>5 DEF AtEntry
<1> QED BY <1>4, <1>5 DEF ValueIn

(* A summary applies to the environments that are feasible for its path.   *)
LEMMA SummaryAppliesToPath ==
  ASSUME NEW p, NEW ver, NEW d, VersionsOK(p, ver, d), TermsOK(p, d), ValuesOK(p, d),
         NEW s, s = SummaryOf(d)
  PROVE  Effect(BlockOf(p, d), s).applies = Feasible(p, d)
<1> DEFINE h == BlockOf(p, d)
<1>1. ASSUME NEW i \in DOMAIN d.assumptions
      PROVE  /\ s.assumptions[i][1].op = d.assumptions[i][1].op
             /\ [k \in DOMAIN s.assumptions[i][1].args |-> ValueIn(h, s, s.assumptions[i][1].args[k])]
                  = [k \in DOMAIN d.assumptions[i][1].args |-> d.val[d.assumptions[i][1].args[k]]]
             /\ s.assumptions[i][2] = d.assumptions[i][2]
  <2> DEFINE t == d.assumptions[i][1]
  <2>1. s.assumptions[i][1] = Renumbered(d, t) /\ s.assumptions[i][2] = d.assumptions[i][2]
    BY SummaryParts
  <2>2. IsTerm(t) /\ ArgumentsOf(t) \subseteq DOMAIN d.val
    BY DEF TermsOK
  <2> HIDE DEF t
  <2>3. /\ Renumbered(d, t).op = t.op /\ DOMAIN Renumbered(d, t).args = DOMAIN t.args
        /\ \A k \in DOMAIN t.args : Renumbered(d, t).args[k] = ReversionInSummary(d, t.args[k])
    BY <2>2, RenumberedTerm
  <2>4. ASSUME NEW k \in DOMAIN t.args
        PROVE  ValueIn(h, s, Renumbered(d, t).args[k]) = d.val[t.args[k]]
    <3>1. IsName(p, d, t.args[k])
      BY <2>2 DEF ArgumentsOf, ValuesOK, IsName
    <3>2. ValueIn(h, s, ReversionInSummary(d, t.args[k])) = d.val[t.args[k]]
      BY <3>1, ValuesInSummary
    <3> QED BY <2>3, <3>2
  <2>5. [k \in DOMAIN Renumbered(d, t).args |-> ValueIn(h, s, Renumbered(d, t).args[k])]
          = [k \in DOMAIN t.args |-> d.val[t.args[k]]]
    BY <2>3, <2>4
  <2> QED BY <2>1, <2>3, <2>5 DEF t
<1>2. DOMAIN s.assumptions = DOMAIN d.assumptions
  BY SummaryParts
<1> DEFINE InSummary(i) == Meaning(Environments(h), s.assumptions[i][1].op,
                          [k \in DOMAIN s.assumptions[i][1].args |->
                             ValueIn(h, s, s.assumptions[i][1].args[k])])
           InPath(i) == Meaning(Environments(h), d.assumptions[i][1].op,
                          [k \in DOMAIN d.assumptions[i][1].args |->
                             d.val[d.assumptions[i][1].args[k]]])
<1>3. Effect(h, s).applies =
        {env \in Environments(h) : \A i \in DOMAIN s.assumptions :
           (env \in InSummary(i)) = s.assumptions[i][2]}
  BY EffectUnfolded
<1>4. Feasible(p, d) =
        {env \in Environments(h) : \A i \in DOMAIN d.assumptions :
           (env \in InPath(i)) = d.assumptions[i][2]}
  BY DEF Feasible, EnvironmentsOf, BlockOf
<1>5. \A i \in DOMAIN d.assumptions : InSummary(i) = InPath(i)
  BY <1>1, Zenon
<1>6. \A i \in DOMAIN d.assumptions : s.assumptions[i][2] = d.assumptions[i][2]
  BY <1>1
<1> HIDE DEF InSummary, InPath
<1> QED BY <1>2, <1>3, <1>4, <1>5, <1>6

(* The last version that the summary writes of a variable is that of the   *)
(* path's current name.                                                    *)
LEMMA LastVersionInSummary ==
  ASSUME NEW p, NEW ver, NEW d, VersionsOK(p, ver, d), TermsOK(p, d), ValuesOK(p, d),
         NEW s, s = SummaryOf(d), NEW x \in OwnVariables(p, d),
         NEW n, n = <<x, d.ver[x]>>, NEW r, r = ReversionInSummary(d, n)
  PROVE  /\ IsName(p, d, n)
         /\ x \in WrittenVariables(s) =>
              /\ n \in WrittenNames(d)
              /\ r \in WrittenNames(s) /\ r = <<x, r[2]>> /\ r[2] \in Nat
              /\ \A q \in WrittenNames(s) : q[1] = x => q[2] \in Nat /\ q[2] <= r[2]
<1>1. /\ Len(d.hard) \in Nat /\ DOMAIN d.hard = 1 .. Len(d.hard)
      /\ Len(d.hard) + 1 \in 1 .. Len(d.hard) + 1
  BY VersionsGrow
<1>2. IsCurrent(p, d, Len(d.hard) + 1, n)
  BY DEF VersionsOK
<1>3. IsName(p, d, n)
  BY <1>1, <1>2, NumberOfRead
<1>4. \A i \in DOMAIN d.hard : d.hard[i].name[1] = x => d.hard[i].name[2] <= n[2]
  <2>1. \A i \in DOMAIN d.hard : i \in 1 .. (Len(d.hard) + 1) - 1
    BY <1>1
  <2> QED BY <1>2, <2>1 DEF IsCurrent
<1>5. n[1] = x /\ n[2] = d.ver[x]
  OBVIOUS
<1>6. ASSUME x \in WrittenVariables(s)
      PROVE  n \in WrittenNames(d)
  <2>1. PICK m \in WrittenNames(d) : m[1] = x
    BY <1>6, SummaryWrites
  <2>2. PICK i \in DOMAIN d.hard : d.hard[i].name = m
    BY DEF WrittenNames
  <2>3. m[2] \in Nat \ {0} /\ m[2] <= d.ver[x]
    BY <1>4, <1>5, <2>1, <2>2, VersionsGrow
  <2>4. d.ver[x] # 0
    BY <2>3
  <2> QED BY <1>3, <2>4 DEF IsName
<1>7. ASSUME x \in WrittenVariables(s)
      PROVE  /\ r \in WrittenNames(s) /\ r = <<x, r[2]>> /\ r[2] \in Nat
             /\ \A q \in WrittenNames(s) : q[1] = x => q[2] \in Nat /\ q[2] <= r[2]
  <2>1. r \in WrittenNames(s)
    BY <1>6, <1>7, SummaryWrites
  <2>2. r = <<x, r[2]>> /\ r[2] \in Nat
    BY <1>3, <1>5, NumberOfName
  <2>3. ASSUME NEW q \in WrittenNames(s), q[1] = x
        PROVE  q[2] \in Nat /\ q[2] <= r[2]
    <3>1. PICK m \in WrittenNames(d) : q = ReversionInSummary(d, m)
      BY SummaryWrites
    <3>2. IsName(p, d, m)
      BY DEF IsName
    <3>3. m[1] = x /\ q[2] \in Nat
      BY <2>3, <3>1, <3>2, NumberOfName
    <3>4. PICK i \in DOMAIN d.hard : d.hard[i].name = m
      BY DEF WrittenNames
    <3>5. m[2] <= n[2]
      BY <1>4, <3>3, <3>4
    <3> QED BY <1>3, <1>5, <3>1, <3>2, <3>3, <3>5, NumbersKeepOrder
  <2> QED BY <2>1, <2>2, <2>3
<1> QED BY <1>3, <1>6, <1>7

(* It ends with the values of the path, and leaves the variables alone that*)
(* the path has not assigned.                                              *)
LEMMA SummaryEndsAsPath ==
  ASSUME NEW p, NEW ver, NEW d, VersionsOK(p, ver, d), TermsOK(p, d), ValuesOK(p, d),
         NEW s, s = SummaryOf(d), NEW x \in OwnVariables(p, d)
  PROVE  /\ x \in WrittenVariables(s) =>
              /\ HighestVersion(s, x) = ReversionInSummary(d, <<x, d.ver[x]>>)[2]
              /\ Effect(BlockOf(p, d), s).final[x] = d.val[<<x, d.ver[x]>>]
         /\ x \notin WrittenVariables(s) => d.ver[x] = 0
<1> DEFINE n == <<x, d.ver[x]>>
           r == ReversionInSummary(d, n)
           V == {q[2] : q \in WrittenNames(s)}
           High(k) == /\ <<x, k>> \in WrittenNames(s)
                      /\ \A q \in WrittenNames(s) : q[1] = x => q[2] <= k
           v == HighestVersion(s, x)
<1>1. /\ IsName(p, d, n)
      /\ x \in WrittenVariables(s) =>
           /\ n \in WrittenNames(d)
           /\ r \in WrittenNames(s) /\ r = <<x, r[2]>> /\ r[2] \in Nat
           /\ \A q \in WrittenNames(s) : q[1] = x => q[2] \in Nat /\ q[2] <= r[2]
  <2>1. n = <<x, d.ver[x]>> /\ r = ReversionInSummary(d, n)
    OBVIOUS
  <2> HIDE DEF n, r
  <2> QED BY <2>1, LastVersionInSummary
<1>2. ASSUME x \notin WrittenVariables(s)
      PROVE  d.ver[x] = 0
  <2>1. n \notin WrittenNames(d)
    BY <1>2, SummaryWrites
  <2> QED BY <1>1, <2>1 DEF IsName
<1>3. v = CHOOSE k \in V : High(k)
  BY DEF HighestVersion
<1>4. ASSUME x \in WrittenVariables(s)
      PROVE  v = r[2]
  <2> HIDE DEF n, r, v
  <2>1. r[2] \in V /\ High(r[2])
    BY <1>1, <1>4
  <2>2. High(v)
    <3> HIDE DEF V, High
    <3> QED BY <1>3, <2>1
  <2>3. v \in Nat /\ v <= r[2] /\ r[2] <= v
    <3>1. <<x, v>>[1] = x /\ <<x, v>>[2] = v /\ r[1] = x
      BY <1>1, <1>4
    <3> QED BY <1>1, <1>4, <2>2, <3>1
  <2> QED BY <1>1, <1>4, <2>3
<1>5. ASSUME x \in WrittenVariables(s)
      PROVE  Effect(BlockOf(p, d), s).final[x] = d.val[n]
  <2>1. Effect(BlockOf(p, d), s).final[x] = HardIn(BlockOf(p, d), s)[<<x, v>>]
    BY <1>5, EffectUnfolded
  <2> HIDE DEF n, v
  <2>2. <<x, v>> = r
    <3> HIDE DEF r
    <3> QED BY <1>1, <1>4, <1>5
  <2>3. HardIn(BlockOf(p, d), s)[r] = d.val[n]
    BY <1>1, <1>5, ValuesInSummary
  <2> QED BY <2>1, <2>2, <2>3
<1> QED BY <1>2, <1>4, <1>5

(* What the program's other components rely on in a summary.               *)
FitsProgram(p, f, s) ==
  /\ f \in DOMAIN p.cfgs
  /\ s.literals \in Seq(DOMAIN p.cfgs[f].vertices)
  /\ \A x \in WrittenVariables(s) : \E k \in {n[2] : n \in WrittenNames(s)} :
       /\ k \in Nat
       /\ <<x, k>> \in WrittenNames(s)
       /\ \A n \in WrittenNames(s) : n[1] = x => n[2] \in Nat /\ n[2] <= k
  /\ WrittenVariables(s) \subseteq FlattenedInterface(p)
  /\ \A t \in {s.assumptions[j][1] : j \in DOMAIN s.assumptions}
                \cup {s.hard[j].term : j \in DOMAIN s.hard} :
       IsTerm(t) /\ \A n \in ArgumentsOf(t) : n[1] \in FlattenedInterface(p)

(* The summary of a path has it.                                           *)
LEMMA SummaryFits ==
  ASSUME NEW p, NEW ver, NEW d, PathPlaced(p, d), d.name \in DOMAIN p.cfgs,
         VersionsOK(p, ver, d), TermsOK(p, d), ValuesOK(p, d),
         OwnVariables(p, d) \subseteq FlattenedInterface(p), NEW s, s = SummaryOf(d)
  PROVE  FitsProgram(p, d.name, s)
<1>1. s.literals \in Seq(DOMAIN p.cfgs[d.name].vertices)
  BY SummaryParts DEF PathPlaced, BlockOf
<1>2. WrittenVariables(s) \subseteq OwnVariables(p, d)
  <2>1. \A n \in WrittenNames(d) : IsName(p, d, n)
    BY DEF IsName
  <2> QED BY <2>1, SummaryWrites, NameOfPath
<1>3. ASSUME NEW x \in WrittenVariables(s)
      PROVE  \E k \in {n[2] : n \in WrittenNames(s)} :
               /\ k \in Nat
               /\ <<x, k>> \in WrittenNames(s)
               /\ \A n \in WrittenNames(s) : n[1] = x => n[2] \in Nat /\ n[2] <= k
  <2> DEFINE n == <<x, d.ver[x]>>
             r == ReversionInSummary(d, n)
  <2>1. /\ r \in WrittenNames(s) /\ r = <<x, r[2]>> /\ r[2] \in Nat
        /\ \A q \in WrittenNames(s) : q[1] = x => q[2] \in Nat /\ q[2] <= r[2]
    <3>1. n = <<x, d.ver[x]>> /\ r = ReversionInSummary(d, n) /\ x \in OwnVariables(p, d)
      BY <1>2
    <3> HIDE DEF n, r
    <3> QED BY <3>1, LastVersionInSummary
  <2> HIDE DEF n, r
  <2> QED BY <2>1
<1>4. \A n : IsName(p, d, n) =>
        ReversionInSummary(d, n)[1] \in FlattenedInterface(p) /\ n[1] \in FlattenedInterface(p)
  BY NumberOfName, NameOfPath
<1>5. ASSUME NEW t, IsTerm(t), \A n \in ArgumentsOf(t) : IsName(p, d, n)
      PROVE  /\ IsTerm(Renumbered(d, t))
             /\ \A n \in ArgumentsOf(Renumbered(d, t)) : n[1] \in FlattenedInterface(p)
  <2>1. /\ IsTerm(Renumbered(d, t))
        /\ ArgumentsOf(Renumbered(d, t)) = {ReversionInSummary(d, n) : n \in ArgumentsOf(t)}
    BY <1>5, RenumberedTerm
  <2> QED BY <1>4, <1>5, <2>1
<1>6. ASSUME NEW j \in DOMAIN s.assumptions
      PROVE  /\ IsTerm(s.assumptions[j][1])
             /\ \A n \in ArgumentsOf(s.assumptions[j][1]) : n[1] \in FlattenedInterface(p)
  <2>1. j \in DOMAIN d.assumptions
    BY <1>6, SummaryParts
  <2>2. s.assumptions[j][1] = Renumbered(d, d.assumptions[j][1])
    BY <2>1, SummaryParts
  <2>3. /\ IsTerm(d.assumptions[j][1])
        /\ \A n \in ArgumentsOf(d.assumptions[j][1]) : IsName(p, d, n)
    BY <2>1 DEF TermsOK, ValuesOK, IsName
  <2> QED BY <1>5, <2>2, <2>3
<1>7. ASSUME NEW j \in DOMAIN s.hard
      PROVE  /\ IsTerm(s.hard[j].term)
             /\ \A n \in ArgumentsOf(s.hard[j].term) : n[1] \in FlattenedInterface(p)
  <2>1. j \in DOMAIN d.hard
    BY <1>7, SummaryParts
  <2>2. s.hard[j].term = Renumbered(d, d.hard[j].term)
    BY <2>1, SummaryParts
  <2>3. j \in 1 .. Len(d.hard) + 1
    BY <2>1, VersionsGrow
  <2>4. /\ IsTerm(d.hard[j].term)
        /\ \A n \in ArgumentsOf(d.hard[j].term) : IsName(p, d, n)
    BY <2>1, <2>3, NumberOfRead DEF TermsOK
  <2> QED BY <1>5, <2>2, <2>4
<1> QED BY <1>1, <1>2, <1>3, <1>6, <1>7 DEF FitsProgram

-----------------------------------------------------------------------------
(* The run of the simulation, with its recursive definition made explicit. *)

(* A configuration that has returned stays where it is.                    *)
NextInRun(p, k) == IF Depth(k) = 1 THEN k ELSE ConcreteStep(p, {}, k)

RunOf(p, l, env, n, at) ==
  [i \in 1 .. n |-> IF i = 1 THEN CalleeStart(p, l, env) ELSE NextInRun(p, at[i - 1])]

(* The run is a solution of the recursion.                                 *)
LEMMA TraceUnfolded ==
  ASSUME NEW p, NEW l, NEW env
  PROVE  CalleeTrace(p, l, env) = (CHOOSE at : at = RunOf(p, l, env, MaxSteps, at)) \o <<>>
BY Zenon DEF CalleeTrace, RunOf, NextInRun

(* There are runs of any number of steps.                                  *)
LEMMA RunExists ==
  ASSUME NEW p, NEW l, NEW env, NEW n \in Nat
  PROVE  \E at : at = RunOf(p, l, env, n, at)
<1> DEFINE None == {m \in Nat : ~ \E at : at = RunOf(p, l, env, m, at)}
<1> SUFFICES ASSUME None # {} PROVE FALSE
  OBVIOUS
<1>1. PICK m \in None : \A k \in None : ~(k < m)
  <2>1. None \in SUBSET Nat
    OBVIOUS
  <2> HIDE DEF None
  <2> QED BY <2>1, LeastNumber
<1>2. m # 0
  <2>1. RunOf(p, l, env, 0, <<>>) = <<>>
    <3>1. 1 .. 0 = {}
      OBVIOUS
    <3> QED BY <3>1 DEF RunOf
  <2> QED BY <2>1
<1>3. m - 1 \in Nat /\ m - 1 < m /\ m \in Nat
  BY <1>2
<1>4. PICK at : at = RunOf(p, l, env, m - 1, at)
  BY <1>1, <1>3
<1> DEFINE longer == [i \in 1 .. m |-> IF i = 1 THEN CalleeStart(p, l, env)
                                       ELSE NextInRun(p, at[i - 1])]
<1>5. \A i \in 1 .. m - 1 : longer[i] = at[i]
  <2>1. \A i \in 1 .. m - 1 : at[i] = IF i = 1 THEN CalleeStart(p, l, env)
                                      ELSE NextInRun(p, at[i - 1])
    BY <1>4 DEF RunOf
  <2>2. \A i \in 1 .. m - 1 : i \in 1 .. m
    BY <1>3
  <2> QED BY <2>1, <2>2
<1>6. \A i \in 1 .. m : i = 1 \/ i - 1 \in 1 .. m - 1
  BY <1>3
<1>7. longer = RunOf(p, l, env, m, longer)
  <2>1. longer = [i \in 1 .. m |-> longer[i]]
    OBVIOUS
  <2>2. \A i \in 1 .. m : longer[i] = IF i = 1 THEN CalleeStart(p, l, env)
                                      ELSE NextInRun(p, longer[i - 1])
    BY <1>5, <1>6
  <2>3. RunOf(p, l, env, m, longer) =
          [i \in 1 .. m |-> IF i = 1 THEN CalleeStart(p, l, env)
                            ELSE NextInRun(p, longer[i - 1])]
    BY DEF RunOf
  <2> HIDE DEF longer
  <2> QED BY <2>1, <2>2, <2>3
<1> HIDE DEF longer
<1> QED BY <1>1, <1>7

(* The run starts where the function block is entered and takes one step   *)
(* of the simulation after the other until it has returned.                *)
LEMMA TraceSteps ==
  ASSUME NEW p, NEW l, NEW env, NEW trace, trace = CalleeTrace(p, l, env),
         NEW i \in 1 .. MaxSteps
  PROVE  trace[i] = IF i = 1 THEN CalleeStart(p, l, env) ELSE NextInRun(p, trace[i - 1])
<1> DEFINE at == CHOOSE at : at = RunOf(p, l, env, MaxSteps, at)
<1>1. at = RunOf(p, l, env, MaxSteps, at)
  BY RunExists, MaxStepsAssumption
<1>2. trace = at \o <<>>
  BY TraceUnfolded
<1> HIDE DEF at
<1>3. trace = at
  <2>1. at = [j \in 1 .. MaxSteps |-> at[j]]
    BY <1>1 DEF RunOf
  <2>2. IsSeq(at)
    BY <2>1, FunctionIsSeq, MaxStepsAssumption
  <2> QED BY <1>2, <2>2, ConcatEmptySeq DEF IsSeq, RangeOf
<1> QED BY <1>1, <1>3 DEF RunOf

-----------------------------------------------------------------------------
(* The paths of the program.                                               *)

(* What SummarizedCodeAssumption says of a program.                        *)
CodeOK(p) ==
  /\ WellFormed(p) /\ ReferencesResolve(p) /\ OneCalleeDepth(p)
  /\ IsFiniteSet(DOMAIN MainCfg(p).vertices)

-----------------------------------------------------------------------------
(* The function blocks that are explored.                                  *)

(* A sequence of one element, and another one.                             *)
LEMMA AppendToOne ==
  ASSUME NEW a, NEW b
  PROVE  Append(<<a>>, b) = <<a, b>> /\ Len(<<a, b>>) = 2 /\ Len(<<a>>) = 1
<1> DEFINE S == {a, b}
           t == Append(<<a>>, b)
<1>1. <<a>> \in Seq(S) /\ <<a, b>> \in Seq(S) /\ Len(<<a, b>>) = 2 /\ Len(<<a>>) = 1
  OBVIOUS
<1>2. /\ t \in Seq(S) /\ Len(t) = 2
      /\ t[1] = a /\ t[2] = b
  <2>1. /\ t \in Seq(S) /\ Len(t) = Len(<<a>>) + 1
        /\ \A i \in 1 .. Len(<<a>>) : t[i] = <<a>>[i]
        /\ t[Len(<<a>>) + 1] = b
    BY <1>1, AppendProperties
  <2> QED BY <1>1, <2>1
<1>3. \A i \in 1 .. Len(t) : t[i] = <<a, b>>[i]
  BY <1>2
<1> HIDE DEF t, S
<1>4. t = <<a, b>>
  BY <1>1, <1>2, <1>3, SeqEqual
<1> QED BY <1>1, <1>4 DEF t

(* The block called at l and its instance are those of the program.        *)
LEMMA CalleeOfCall ==
  ASSUME NEW p, CodeOK(p), NEW l \in FirstCalls(p)
  PROVE  /\ l \in Nat
         /\ CalleeScope(p, l) \in DOMAIN p.scopes /\ Len(CalleeScope(p, l)) = 2
         /\ p.scopes[CalleeScope(p, l)] = CalledAt(p, l)
         /\ CfgOf(p, CalleeScope(p, l)) = p.cfgs[CalledAt(p, l)]
         /\ CalledAt(p, l) \in DOMAIN p.cfgs
         /\ p.cfgs[CalledAt(p, l)].type = "FUNCTION_BLOCK"
         /\ {CalleeScope(p, l)} \X p.cfgs[CalledAt(p, l)].vars \subseteq FlattenedInterface(p)
<1> DEFINE m == MainScope(p)
           i == MainCfg(p).vertices[l].instance
           s == CalleeScope(p, l)
<1>1. l \in DOMAIN CfgOf(p, m).vertices /\ CfgOf(p, m).vertices[l].op = "call"
  BY DEF FirstCalls, MainCfg
<1>2. m \in DOMAIN p.scopes /\ WellFormedVertex(p, m, l)
  BY <1>1 DEF CodeOK, WellFormed
<1>3. l \in Nat /\ Append(m, i) \in DOMAIN p.scopes
  BY <1>1, <1>2 DEF WellFormedVertex, MainCfg
<1>4. Append(m, i) = s /\ Len(s) = 2 /\ Len(m) = 1
  BY AppendToOne DEF CalleeScope, MainScope
<1>5. s \in DOMAIN p.scopes
  BY <1>3, <1>4
<1>6. p.scopes[s] \in DOMAIN p.cfgs /\ CfgOf(p, s).type = IF s = m THEN "PROGRAM" ELSE "FUNCTION_BLOCK"
  <2> HIDE DEF s, m
  <2> QED BY <1>5 DEF CodeOK, WellFormed, m
<1>7. s # m
  BY <1>4
<1>8. p.scopes[s] = CalledAt(p, l)
  BY DEF CalledAt, CalleeScope
<1>9. CfgOf(p, s) = p.cfgs[CalledAt(p, l)]
  BY <1>8 DEF CfgOf
<1>10. {s} \X CfgOf(p, s).vars \subseteq FlattenedInterface(p)
  <2> HIDE DEF s
  <2> QED BY <1>5 DEF FlattenedInterface
<1> QED BY <1>3, <1>4, <1>5, <1>6, <1>7, <1>8, <1>9, <1>10

(* A function block is explored for one call only.                         *)
LEMMA FirstCallsDiffer ==
  ASSUME NEW p, CodeOK(p), NEW k \in FirstCalls(p), NEW l \in FirstCalls(p),
         CalledAt(p, k) = CalledAt(p, l)
  PROVE  k = l
<1>1. k \in Nat /\ l \in Nat
  BY CalleeOfCall
<1>2. k <= l /\ l <= k
  BY SMTT(30) DEF FirstCalls
<1> QED BY <1>1, <1>2

(* The vertices of an explored function block.                             *)
LEMMA VertexOfCallee ==
  ASSUME NEW p, CodeOK(p), NEW k \in FirstCalls(p),
         NEW s, s = CalleeScope(p, k), NEW g, g = p.cfgs[CalledAt(p, k)],
         NEW l \in DOMAIN g.vertices, NEW v, v = g.vertices[l]
  PROVE  /\ v.type \in {"ENTRY", "REGULAR", "EXIT"}
         /\ v.type # "REGULAR" => v.op = "none"
         /\ (v.op = "none" /\ v.type # "EXIT") => SucceedingLabel(g, l) \in DOMAIN g.vertices
         /\ v.op = "assign" =>
              /\ Target(g, l, "INTRAPROCEDURAL") \in DOMAIN g.vertices
              /\ Flatten(s, v.var) \in {s} \X g.vars
              /\ IsExpression(v.rhs)
              /\ \A i \in DOMAIN v.rhs.args : Flatten(s, v.rhs.args[i]) \in {s} \X g.vars
         /\ v.op = "if" =>
              /\ Target(g, l, "TRUE_BRANCH") \in DOMAIN g.vertices
              /\ Target(g, l, "FALSE_BRANCH") \in DOMAIN g.vertices
              /\ IsExpression(v.cond)
              /\ \A i \in DOMAIN v.cond.args : Flatten(s, v.cond.args[i]) \in {s} \X g.vars
<1>1. s \in DOMAIN p.scopes /\ Len(s) = 2 /\ CfgOf(p, s) = g
  BY CalleeOfCall
<1>2. WellFormedVertex(p, s, l)
  BY <1>1 DEF CodeOK, WellFormed
<1>3. /\ \A ref \in References(v) : Flatten(s, ref) \in {s} \X g.vars
      /\ v.op = "assign" => IsExpression(v.rhs)
      /\ v.op = "if" => IsExpression(v.cond)
  <2>1. Len(s) > 1 /\ l \in DOMAIN CfgOf(p, s).vertices /\ v = CfgOf(p, s).vertices[l]
    BY <1>1
  <2>2. OneCalleeDepth(p)
    BY DEF CodeOK
  <2> QED BY <1>1, <2>1, <2>2, ZenonT(60) DEF OneCalleeDepth
<1>4. /\ v.type \in {"ENTRY", "REGULAR", "EXIT"}
      /\ v.type # "REGULAR" => v.op = "none"
  BY <1>1, <1>2 DEF WellFormedVertex
<1>5. (v.op = "none" /\ v.type # "EXIT") => SucceedingLabel(g, l) \in DOMAIN g.vertices
  BY <1>1, <1>2 DEF WellFormedVertex, SucceedingLabel
<1>6. /\ v.op = "assign" => Leads(g, l, "INTRAPROCEDURAL", DOMAIN g.vertices)
      /\ v.op = "if" => /\ Leads(g, l, "TRUE_BRANCH", DOMAIN g.vertices)
                        /\ Leads(g, l, "FALSE_BRANCH", DOMAIN g.vertices)
  BY <1>1, <1>2 DEF WellFormedVertex
<1>7. \A type, labels : Leads(g, l, type, labels) => Target(g, l, type) \in labels
  BY DEF Leads, Target
<1>8. ASSUME v.op = "assign"
      PROVE  /\ Flatten(s, v.var) \in {s} \X g.vars
             /\ \A i \in DOMAIN v.rhs.args : Flatten(s, v.rhs.args[i]) \in {s} \X g.vars
  BY <1>3, <1>8 DEF References, ArgumentsOf
<1>9. ASSUME v.op = "if"
      PROVE  \A i \in DOMAIN v.cond.args : Flatten(s, v.cond.args[i]) \in {s} \X g.vars
  BY <1>3, <1>9 DEF References, ArgumentsOf
<1> QED BY <1>3, <1>4, <1>5, <1>6, <1>7, <1>8, <1>9

-----------------------------------------------------------------------------
(* One step of the simulation inside the function block.                   *)

(* A configuration passes an entry or intermediate vertex,                 *)
LEMMA StepPasses ==
  ASSUME NEW p, NEW k, NEW v, v = CfgOf(p, Scope(k)).vertices[k.label],
         v.type = "ENTRY" \/ (v.type = "REGULAR" /\ v.op = "none")
  PROVE  ConcreteStep(p, {}, k) =
           [k EXCEPT !.label = SucceedingLabel(CfgOf(p, Scope(k)), k.label)]
BY DEF ConcreteStep

(* A configuration after an assignment and after a decision.               *)
AfterAssignment(k, g, v) ==
  [k EXCEPT !.env[Flatten(Scope(k), v.var)] = Evaluate(k, v.rhs),
            !.label = Target(g, k.label, "INTRAPROCEDURAL")]

AfterDecision(k, g, v) ==
  [k EXCEPT !.label = Target(g, k.label, IF Evaluate(k, v.cond) THEN "TRUE_BRANCH"
                                                               ELSE "FALSE_BRANCH"),
            !.taken = @ \cup {<<k.label, Evaluate(k, v.cond)>>}]

(* executes an assignment,                                                 *)
LEMMA StepAssigns ==
  ASSUME NEW p, NEW k, NEW v, v = CfgOf(p, Scope(k)).vertices[k.label],
         v.type = "REGULAR", v.op = "assign"
  PROVE  ConcreteStep(p, {}, k) = AfterAssignment(k, CfgOf(p, Scope(k)), v)
BY DEF ConcreteStep, AfterAssignment

(* takes one branch of a decision,                                         *)
LEMMA StepBranches ==
  ASSUME NEW p, NEW k, NEW v, v = CfgOf(p, Scope(k)).vertices[k.label],
         v.type = "REGULAR", v.op = "if"
  PROVE  ConcreteStep(p, {}, k) = AfterDecision(k, CfgOf(p, Scope(k)), v)
BY DEF ConcreteStep, AfterDecision

(* The configuration after a return.                                       *)
Returned(k) ==
  [k EXCEPT !.label = ReturnLabel(k), !.stack = SubSeq(@, 1, Len(@) - 1)]

(* and returns from the function block at its exit.                        *)
LEMMA StepReturns ==
  ASSUME NEW p, NEW k, NEW v, v = CfgOf(p, Scope(k)).vertices[k.label],
         v.type = "EXIT", CfgOf(p, Scope(k)).type = "FUNCTION_BLOCK"
  PROVE  ConcreteStep(p, {}, k) = Returned(k)
BY DEF ConcreteStep, Returned

(* The stack inside the called function block.                             *)
LEMMA StackOfCallee ==
  ASSUME NEW p, NEW l, NEW k, k.stack = CalleeStack(p, l)
  PROVE  Depth(k) = 2 /\ Scope(k) = CalleeScope(p, l) /\ Len(SubSeq(k.stack, 1, 1)) = 1
BY DEF CalleeStack, Depth, Scope

(* A configuration that is called at l runs in the block of the paths that *)
(* are explored for l.                                                     *)
LEMMA GraphOfCallee ==
  ASSUME NEW p, CodeOK(p), NEW l \in FirstCalls(p), NEW k, k.stack = CalleeStack(p, l),
         NEW d, CalledAt(p, l) = d.name
  PROVE  CfgOf(p, Scope(k)) = BlockOf(p, d) /\ Scope(k) = CalleeScope(p, l)
<1>1. Scope(k) = CalleeScope(p, l)
  BY StackOfCallee
<1>2. CfgOf(p, CalleeScope(p, l)) = p.cfgs[CalledAt(p, l)]
  BY CalleeOfCall
<1> QED BY <1>1, <1>2 DEF BlockOf

(* Both engines evaluate an expression alike.                              *)
LEMMA EvaluationAgrees ==
  ASSUME NEW p, NEW d, NEW env \in Environments(BlockOf(p, d)), NEW k, Scope(k) = d.scope,
         NEW e, IsExpression(e),
         \A i \in DOMAIN e.args :
           k.env[Flatten(d.scope, e.args[i])]
             = (env \in d.val[<<Flatten(d.scope, e.args[i]), d.ver[Flatten(d.scope, e.args[i])]>>])
  PROVE  Evaluate(k, e) = (env \in EnvironmentsOf(p, d, EncodeInPath(d, e)))
<1> DEFINE all == Environments(BlockOf(p, d))
           x(i) == Flatten(d.scope, e.args[i])
           args == [i \in DOMAIN e.args |-> d.val[<<x(i), d.ver[x(i)]>>]]
<1>1. EnvironmentsOf(p, d, EncodeInPath(d, e)) = Meaning(all, e.op, args)
  <2> DEFINE t == EncodeInPath(d, e)
  <2>1. t.op = e.op /\ DOMAIN t.args = DOMAIN e.args
        /\ \A i \in DOMAIN e.args : t.args[i] = <<x(i), d.ver[x(i)]>>
    BY DEF EncodeInPath
  <2> HIDE DEF t, x
  <2>2. [i \in DOMAIN t.args |-> d.val[t.args[i]]] = args
    BY <2>1
  <2>3. EnvironmentsOf(p, d, t) = Meaning(all, t.op, [i \in DOMAIN t.args |-> d.val[t.args[i]]])
    BY DEF EnvironmentsOf, BlockOf
  <2> QED BY <2>1, <2>2, <2>3, Zenon DEF t
<1>2. \A i \in DOMAIN e.args : args[i] = d.val[<<x(i), d.ver[x(i)]>>]
  OBVIOUS
<1>3. \A i \in DOMAIN e.args : k.env[Flatten(Scope(k), e.args[i])] = (env \in args[i])
  BY <1>2
<1> HIDE DEF args, x
<1>4. Evaluate(k, e) = (env \in Meaning(all, e.op, args))
  <2>1. CASE e.op = "true"
    BY <2>1 DEF Evaluate, Meaning
  <2>2. CASE e.op = "false"
    <3>1. Evaluate(k, e) = FALSE
      BY <2>2 DEF Evaluate
    <3>2. Meaning(all, e.op, args) = {}
      BY <2>2 DEF Meaning
    <3>3. (env \in Meaning(all, e.op, args)) = FALSE
      BY <3>2
    <3> QED BY <3>1, <3>3, Zenon
  <2>3. CASE e.op = "id"
    BY <1>3, <2>3 DEF Evaluate, Meaning, IsExpression
  <2>4. CASE e.op = "not"
    <3>1. Evaluate(k, e) = ~k.env[Flatten(Scope(k), e.args[1])]
      BY <2>4 DEF Evaluate
    <3>2. Meaning(all, e.op, args) = all \ args[1]
      BY <2>4 DEF Meaning
    <3>3. 1 \in DOMAIN e.args
      BY <2>4 DEF IsExpression
    <3>4. k.env[Flatten(Scope(k), e.args[1])] = (env \in args[1])
      BY <1>3, <3>3
    <3>5. (env \in all \ args[1]) = ~(env \in args[1])
      OBVIOUS
    <3> QED BY <3>1, <3>2, <3>4, <3>5, Zenon
  <2>5. CASE e.op = "and"
    <3>1. Evaluate(k, e) = (k.env[Flatten(Scope(k), e.args[1])] /\ k.env[Flatten(Scope(k), e.args[2])])
      BY <2>5 DEF Evaluate
    <3>2. Meaning(all, e.op, args) = args[1] \cap args[2]
      BY <2>5 DEF Meaning
    <3>3. 1 \in DOMAIN e.args /\ 2 \in DOMAIN e.args
      BY <2>5 DEF IsExpression
    <3>4. k.env[Flatten(Scope(k), e.args[1])] = (env \in args[1])
      BY <1>3, <3>3
    <3>5. k.env[Flatten(Scope(k), e.args[2])] = (env \in args[2])
      BY <1>3, <3>3
    <3>6. (env \in args[1] \cap args[2]) = (env \in args[1] /\ env \in args[2])
      OBVIOUS
    <3> QED BY <3>1, <3>2, <3>4, <3>5, <3>6, Zenon
  <2>6. CASE e.op = "or"
    <3>1. Evaluate(k, e) = (k.env[Flatten(Scope(k), e.args[1])] \/ k.env[Flatten(Scope(k), e.args[2])])
      BY <2>6 DEF Evaluate
    <3>2. Meaning(all, e.op, args) = args[1] \cup args[2]
      BY <2>6 DEF Meaning
    <3>3. 1 \in DOMAIN e.args /\ 2 \in DOMAIN e.args
      BY <2>6 DEF IsExpression
    <3>4. k.env[Flatten(Scope(k), e.args[1])] = (env \in args[1])
      BY <1>3, <3>3
    <3>5. k.env[Flatten(Scope(k), e.args[2])] = (env \in args[2])
      BY <1>3, <3>3
    <3>6. (env \in args[1] \cup args[2]) = (env \in args[1] \/ env \in args[2])
      OBVIOUS
    <3> QED BY <3>1, <3>2, <3>4, <3>5, <3>6, Zenon
  <2> QED BY <2>1, <2>2, <2>3, <2>4, <2>5, <2>6 DEF IsExpression, Operators
<1> QED BY <1>1, <1>4

-----------------------------------------------------------------------------
(* What a path becomes.                                                    *)

VertexOf(p, d) == BlockOf(p, d).vertices[d.label]

Passed(p, d) == Follow(d, SucceedingLabel(BlockOf(p, d), d.label))

Assigned(p, ver, d) ==
  LET x == Flatten(d.scope, VertexOf(p, d).var)
      name == <<x, ver[x] + 1>>
      term == EncodeInPath(d, VertexOf(p, d).rhs)
  IN  Follow([d EXCEPT !.ver[x] = ver[x] + 1,
                       !.hard = Append(@, [name |-> name, term |-> term]),
                       !.val = Emplace(@, {name}, [n \in {name} |-> EnvironmentsOf(p, d, term)])],
             Target(BlockOf(p, d), d.label, "INTRAPROCEDURAL"))

Assumed(p, d, sign) ==
  Follow([d EXCEPT !.assumptions = Append(@, <<EncodeInPath(d, VertexOf(p, d).cond), sign>>)],
         Target(BlockOf(p, d), d.label, IF sign THEN "TRUE_BRANCH" ELSE "FALSE_BRANCH"))

(* Path e is path d gone on to label m, in the same instance.              *)
GoesOn(d, e, m) ==
  /\ IsPath(e) /\ e.name = d.name /\ e.scope = d.scope
  /\ e.label = m /\ e.literals = Append(d.literals, m)

(* A path with other assumptions, assignments, versions and values.        *)
Changed(d, a, h, v, w) == [d EXCEPT !.assumptions = a, !.hard = h, !.ver = v, !.val = w]

(* The components of a path that has changed and gone on to label m.       *)
LEMMA FollowChanged ==
  ASSUME NEW d, IsPath(d), NEW m, NEW a, NEW h, NEW v, NEW w, NEW e,
         e = Follow(Changed(d, a, h, v, w), m)
  PROVE  GoesOn(d, e, m) /\ e.assumptions = a /\ e.hard = h /\ e.ver = v /\ e.val = w
<1>1. e = [name |-> d.name, scope |-> d.scope, label |-> m, literals |-> Append(d.literals, m),
           assumptions |-> a, hard |-> h, ver |-> v, val |-> w]
  BY DEF IsPath, Follow, Changed
<1> QED BY <1>1 DEF IsPath, GoesOn

(* What passing a vertex makes of a path.                                  *)
LEMMA PassedParts ==
  ASSUME NEW p, NEW d, IsPath(d), NEW e, e = Passed(p, d)
  PROVE  /\ GoesOn(d, e, SucceedingLabel(BlockOf(p, d), d.label))
         /\ e.assumptions = d.assumptions /\ e.hard = d.hard
         /\ e.ver = d.ver /\ e.val = d.val
<1> DEFINE m == SucceedingLabel(BlockOf(p, d), d.label)
<1>1. e = Follow(d, m)
  BY DEF Passed
<1> HIDE DEF m
<1>2. e = [name |-> d.name, scope |-> d.scope, label |-> m, literals |-> Append(d.literals, m),
           assumptions |-> d.assumptions, hard |-> d.hard, ver |-> d.ver, val |-> d.val]
  BY <1>1 DEF IsPath, Follow
<1>3. /\ GoesOn(d, e, m) /\ e.assumptions = d.assumptions /\ e.hard = d.hard
      /\ e.ver = d.ver /\ e.val = d.val
  BY <1>2 DEF IsPath, GoesOn
<1> QED BY <1>3 DEF m

(* Path e is path d with the assignment of term to variable x, under name. *)
Gains(p, ver, d, e, x, name, term) ==
  /\ GoesOn(d, e, Target(BlockOf(p, d), d.label, "INTRAPROCEDURAL"))
  /\ e.assumptions = d.assumptions
  /\ e.hard = Append(d.hard, [name |-> name, term |-> term])
  /\ e.ver = [d.ver EXCEPT ![x] = ver[x] + 1]
  /\ e.val = Emplace(d.val, {name}, [n \in {name} |-> EnvironmentsOf(p, d, term)])

(* What an assignment makes of a path.                                     *)
LEMMA AssignedParts ==
  ASSUME NEW p, NEW ver, NEW d, IsPath(d), NEW e, e = Assigned(p, ver, d),
         NEW x, x = Flatten(d.scope, VertexOf(p, d).var),
         NEW name, name = <<x, ver[x] + 1>>,
         NEW term, term = EncodeInPath(d, VertexOf(p, d).rhs)
  PROVE  Gains(p, ver, d, e, x, name, term)
<1> DEFINE m == Target(BlockOf(p, d), d.label, "INTRAPROCEDURAL")
           h == Append(d.hard, [name |-> name, term |-> term])
           v == [d.ver EXCEPT ![x] = ver[x] + 1]
           w == Emplace(d.val, {name}, [n \in {name} |-> EnvironmentsOf(p, d, term)])
           c == [d EXCEPT !.ver[x] = ver[x] + 1,
                          !.hard = Append(@, [name |-> name, term |-> term]),
                          !.val = Emplace(@, {name}, [n \in {name} |-> EnvironmentsOf(p, d, term)])]
<1>1. e = Follow(c, m)
  BY DEF Assigned
<1>2. c = Changed(d, d.assumptions, h, v, w)
  BY DEF IsPath, Changed
<1> HIDE DEF c, m, h, v, w
<1>3. /\ GoesOn(d, e, m) /\ e.assumptions = d.assumptions /\ e.hard = h
      /\ e.ver = v /\ e.val = w
  BY <1>1, <1>2, FollowChanged
<1> QED BY <1>3 DEF m, h, v, w, Gains

(* What assuming a sign of a decision makes of a path.                     *)
LEMMA AssumedParts ==
  ASSUME NEW p, NEW d, IsPath(d), NEW sign \in BOOLEAN, NEW e, e = Assumed(p, d, sign)
  PROVE  /\ GoesOn(d, e, Target(BlockOf(p, d), d.label,
                                IF sign THEN "TRUE_BRANCH" ELSE "FALSE_BRANCH"))
         /\ e.assumptions = Append(d.assumptions, <<EncodeInPath(d, VertexOf(p, d).cond), sign>>)
         /\ e.hard = d.hard /\ e.ver = d.ver /\ e.val = d.val
<1> DEFINE m == Target(BlockOf(p, d), d.label, IF sign THEN "TRUE_BRANCH" ELSE "FALSE_BRANCH")
           a == Append(d.assumptions, <<EncodeInPath(d, VertexOf(p, d).cond), sign>>)
           c == [d EXCEPT !.assumptions = Append(@, <<EncodeInPath(d, VertexOf(p, d).cond), sign>>)]
<1>1. e = Follow(c, m)
  BY DEF Assumed
<1>2. c = Changed(d, a, d.hard, d.ver, d.val)
  BY DEF IsPath, Changed
<1> HIDE DEF c, m, a
<1>3. /\ GoesOn(d, e, m) /\ e.assumptions = a /\ e.hard = d.hard
      /\ e.ver = d.ver /\ e.val = d.val
  BY <1>1, <1>2, FollowChanged
<1> QED BY <1>3 DEF m, a

(* It stays in the function block.                                         *)
LEMMA PlacedAfter ==
  ASSUME NEW p, NEW d, PathPlaced(p, d), NEW m \in DOMAIN BlockOf(p, d).vertices,
         NEW e, GoesOn(d, e, m)
  PROVE  /\ PathPlaced(p, e)
         /\ BlockOf(p, e) = BlockOf(p, d)
         /\ Len(d.literals) \in Nat \ {0} /\ DOMAIN d.literals = 1 .. Len(d.literals)
         /\ Len(e.literals) = Len(d.literals) + 1
         /\ DOMAIN e.literals = 1 .. Len(d.literals) + 1
         /\ \A i \in 1 .. Len(d.literals) : e.literals[i] = d.literals[i]
         /\ e.literals[Len(d.literals) + 1] = m
<1> DEFINE V == DOMAIN BlockOf(p, d).vertices
           n == Len(d.literals)
<1>1. d.literals \in Seq(V) /\ d.literals # <<>>
  BY DEF PathPlaced
<1>2. n \in Nat \ {0} /\ DOMAIN d.literals = 1 .. n
  <2> HIDE DEF V
  <2> QED BY <1>1
<1>3. BlockOf(p, e) = BlockOf(p, d)
  BY DEF GoesOn, BlockOf
<1>4. /\ e.literals \in Seq(V) /\ e.literals # <<>> /\ Len(e.literals) = n + 1
      /\ \A i \in 1 .. n : e.literals[i] = d.literals[i]
      /\ e.literals[n + 1] = m
  <2>1. m \in V /\ e.literals = Append(d.literals, m)
    BY DEF GoesOn
  <2> HIDE DEF V
  <2> QED BY <1>1, <2>1, AppendProperties
<1>5. DOMAIN e.literals = 1 .. n + 1
  <2> HIDE DEF V
  <2> QED BY <1>2, <1>4
<1>6. PathPlaced(p, e)
  BY <1>3, <1>4 DEF PathPlaced, GoesOn
<1> QED BY <1>2, <1>3, <1>4, <1>5, <1>6

(* A step of the simulation leads from the values of path d to those of e. *)
StepMatches(p, d, e) ==
  \A l \in FirstCalls(p) : CalledAt(p, l) = d.name => \A env \in Feasible(p, e) : \A k :
    (Mirrors(p, d, env, k) /\ k.label = d.label /\ k.stack = CalleeStack(p, l)) =>
      /\ Mirrors(p, e, env, ConcreteStep(p, {}, k))
      /\ ConcreteStep(p, {}, k).label = e.label
      /\ ConcreteStep(p, {}, k).stack = CalleeStack(p, l)

(* Then path e is the beginning of a run, as path d was.                   *)
LEMMA RunGoesOn ==
  ASSUME NEW p, NEW d, PathPlaced(p, d), FollowsRuns(p, d),
         NEW m \in DOMAIN BlockOf(p, d).vertices, NEW e, GoesOn(d, e, m),
         Feasible(p, e) \subseteq Feasible(p, d), StepMatches(p, d, e)
  PROVE  FollowsRuns(p, e)
<1> DEFINE n == Len(d.literals)
<1>1. /\ n \in Nat \ {0} /\ DOMAIN d.literals = 1 .. n
      /\ Len(e.literals) = n + 1 /\ DOMAIN e.literals = 1 .. n + 1
      /\ \A i \in 1 .. n : e.literals[i] = d.literals[i]
      /\ e.literals[n + 1] = m /\ d.literals[n] = d.label
  BY PlacedAfter DEF PathPlaced
<1>2. e.name = d.name /\ e.label = m
  BY DEF GoesOn
<1> SUFFICES ASSUME Len(e.literals) <= MaxSteps,
                    NEW l \in FirstCalls(p), CalledAt(p, l) = e.name,
                    NEW env \in Feasible(p, e),
                    NEW trace, trace = CalleeTrace(p, l, env)
             PROVE  /\ \A i \in DOMAIN e.literals :
                         trace[i].label = e.literals[i] /\ trace[i].stack = CalleeStack(p, l)
                    /\ Mirrors(p, e, env, trace[Len(e.literals)])
  BY DEF FollowsRuns
<1>3. MaxSteps \in Nat /\ n <= MaxSteps /\ n + 1 \in 1 .. MaxSteps /\ n + 1 # 1
  BY <1>1, MaxStepsAssumption
<1>4. /\ \A i \in 1 .. n : trace[i].label = d.literals[i] /\ trace[i].stack = CalleeStack(p, l)
      /\ Mirrors(p, d, env, trace[n])
  BY <1>1, <1>2, <1>3 DEF FollowsRuns
<1>5. trace[n].label = d.label /\ trace[n].stack = CalleeStack(p, l)
  BY <1>1, <1>4
<1>6. trace[n + 1] = ConcreteStep(p, {}, trace[n])
  <2>1. trace[n + 1] = NextInRun(p, trace[(n + 1) - 1])
    BY <1>3, TraceSteps
  <2>2. (n + 1) - 1 = n
    BY <1>1
  <2>3. Depth(trace[n]) = 2
    BY <1>5, StackOfCallee
  <2> QED BY <2>1, <2>2, <2>3 DEF NextInRun
<1>7. /\ Mirrors(p, e, env, trace[n + 1])
      /\ trace[n + 1].label = e.label /\ trace[n + 1].stack = CalleeStack(p, l)
  BY <1>2, <1>4, <1>5, <1>6 DEF StepMatches
<1>8. ASSUME NEW i \in 1 .. n + 1
      PROVE  trace[i].label = e.literals[i] /\ trace[i].stack = CalleeStack(p, l)
  <2>1. i \in 1 .. n \/ i = n + 1
    BY <1>1
  <2> QED BY <1>1, <1>2, <1>4, <1>7, <2>1
<1> QED BY <1>1, <1>7, <1>8

-----------------------------------------------------------------------------
(* Entry vertices and intermediate vertices.                               *)

(* What the invariant says of the assignments depends on these parts only. *)
SameStore(d, e) ==
  /\ e.name = d.name /\ e.scope = d.scope
  /\ e.hard = d.hard /\ e.ver = d.ver /\ e.val = d.val

(* So it is kept by a step that does not assign.                           *)
LEMMA StoreIsKept ==
  ASSUME NEW p, NEW ver, NEW d, VersionsOK(p, ver, d), ValuesOK(p, d),
         NEW e, SameStore(d, e)
  PROVE  /\ VersionsOK(p, ver, e) /\ ValuesOK(p, e)
         /\ BlockOf(p, e) = BlockOf(p, d) /\ OwnVariables(p, e) = OwnVariables(p, d)
         /\ \A t : EnvironmentsOf(p, e, t) = EnvironmentsOf(p, d, t)
         /\ \A i, n : IsCurrent(p, e, i, n) <=> IsCurrent(p, d, i, n)
         /\ \A env, k : Mirrors(p, e, env, k) <=> Mirrors(p, d, env, k)
<1>1. BlockOf(p, e) = BlockOf(p, d) /\ OwnVariables(p, e) = OwnVariables(p, d)
  BY DEF SameStore, BlockOf, OwnVariables
<1>2. \A t : EnvironmentsOf(p, e, t) = EnvironmentsOf(p, d, t)
  BY Zenon DEF SameStore, EnvironmentsOf
<1>3. \A i, n : IsCurrent(p, e, i, n) <=> IsCurrent(p, d, i, n)
  BY <1>1 DEF SameStore, IsCurrent
<1>4. \A env, k : Mirrors(p, e, env, k) <=> Mirrors(p, d, env, k)
  BY <1>1 DEF SameStore, Mirrors
<1>5. VersionsOK(p, ver, e)
  BY <1>1, <1>3 DEF SameStore, VersionsOK
<1>6. ValuesOK(p, e)
  BY <1>1, <1>2 DEF SameStore, ValuesOK, WrittenNames
<1> QED BY <1>1, <1>2, <1>3, <1>4, <1>5, <1>6

(* A path that has passed a vertex is a path of the engine still.          *)
LEMMA PassedOK ==
  ASSUME NEW p, CodeOK(p), NEW ver, NEW d, PathOK(p, ver, d),
         NEW v, v = VertexOf(p, d),
         v.type = "ENTRY" \/ (v.type = "REGULAR" /\ v.op = "none"),
         NEW e, e = Passed(p, d)
  PROVE  /\ PathOK(p, ver, e) /\ Feasible(p, e) = Feasible(p, d)
         /\ e.name = d.name /\ e.assumptions = d.assumptions
<1> DEFINE m == SucceedingLabel(BlockOf(p, d), d.label)
<1>1. /\ PathPlaced(p, d) /\ VersionsOK(p, ver, d) /\ TermsOK(p, d) /\ ValuesOK(p, d)
      /\ Feasible(p, d) # {} /\ FollowsRuns(p, d) /\ IsPath(d)
  BY DEF PathOK, PathPlaced
<1>2. /\ GoesOn(d, e, m) /\ SameStore(d, e) /\ e.assumptions = d.assumptions
      /\ e.name = d.name /\ e.label = m
  BY <1>1, PassedParts DEF GoesOn, SameStore
<1>3. PICK l0 \in FirstCalls(p) : d.name = CalledAt(p, l0) /\ d.scope = CalleeScope(p, l0)
  BY <1>1 DEF PathPlaced
<1>4. m \in DOMAIN BlockOf(p, d).vertices
  <2>1. d.label \in DOMAIN p.cfgs[CalledAt(p, l0)].vertices /\ BlockOf(p, d) = p.cfgs[CalledAt(p, l0)]
    BY <1>1, <1>3 DEF PathPlaced, BlockOf
  <2>2. v.op = "none" /\ v.type # "EXIT"
    BY <1>3, <2>1, VertexOfCallee DEF VertexOf
  <2> QED BY <1>3, <2>1, <2>2, VertexOfCallee DEF VertexOf
<1>5. /\ VersionsOK(p, ver, e) /\ ValuesOK(p, e) /\ BlockOf(p, e) = BlockOf(p, d)
      /\ \A t : EnvironmentsOf(p, e, t) = EnvironmentsOf(p, d, t)
      /\ \A i, n : IsCurrent(p, e, i, n) <=> IsCurrent(p, d, i, n)
      /\ \A env, k : Mirrors(p, e, env, k) <=> Mirrors(p, d, env, k)
  BY <1>1, <1>2, StoreIsKept
<1>6. TermsOK(p, e)
  BY <1>1, <1>2, <1>5 DEF TermsOK, SameStore
<1>7. Feasible(p, e) = Feasible(p, d)
  BY <1>2, <1>5 DEF Feasible
<1> HIDE DEF m
<1>8. StepMatches(p, d, e)
  <2> SUFFICES ASSUME NEW l \in FirstCalls(p), CalledAt(p, l) = d.name,
                      NEW env \in Feasible(p, e), NEW k,
                      Mirrors(p, d, env, k), k.label = d.label, k.stack = CalleeStack(p, l)
               PROVE  /\ Mirrors(p, e, env, ConcreteStep(p, {}, k))
                      /\ ConcreteStep(p, {}, k).label = e.label
                      /\ ConcreteStep(p, {}, k).stack = CalleeStack(p, l)
    BY DEF StepMatches
  <2>1. CfgOf(p, Scope(k)) = BlockOf(p, d)
    BY GraphOfCallee
  <2>a. v = CfgOf(p, Scope(k)).vertices[k.label]
    BY <2>1 DEF VertexOf
  <2>b. ConcreteStep(p, {}, k) = [k EXCEPT !.label = SucceedingLabel(CfgOf(p, Scope(k)), k.label)]
    BY <2>a, StepPasses
  <2>2. ConcreteStep(p, {}, k) = [k EXCEPT !.label = m]
    BY <2>1, <2>b DEF m
  <2>3. k = [cycle |-> k.cycle, label |-> k.label, stack |-> k.stack,
             env |-> k.env, taken |-> k.taken]
    BY DEF Mirrors
  <2> DEFINE c == ConcreteStep(p, {}, k)
  <2>4. c = [cycle |-> k.cycle, label |-> m, stack |-> k.stack,
             env |-> k.env, taken |-> k.taken]
    BY <2>2, <2>3
  <2> HIDE DEF c
  <2>5. Mirrors(p, d, env, c)
    BY <2>4 DEF Mirrors
  <2>6. c.label = e.label /\ c.stack = CalleeStack(p, l)
    BY <1>2, <2>4
  <2> QED BY <1>5, <2>5, <2>6 DEF c
<1>9. PathPlaced(p, e) /\ FollowsRuns(p, e)
  BY <1>1, <1>2, <1>4, <1>7, <1>8, PlacedAfter, RunGoesOn
<1> QED BY <1>1, <1>2, <1>5, <1>6, <1>7, <1>9 DEF PathOK

-----------------------------------------------------------------------------
(* The vertex of a path and the terms it encodes.                          *)

(* What the program is known to be like at the vertex of a path.           *)
LEMMA VertexOfPath ==
  ASSUME NEW p, CodeOK(p), NEW d, PathPlaced(p, d), NEW v, v = VertexOf(p, d),
         NEW g, g = BlockOf(p, d)
  PROVE  /\ v.type \in {"ENTRY", "REGULAR", "EXIT"}
         /\ v.type # "REGULAR" => v.op = "none"
         /\ v.op = "assign" =>
              /\ Target(g, d.label, "INTRAPROCEDURAL") \in DOMAIN g.vertices
              /\ Flatten(d.scope, v.var) \in OwnVariables(p, d)
              /\ IsExpression(v.rhs)
              /\ \A i \in DOMAIN v.rhs.args : Flatten(d.scope, v.rhs.args[i]) \in OwnVariables(p, d)
         /\ v.op = "if" =>
              /\ \A sign \in BOOLEAN :
                   Target(g, d.label, IF sign THEN "TRUE_BRANCH" ELSE "FALSE_BRANCH")
                     \in DOMAIN g.vertices
              /\ IsExpression(v.cond)
              /\ \A i \in DOMAIN v.cond.args : Flatten(d.scope, v.cond.args[i]) \in OwnVariables(p, d)
         /\ g.type = "FUNCTION_BLOCK"
         /\ OwnVariables(p, d) \subseteq FlattenedInterface(p)
         /\ d.name \in DOMAIN p.cfgs
         /\ \A l \in FirstCalls(p) : CalledAt(p, l) = d.name => CalleeScope(p, l) = d.scope
<1>1. PICK l \in FirstCalls(p) : d.name = CalledAt(p, l) /\ d.scope = CalleeScope(p, l)
  BY DEF PathPlaced
<1>2. /\ g = p.cfgs[CalledAt(p, l)] /\ d.label \in DOMAIN g.vertices /\ v = g.vertices[d.label]
      /\ OwnVariables(p, d) = {d.scope} \X g.vars
  BY <1>1 DEF PathPlaced, BlockOf, VertexOf, OwnVariables
<1>3. /\ v.type \in {"ENTRY", "REGULAR", "EXIT"}
      /\ v.type # "REGULAR" => v.op = "none"
  BY <1>1, <1>2, VertexOfCallee, SMTT(30)
<1>4. v.op = "assign" =>
        /\ Target(g, d.label, "INTRAPROCEDURAL") \in DOMAIN g.vertices
        /\ Flatten(d.scope, v.var) \in OwnVariables(p, d)
        /\ IsExpression(v.rhs)
        /\ \A i \in DOMAIN v.rhs.args : Flatten(d.scope, v.rhs.args[i]) \in OwnVariables(p, d)
  <2>1. ASSUME v.op = "assign"
        PROVE  /\ Target(g, d.label, "INTRAPROCEDURAL") \in DOMAIN g.vertices
               /\ Flatten(d.scope, v.var) \in {d.scope} \X g.vars
               /\ IsExpression(v.rhs)
               /\ \A i \in DOMAIN v.rhs.args : Flatten(d.scope, v.rhs.args[i]) \in {d.scope} \X g.vars
    BY <1>1, <1>2, <2>1, VertexOfCallee
  <2> QED BY <1>2, <2>1
<1>5. v.op = "if" =>
        /\ Target(g, d.label, "TRUE_BRANCH") \in DOMAIN g.vertices
        /\ Target(g, d.label, "FALSE_BRANCH") \in DOMAIN g.vertices
        /\ IsExpression(v.cond)
        /\ \A i \in DOMAIN v.cond.args : Flatten(d.scope, v.cond.args[i]) \in OwnVariables(p, d)
  BY <1>1, <1>2, VertexOfCallee, SMTT(30)
<1>6. g.type = "FUNCTION_BLOCK" /\ OwnVariables(p, d) \subseteq FlattenedInterface(p)
      /\ d.name \in DOMAIN p.cfgs
  BY <1>1, <1>2, CalleeOfCall
<1>7. \A k \in FirstCalls(p) : CalledAt(p, k) = d.name => CalleeScope(p, k) = d.scope
  BY <1>1, FirstCallsDiffer
<1> QED BY <1>3, <1>4, <1>5, <1>6, <1>7

(* The encoder makes terms over the current names of the path.             *)
LEMMA EncodedTerm ==
  ASSUME NEW p, NEW ver, NEW d, VersionsOK(p, ver, d), ValuesOK(p, d), NEW e,
         \A i \in DOMAIN e.args : Flatten(d.scope, e.args[i]) \in OwnVariables(p, d),
         NEW t, t = EncodeInPath(d, e)
  PROVE  /\ IsTerm(t)
         /\ \A n \in ArgumentsOf(t) : IsCurrent(p, d, Len(d.hard) + 1, n) /\ n \in DOMAIN d.val
<1>1. IsTerm(t)
  BY DEF EncodeInPath, IsTerm
<1>2. ASSUME NEW n \in ArgumentsOf(t)
      PROVE  IsCurrent(p, d, Len(d.hard) + 1, n) /\ n \in DOMAIN d.val
  <2>1. PICK i \in DOMAIN e.args :
          n = <<Flatten(d.scope, e.args[i]), d.ver[Flatten(d.scope, e.args[i])]>>
    BY DEF ArgumentsOf, EncodeInPath
  <2>2. IsCurrent(p, d, Len(d.hard) + 1, n)
    BY <2>1 DEF VersionsOK
  <2>3. Len(d.hard) + 1 \in 1 .. Len(d.hard) + 1
    BY VersionsGrow
  <2>4. IsName(p, d, n)
    BY <2>2, <2>3, NumberOfRead
  <2> QED BY <2>2, <2>4 DEF IsName, ValuesOK
<1> QED BY <1>1, <1>2

-----------------------------------------------------------------------------
(* Decisions.                                                              *)

(* Assuming a sign of a decision keeps the environments that evaluate the  *)
(* condition to that sign.                                                 *)
LEMMA AssumedFeasible ==
  ASSUME NEW p, CodeOK(p), NEW ver, NEW d, PathOK(p, ver, d),
         NEW v, v = VertexOf(p, d), v.op = "if", NEW sign \in BOOLEAN,
         NEW cond, cond = EncodeInPath(d, v.cond),
         NEW e, e = Assumed(p, d, sign)
  PROVE  /\ e.name = d.name /\ SameStore(d, e)
         /\ GoesOn(d, e, Target(BlockOf(p, d), d.label,
                                IF sign THEN "TRUE_BRANCH" ELSE "FALSE_BRANCH"))
         /\ IsSeq(e.assumptions)
         /\ DOMAIN e.assumptions = DOMAIN d.assumptions \cup {Len(d.assumptions) + 1}
         /\ \A i \in DOMAIN d.assumptions : e.assumptions[i] = d.assumptions[i]
         /\ e.assumptions[Len(d.assumptions) + 1] = <<cond, sign>>
         /\ Feasible(p, e) =
              {env \in Feasible(p, d) : (env \in EnvironmentsOf(p, d, cond)) = sign}
<1>1. /\ IsPath(d) /\ IsSeq(d.assumptions) /\ VersionsOK(p, ver, d) /\ ValuesOK(p, d)
  BY DEF PathOK, PathPlaced, TermsOK
<1>2. /\ GoesOn(d, e, Target(BlockOf(p, d), d.label,
                             IF sign THEN "TRUE_BRANCH" ELSE "FALSE_BRANCH"))
      /\ e.assumptions = Append(d.assumptions, <<cond, sign>>)
      /\ e.hard = d.hard /\ e.ver = d.ver /\ e.val = d.val
  BY <1>1, AssumedParts
<1>3. e.name = d.name /\ SameStore(d, e)
  BY <1>2 DEF GoesOn, SameStore
<1>4. /\ Len(d.assumptions) \in Nat /\ DOMAIN d.assumptions = 1 .. Len(d.assumptions)
      /\ IsSeq(e.assumptions)
      /\ DOMAIN e.assumptions = 1 .. Len(d.assumptions) + 1
      /\ \A i \in 1 .. Len(d.assumptions) : e.assumptions[i] = d.assumptions[i]
      /\ e.assumptions[Len(d.assumptions) + 1] = <<cond, sign>>
  BY <1>1, <1>2, SeqDomain, AppendSeq
<1>5. DOMAIN e.assumptions = DOMAIN d.assumptions \cup {Len(d.assumptions) + 1}
  BY <1>4
<1>6. BlockOf(p, e) = BlockOf(p, d) /\ \A t : EnvironmentsOf(p, e, t) = EnvironmentsOf(p, d, t)
  BY <1>1, <1>3, StoreIsKept
<1>7. Feasible(p, e) = {env \in Feasible(p, d) : (env \in EnvironmentsOf(p, d, cond)) = sign}
  <2>1. \A env : (\A i \in DOMAIN e.assumptions :
                    (env \in EnvironmentsOf(p, e, e.assumptions[i][1])) = e.assumptions[i][2])
                 <=> /\ \A i \in DOMAIN d.assumptions :
                          (env \in EnvironmentsOf(p, d, d.assumptions[i][1])) = d.assumptions[i][2]
                     /\ (env \in EnvironmentsOf(p, d, cond)) = sign
    <3>1. <<cond, sign>>[1] = cond /\ <<cond, sign>>[2] = sign
      OBVIOUS
    <3>2. ASSUME NEW env, NEW i \in DOMAIN d.assumptions
          PROVE  /\ e.assumptions[i] = d.assumptions[i]
                 /\ EnvironmentsOf(p, e, e.assumptions[i][1]) = EnvironmentsOf(p, d, d.assumptions[i][1])
      BY <1>4, <1>6
    <3>3. EnvironmentsOf(p, e, e.assumptions[Len(d.assumptions) + 1][1]) = EnvironmentsOf(p, d, cond)
      BY <1>4, <1>6, <3>1
    <3>4. e.assumptions[Len(d.assumptions) + 1][2] = sign
      BY <1>4, <3>1
    <3> QED BY <1>5, <3>2, <3>3, <3>4
  <2> QED BY <1>3, <2>1 DEF Feasible
<1> QED BY <1>2, <1>3, <1>4, <1>5, <1>7

(* A path that has taken a branch that some environment takes is a path of *)
(* the engine still.                                                       *)
LEMMA AssumedOK ==
  ASSUME NEW p, CodeOK(p), NEW ver, NEW d, PathOK(p, ver, d),
         NEW v, v = VertexOf(p, d), v.op = "if", NEW sign \in BOOLEAN,
         NEW e, e = Assumed(p, d, sign), Feasible(p, e) # {}
  PROVE  PathOK(p, ver, e)
<1> DEFINE m == Target(BlockOf(p, d), d.label, IF sign THEN "TRUE_BRANCH" ELSE "FALSE_BRANCH")
           cond == EncodeInPath(d, v.cond)
<1>1. /\ PathPlaced(p, d) /\ VersionsOK(p, ver, d) /\ TermsOK(p, d) /\ ValuesOK(p, d)
      /\ FollowsRuns(p, d) /\ IsPath(d)
  BY DEF PathOK, PathPlaced
<1>2. /\ e.name = d.name /\ SameStore(d, e) /\ GoesOn(d, e, m)
      /\ IsSeq(e.assumptions)
      /\ DOMAIN e.assumptions = DOMAIN d.assumptions \cup {Len(d.assumptions) + 1}
      /\ \A i \in DOMAIN d.assumptions : e.assumptions[i] = d.assumptions[i]
      /\ e.assumptions[Len(d.assumptions) + 1] = <<cond, sign>>
      /\ Feasible(p, e) = {env \in Feasible(p, d) : (env \in EnvironmentsOf(p, d, cond)) = sign}
  BY AssumedFeasible
<1>3. /\ m \in DOMAIN BlockOf(p, d).vertices /\ IsExpression(v.cond) /\ v.type = "REGULAR"
      /\ \A i \in DOMAIN v.cond.args : Flatten(d.scope, v.cond.args[i]) \in OwnVariables(p, d)
      /\ \A l \in FirstCalls(p) : CalledAt(p, l) = d.name => CalleeScope(p, l) = d.scope
  BY <1>1, VertexOfPath
<1>4. /\ IsTerm(cond) /\ ArgumentsOf(cond) \subseteq DOMAIN d.val
  BY <1>1, <1>3, EncodedTerm
<1> HIDE DEF m, cond
<1>5. /\ VersionsOK(p, ver, e) /\ ValuesOK(p, e) /\ BlockOf(p, e) = BlockOf(p, d)
      /\ \A i, n : IsCurrent(p, e, i, n) <=> IsCurrent(p, d, i, n)
      /\ \A env, k : Mirrors(p, e, env, k) <=> Mirrors(p, d, env, k)
  BY <1>1, <1>2, StoreIsKept
<1>6. TermsOK(p, e)
  <2>1. ASSUME NEW i \in DOMAIN e.assumptions
        PROVE  LET lit == e.assumptions[i]
               IN  /\ lit = <<lit[1], lit[2]>> /\ lit[2] \in BOOLEAN
                   /\ IsTerm(lit[1]) /\ ArgumentsOf(lit[1]) \subseteq DOMAIN e.val
    <3>1. CASE i \in DOMAIN d.assumptions
      BY <1>1, <1>2, <3>1 DEF TermsOK, SameStore
    <3>2. CASE i = Len(d.assumptions) + 1
      BY <1>2, <1>4, <3>2 DEF SameStore
    <3> QED BY <1>2, <3>1, <3>2
  <2> QED BY <1>1, <1>2, <1>5, <2>1 DEF TermsOK, SameStore
<1>8. StepMatches(p, d, e)
  <2> SUFFICES ASSUME NEW l \in FirstCalls(p), CalledAt(p, l) = d.name,
                      NEW env \in Feasible(p, e), NEW k,
                      Mirrors(p, d, env, k), k.label = d.label, k.stack = CalleeStack(p, l)
               PROVE  /\ Mirrors(p, e, env, ConcreteStep(p, {}, k))
                      /\ ConcreteStep(p, {}, k).label = e.label
                      /\ ConcreteStep(p, {}, k).stack = CalleeStack(p, l)
    BY DEF StepMatches
  <2>1. CfgOf(p, Scope(k)) = BlockOf(p, d) /\ Scope(k) = d.scope
    BY <1>3, GraphOfCallee
  <2>2. v = CfgOf(p, Scope(k)).vertices[k.label]
    BY <2>1 DEF VertexOf
  <2>3. Evaluate(k, v.cond) = sign
    <3>1. env \in Environments(BlockOf(p, d)) /\ (env \in EnvironmentsOf(p, d, cond)) = sign
      BY <1>2 DEF Feasible, BlockOf
    <3>2. \A i \in DOMAIN v.cond.args :
            k.env[Flatten(d.scope, v.cond.args[i])]
              = (env \in d.val[<<Flatten(d.scope, v.cond.args[i]),
                                 d.ver[Flatten(d.scope, v.cond.args[i])]>>])
      BY <1>3, Zenon DEF Mirrors
    <3>3. Evaluate(k, v.cond) = (env \in EnvironmentsOf(p, d, cond))
      BY <1>3, <2>1, <3>1, <3>2, EvaluationAgrees DEF cond
    <3> QED BY <3>1, <3>3
  <2>4. ConcreteStep(p, {}, k) = AfterDecision(k, CfgOf(p, Scope(k)), v)
    BY <1>3, <2>2, StepBranches
  <2>5. k = [cycle |-> k.cycle, label |-> k.label, stack |-> k.stack,
             env |-> k.env, taken |-> k.taken]
    BY DEF Mirrors
  <2> DEFINE c == ConcreteStep(p, {}, k)
  <2>6. c = [cycle |-> k.cycle, label |-> m, stack |-> k.stack,
             env |-> k.env, taken |-> k.taken \cup {<<k.label, Evaluate(k, v.cond)>>}]
    BY <2>1, <2>3, <2>4, <2>5 DEF m, AfterDecision
  <2> HIDE DEF c
  <2>7. Mirrors(p, d, env, c)
    BY <2>6 DEF Mirrors
  <2>8. c.label = e.label /\ c.stack = CalleeStack(p, l)
    BY <1>2, <2>6 DEF GoesOn
  <2> QED BY <1>5, <2>7, <2>8 DEF c
<1>9. PathPlaced(p, e) /\ FollowsRuns(p, e)
  <2>1. Feasible(p, e) \subseteq Feasible(p, d)
    BY <1>2
  <2> QED BY <1>1, <1>2, <1>3, <1>8, <2>1, PlacedAfter, RunGoesOn
<1> QED BY <1>5, <1>6, <1>9 DEF PathOK

-----------------------------------------------------------------------------
(* Assignments.                                                            *)

(* Path e is path d with one more assignment, of a name that is new.       *)
AddsAssignment(p, d, e, name, term) ==
  /\ e.name = d.name /\ e.scope = d.scope /\ e.assumptions = d.assumptions
  /\ Len(d.hard) \in Nat /\ DOMAIN d.hard = 1 .. Len(d.hard)
  /\ IsSeq(e.hard) /\ Len(e.hard) = Len(d.hard) + 1 /\ DOMAIN e.hard = 1 .. Len(d.hard) + 1
  /\ \A i \in 1 .. Len(d.hard) : e.hard[i] = d.hard[i]
  /\ e.hard[Len(d.hard) + 1] = [name |-> name, term |-> term]
  /\ DOMAIN e.val = DOMAIN d.val \cup {name} /\ name \notin DOMAIN d.val
  /\ \A n \in DOMAIN d.val : e.val[n] = d.val[n]
  /\ e.val[name] = EnvironmentsOf(p, d, term)
  /\ name = <<name[1], name[2]>> /\ name[1] \in OwnVariables(p, d) /\ name[2] \in Nat \ {0}
  /\ IsTerm(term)
  /\ \A n \in ArgumentsOf(term) : IsCurrent(p, d, Len(d.hard) + 1, n) /\ n \in DOMAIN d.val
  /\ DOMAIN e.ver = DOMAIN d.ver
  /\ \A y \in DOMAIN d.ver : e.ver[y] = IF y = name[1] THEN name[2] ELSE d.ver[y]

(* The version that is assigned is above all that the path has made, so    *)
(* that the name is new.                                                   *)
LEMMA AssignedAdds ==
  ASSUME NEW p, CodeOK(p), NEW ver \in [FlattenedInterface(p) -> Nat],
         NEW d, PathOK(p, ver, d), NEW v, v = VertexOf(p, d), v.op = "assign",
         NEW x, x = Flatten(d.scope, v.var),
         NEW e, e = Assigned(p, ver, d)
  PROVE  /\ AddsAssignment(p, d, e, <<x, ver[x] + 1>>, EncodeInPath(d, v.rhs))
         /\ GoesOn(d, e, Target(BlockOf(p, d), d.label, "INTRAPROCEDURAL"))
         /\ x \in FlattenedInterface(p)
<1> DEFINE name == <<x, ver[x] + 1>>
           term == EncodeInPath(d, v.rhs)
           new == [n \in {name} |-> EnvironmentsOf(p, d, term)]
<1>1. /\ PathPlaced(p, d) /\ VersionsOK(p, ver, d) /\ ValuesOK(p, d) /\ IsPath(d)
  BY DEF PathOK, PathPlaced
<1>2. /\ x \in OwnVariables(p, d) /\ OwnVariables(p, d) \subseteq FlattenedInterface(p)
      /\ \A i \in DOMAIN v.rhs.args : Flatten(d.scope, v.rhs.args[i]) \in OwnVariables(p, d)
  BY <1>1, VertexOfPath
<1>3. ver[x] \in Nat
  BY <1>2
<1>4. /\ GoesOn(d, e, Target(BlockOf(p, d), d.label, "INTRAPROCEDURAL"))
      /\ e.assumptions = d.assumptions
      /\ e.hard = Append(d.hard, [name |-> name, term |-> term])
      /\ e.ver = [d.ver EXCEPT ![x] = ver[x] + 1]
      /\ e.val = Emplace(d.val, {name}, new)
  <2>1. /\ IsPath(d) /\ x = Flatten(d.scope, VertexOf(p, d).var) /\ name = <<x, ver[x] + 1>>
        /\ term = EncodeInPath(d, VertexOf(p, d).rhs)
    BY <1>1
  <2> HIDE DEF name, term
  <2>2. Gains(p, ver, d, e, x, name, term)
    BY <2>1, AssignedParts
  <2> QED BY <2>2, Zenon DEF Gains
<1>5. e.name = d.name /\ e.scope = d.scope
  BY <1>4 DEF GoesOn
<1>6. IsSeq(d.hard)
  BY <1>1 DEF VersionsOK
<1>7. /\ Len(d.hard) \in Nat /\ DOMAIN d.hard = 1 .. Len(d.hard)
      /\ IsSeq(e.hard) /\ Len(e.hard) = Len(d.hard) + 1 /\ DOMAIN e.hard = 1 .. Len(d.hard) + 1
      /\ \A i \in 1 .. Len(d.hard) : e.hard[i] = d.hard[i]
      /\ e.hard[Len(d.hard) + 1] = [name |-> name, term |-> term]
  BY <1>4, <1>6, SeqDomain, AppendSeq
<1>8. name \notin DOMAIN d.val
  <2>1. name \notin OwnVariables(p, d) \X {0}
    BY <1>3
  <2>2. ASSUME name \in WrittenNames(d)
        PROVE  FALSE
    <3>1. PICK i \in DOMAIN d.hard : d.hard[i].name = name
      BY <2>2 DEF WrittenNames
    <3>2. d.hard[i].name[2] <= ver[d.hard[i].name[1]]
      BY <1>1 DEF VersionsOK
    <3>3. ver[x] + 1 <= ver[x]
      BY <3>1, <3>2
    <3> QED BY <1>3, <3>3
  <2> QED BY <1>1, <2>1, <2>2 DEF ValuesOK
<1>9. name = <<name[1], name[2]>> /\ name[1] = x /\ name[2] = ver[x] + 1 /\ name[2] \in Nat \ {0}
  BY <1>3
<1>10. /\ IsTerm(term)
       /\ \A n \in ArgumentsOf(term) : IsCurrent(p, d, Len(d.hard) + 1, n) /\ n \in DOMAIN d.val
  BY <1>1, <1>2, EncodedTerm
<1>11. new[name] = EnvironmentsOf(p, d, term)
  OBVIOUS
<1> HIDE DEF name, term, new
<1>12. /\ DOMAIN e.val = DOMAIN d.val \cup {name}
       /\ \A n \in DOMAIN d.val : e.val[n] = d.val[n]
       /\ e.val[name] = EnvironmentsOf(p, d, term)
  BY <1>4, <1>8, <1>11 DEF Emplace
<1>13. /\ DOMAIN e.ver = DOMAIN d.ver
       /\ \A y \in DOMAIN d.ver : e.ver[y] = IF y = name[1] THEN name[2] ELSE d.ver[y]
  BY <1>4, <1>9
<1>14. AddsAssignment(p, d, e, name, term)
  BY <1>2, <1>4, <1>5, <1>7, <1>8, <1>9, <1>10, <1>12, <1>13 DEF AddsAssignment
<1> QED BY <1>2, <1>4, <1>14 DEF name, term

(* The executor's versions after an assignment of x.                       *)
Incremented(ver, x) == [ver EXCEPT ![x] = @ + 1]

(* The invariant of the assignments, when the name is above all versions.  *)
LEMMA AssignedStore ==
  ASSUME NEW p, NEW ver \in [FlattenedInterface(p) -> Nat], NEW d,
         VersionsOK(p, ver, d), TermsOK(p, d), ValuesOK(p, d),
         OwnVariables(p, d) \subseteq FlattenedInterface(p),
         NEW x \in OwnVariables(p, d), NEW term, NEW e,
         AddsAssignment(p, d, e, <<x, ver[x] + 1>>, term),
         NEW ver2, ver2 = Incremented(ver, x)
  PROVE  /\ VersionsOK(p, ver2, e) /\ TermsOK(p, e) /\ ValuesOK(p, e)
         /\ Feasible(p, e) = Feasible(p, d)
         /\ OwnVariables(p, e) = OwnVariables(p, d)
         /\ \A y \in OwnVariables(p, d) \ {x} : <<y, d.ver[y]>> \in DOMAIN d.val
<1> DEFINE name == <<x, ver[x] + 1>>
           n == Len(d.hard)
           Own == OwnVariables(p, d)
<1>1. AddsAssignment(p, d, e, name, term)
  OBVIOUS
<1>2. name[1] = x /\ name[2] = ver[x] + 1 /\ ver[x] \in Nat /\ name \in Own \X (Nat \ {0})
  OBVIOUS
<1> HIDE DEF name
<1>3. /\ n \in Nat /\ DOMAIN d.hard = 1 .. n
      /\ IsSeq(e.hard) /\ Len(e.hard) = n + 1 /\ DOMAIN e.hard = 1 .. n + 1
      /\ \A i \in 1 .. n : e.hard[i] = d.hard[i]
      /\ e.hard[n + 1].name = name /\ e.hard[n + 1].term = term
      /\ e.hard[n + 1] = [name |-> e.hard[n + 1].name, term |-> e.hard[n + 1].term]
      /\ \A i \in 1 .. n + 1 : i \in 1 .. n \/ i = n + 1
  BY <1>1 DEF AddsAssignment
<1>4. /\ BlockOf(p, e) = BlockOf(p, d) /\ OwnVariables(p, e) = Own
      /\ e.name = d.name /\ e.assumptions = d.assumptions
  BY <1>1 DEF AddsAssignment, BlockOf, OwnVariables
<1>5. /\ DOMAIN e.val = DOMAIN d.val \cup {name}
      /\ \A m \in DOMAIN d.val : e.val[m] = d.val[m]
      /\ e.val[name] = EnvironmentsOf(p, d, term)
      /\ IsTerm(term)
      /\ \A m \in ArgumentsOf(term) : IsCurrent(p, d, n + 1, m) /\ m \in DOMAIN d.val
  BY <1>1 DEF AddsAssignment
<1>6. \A t : ArgumentsOf(t) \subseteq DOMAIN d.val => EnvironmentsOf(p, e, t) = EnvironmentsOf(p, d, t)
  <2> SUFFICES ASSUME NEW t, ArgumentsOf(t) \subseteq DOMAIN d.val
               PROVE  EnvironmentsOf(p, e, t) = EnvironmentsOf(p, d, t)
    OBVIOUS
  <2>1. [i \in DOMAIN t.args |-> e.val[t.args[i]]] = [i \in DOMAIN t.args |-> d.val[t.args[i]]]
    BY <1>5 DEF ArgumentsOf
  <2> QED BY <1>4, <2>1, Zenon DEF EnvironmentsOf
<1>7. ASSUME NEW i \in 1 .. n + 1, NEW m
      PROVE  IsCurrent(p, e, i, m) <=> IsCurrent(p, d, i, m)
  <2>1. \A j \in 1 .. i - 1 : j \in 1 .. n /\ e.hard[j] = d.hard[j]
    BY <1>3
  <2> QED BY <1>4, <2>1 DEF IsCurrent
<1>8. \A i \in 1 .. n :
        /\ d.hard[i].name \in Own \X (Nat \ {0}) /\ d.hard[i].name[2] <= ver[d.hard[i].name[1]]
        /\ d.hard[i].name[1] \in Own /\ d.hard[i].name[2] \in Nat
  BY <1>3 DEF VersionsOK
<1>9. \A y \in Own : y \in FlattenedInterface(p) /\ ver[y] \in Nat
        /\ ver2[y] = IF y = x THEN ver[x] + 1 ELSE ver[y]
  BY DEF Incremented
<1>10. VersionsOK(p, ver2, e)
  <2>1. ASSUME NEW i \in DOMAIN e.hard
        PROVE  e.hard[i].name \in Own \X (Nat \ {0}) /\ e.hard[i].name[2] <= ver2[e.hard[i].name[1]]
    <3>1. CASE i \in 1 .. n
      <4>1. e.hard[i] = d.hard[i]
        BY <1>3, <3>1
      <4> QED BY <1>8, <1>9, <3>1, <4>1
    <3>2. CASE i = n + 1
      BY <1>2, <1>3, <1>9, <3>2
    <3> QED BY <1>3, <3>1, <3>2
  <2>2. ASSUME NEW i \in DOMAIN e.hard, NEW j \in DOMAIN e.hard,
               i < j, e.hard[i].name[1] = e.hard[j].name[1]
        PROVE  e.hard[i].name[2] < e.hard[j].name[2]
    <3>1. i \in 1 .. n /\ e.hard[i] = d.hard[i] /\ i \in DOMAIN d.hard
      BY <1>3, <2>2, SMTT(30)
    <3>2. CASE j \in 1 .. n
      <4>1. e.hard[j] = d.hard[j] /\ j \in DOMAIN d.hard
        BY <1>3, <3>2
      <4> QED BY <2>2, <3>1, <4>1 DEF VersionsOK
    <3>3. CASE j = n + 1
      <4>1. d.hard[i].name[1] = x
        BY <1>2, <1>3, <2>2, <3>1, <3>3
      <4>2. d.hard[i].name[2] <= ver[x] /\ d.hard[i].name[2] \in Nat
        BY <1>8, <3>1, <4>1
      <4>3. e.hard[i].name[2] = d.hard[i].name[2]
        BY <3>1
      <4>4. e.hard[j].name[2] = ver[x] + 1 /\ ver[x] \in Nat
        BY <1>2, <1>3, <1>9, <3>3
      <4> QED BY <4>2, <4>3, <4>4
    <3> QED BY <1>3, <3>2, <3>3
  <2>3. DOMAIN e.ver = Own
    BY <1>1 DEF AddsAssignment, VersionsOK
  <2>4. ASSUME NEW y \in Own
        PROVE  IsCurrent(p, e, n + 2, <<y, e.ver[y]>>)
    <3>1. e.ver[y] = IF y = x THEN ver[x] + 1 ELSE d.ver[y]
      BY <1>1, <1>2 DEF AddsAssignment, VersionsOK
    <3>2. \A j \in 1 .. (n + 2) - 1 : j \in 1 .. n \/ j = n + 1
      BY <1>3
    <3>3. \A j \in 1 .. n : j \in 1 .. (n + 1) - 1 /\ j \in 1 .. (n + 2) - 1
      BY <1>3
    <3>4. n + 1 \in 1 .. (n + 2) - 1
      BY <1>3
    <3>5. CASE y = x
      <4>1. <<y, e.ver[y]>> = name
        BY <3>1, <3>5 DEF name
      <4>2. name \in Own \X Nat
        BY <1>2
      <4>3. ASSUME NEW j \in 1 .. (n + 2) - 1, e.hard[j].name[1] = name[1]
            PROVE  e.hard[j].name[2] <= name[2]
        <5>1. CASE j \in 1 .. n
          <6>1. e.hard[j] = d.hard[j] /\ d.hard[j].name[1] = x
            BY <1>2, <1>3, <4>3, <5>1
          <6>2. d.hard[j].name[2] <= ver[x] /\ d.hard[j].name[2] \in Nat
            BY <1>8, <5>1, <6>1
          <6> QED BY <1>2, <6>1, <6>2
        <5>2. CASE j = n + 1
          BY <1>2, <1>3, <5>2
        <5> QED BY <3>2, <5>1, <5>2
      <4>4. \E j \in 1 .. (n + 2) - 1 : e.hard[j].name = name
        BY <1>3, <3>4
      <4> QED BY <1>4, <4>1, <4>2, <4>3, <4>4 DEF IsCurrent
    <3>6. CASE y # x
      <4> DEFINE m == <<y, d.ver[y]>>
      <4>1. <<y, e.ver[y]>> = m /\ m[1] = y
        BY <3>1, <3>6
      <4>2. IsCurrent(p, d, n + 1, m)
        BY DEF VersionsOK
      <4> HIDE DEF m
      <4>3. m \in Own \X Nat
        BY <4>2 DEF IsCurrent
      <4>4. ASSUME NEW j \in 1 .. (n + 2) - 1, e.hard[j].name[1] = m[1]
            PROVE  e.hard[j].name[2] <= m[2]
        <5>1. j # n + 1
          BY <1>2, <1>3, <3>6, <4>1, <4>4
        <5>2. j \in 1 .. n /\ e.hard[j] = d.hard[j]
          BY <1>3, <3>2, <5>1
        <5> QED BY <3>3, <4>2, <4>4, <5>2 DEF IsCurrent
      <4>5. m[2] = 0 \/ \E j \in 1 .. (n + 2) - 1 : e.hard[j].name = m
        <5>1. \A j \in 1 .. (n + 1) - 1 : j \in 1 .. (n + 2) - 1 /\ e.hard[j] = d.hard[j]
          BY <1>3
        <5> QED BY <4>2, <5>1 DEF IsCurrent
      <4> QED BY <1>4, <4>1, <4>3, <4>4, <4>5 DEF IsCurrent
    <3> QED BY <3>5, <3>6
  <2>5. Len(e.hard) + 1 = n + 2
    BY <1>3
  <2> QED BY <1>3, <1>4, <2>1, <2>2, <2>3, <2>4, <2>5 DEF VersionsOK
<1>11. TermsOK(p, e)
  <2>1. ASSUME NEW i \in DOMAIN e.hard
        PROVE  /\ e.hard[i] = [name |-> e.hard[i].name, term |-> e.hard[i].term]
               /\ IsTerm(e.hard[i].term)
               /\ \A m \in ArgumentsOf(e.hard[i].term) : IsCurrent(p, e, i, m)
    <3>1. CASE i \in 1 .. n
      <4>1. e.hard[i] = d.hard[i] /\ i \in DOMAIN d.hard /\ i \in 1 .. n + 1
        BY <1>3, <3>1
      <4> QED BY <1>7, <4>1 DEF TermsOK
    <3>2. CASE i = n + 1
      <4>1. i \in 1 .. n + 1 /\ e.hard[i].term = term
        BY <1>3, <3>2
      <4>2. \A m \in ArgumentsOf(term) : IsCurrent(p, e, i, m)
        BY <1>5, <1>7, <3>2, <4>1
      <4> QED BY <1>3, <1>5, <3>2, <4>1, <4>2
    <3> QED BY <1>3, <3>1, <3>2
  <2>2. \A i \in DOMAIN e.assumptions :
          LET lit == e.assumptions[i]
          IN  /\ lit = <<lit[1], lit[2]>> /\ lit[2] \in BOOLEAN
              /\ IsTerm(lit[1]) /\ ArgumentsOf(lit[1]) \subseteq DOMAIN e.val
    BY <1>4, <1>5 DEF TermsOK
  <2>3. IsSeq(e.assumptions)
    BY <1>4 DEF TermsOK
  <2> QED BY <2>1, <2>2, <2>3 DEF TermsOK
<1>12. WrittenNames(e) = WrittenNames(d) \cup {name}
  <2>1. \A i \in DOMAIN d.hard : i \in DOMAIN e.hard /\ e.hard[i].name = d.hard[i].name
    BY <1>3
  <2>2. n + 1 \in DOMAIN e.hard /\ e.hard[n + 1].name = name
    BY <1>3
  <2>3. \A i \in DOMAIN e.hard : i \in DOMAIN d.hard \/ i = n + 1
    BY <1>3
  <2> QED BY <2>1, <2>2, <2>3 DEF WrittenNames
<1>13. ValuesOK(p, e)
  <2>1. DOMAIN e.val = (Own \X {0}) \cup WrittenNames(e)
    BY <1>5, <1>12 DEF ValuesOK
  <2>2. ASSUME NEW y \in Own
        PROVE  e.val[<<y, 0>>] = {env \in Environments(BlockOf(p, e)) : y[2] \in env}
    <3>1. <<y, 0>> \in DOMAIN d.val /\ d.val[<<y, 0>>] = {env \in Environments(BlockOf(p, d)) : y[2] \in env}
      BY DEF ValuesOK
    <3> QED BY <1>4, <1>5, <3>1
  <2>3. ASSUME NEW i \in DOMAIN e.hard
        PROVE  e.val[e.hard[i].name] = EnvironmentsOf(p, e, e.hard[i].term)
    <3>1. CASE i \in 1 .. n
      <4>1. e.hard[i] = d.hard[i] /\ i \in DOMAIN d.hard /\ i \in 1 .. n + 1
        BY <1>3, <3>1
      <4>2. d.hard[i].name \in DOMAIN d.val /\ d.val[d.hard[i].name] = EnvironmentsOf(p, d, d.hard[i].term)
        BY <4>1 DEF ValuesOK, WrittenNames
      <4>3. ArgumentsOf(d.hard[i].term) \subseteq DOMAIN d.val
        <5>1. \A m \in ArgumentsOf(d.hard[i].term) : IsCurrent(p, d, i, m)
          BY <4>1 DEF TermsOK
        <5>2. \A m \in ArgumentsOf(d.hard[i].term) : IsName(p, d, m)
          BY <4>1, <5>1, NumberOfRead
        <5> QED BY <5>2 DEF IsName, ValuesOK
      <4> QED BY <1>5, <1>6, <4>1, <4>2, <4>3
    <3>2. CASE i = n + 1
      BY <1>3, <1>5, <1>6, <3>2
    <3> QED BY <1>3, <3>1, <3>2
  <2> QED BY <1>4, <2>1, <2>2, <2>3 DEF ValuesOK
<1>14. Feasible(p, e) = Feasible(p, d)
  <2>1. \A i \in DOMAIN d.assumptions :
          EnvironmentsOf(p, e, d.assumptions[i][1]) = EnvironmentsOf(p, d, d.assumptions[i][1])
    BY <1>6 DEF TermsOK
  <2> QED BY <1>4, <2>1 DEF Feasible
<1>15. \A y \in Own : <<y, d.ver[y]>> \in DOMAIN d.val
  <2> SUFFICES ASSUME NEW y \in Own, NEW m, m = <<y, d.ver[y]>> PROVE m \in DOMAIN d.val
    OBVIOUS
  <2>1. IsCurrent(p, d, n + 1, m)
    BY DEF VersionsOK
  <2>2. n + 1 \in 1 .. n + 1
    BY <1>3
  <2>3. IsName(p, d, m)
    BY <2>1, <2>2, NumberOfRead
  <2> QED BY <2>3 DEF IsName, ValuesOK
<1> QED BY <1>4, <1>10, <1>11, <1>13, <1>14, <1>15


(* A path that has made an assignment is a path of the engine still.       *)
LEMMA AssignedOK ==
  ASSUME NEW p, CodeOK(p), NEW ver \in [FlattenedInterface(p) -> Nat],
         NEW d, PathOK(p, ver, d), NEW v, v = VertexOf(p, d), v.op = "assign",
         NEW x, x = Flatten(d.scope, v.var),
         NEW e, e = Assigned(p, ver, d),
         NEW ver2, ver2 = Incremented(ver, x)
  PROVE  /\ PathOK(p, ver2, e) /\ Feasible(p, e) = Feasible(p, d)
         /\ e.name = d.name /\ e.assumptions = d.assumptions
<1> DEFINE m == Target(BlockOf(p, d), d.label, "INTRAPROCEDURAL")
           name == <<x, ver[x] + 1>>
           term == EncodeInPath(d, v.rhs)
<1>1. /\ PathPlaced(p, d) /\ VersionsOK(p, ver, d) /\ TermsOK(p, d) /\ ValuesOK(p, d)
      /\ Feasible(p, d) # {} /\ FollowsRuns(p, d)
  BY DEF PathOK
<1>2. /\ m \in DOMAIN BlockOf(p, d).vertices /\ IsExpression(v.rhs) /\ v.type = "REGULAR"
      /\ x \in OwnVariables(p, d) /\ OwnVariables(p, d) \subseteq FlattenedInterface(p)
      /\ \A i \in DOMAIN v.rhs.args : Flatten(d.scope, v.rhs.args[i]) \in OwnVariables(p, d)
      /\ \A l \in FirstCalls(p) : CalledAt(p, l) = d.name => CalleeScope(p, l) = d.scope
  BY <1>1, VertexOfPath
<1>3. AddsAssignment(p, d, e, name, term) /\ GoesOn(d, e, m)
  BY AssignedAdds
<1>4. /\ VersionsOK(p, ver2, e) /\ TermsOK(p, e) /\ ValuesOK(p, e)
      /\ Feasible(p, e) = Feasible(p, d) /\ OwnVariables(p, e) = OwnVariables(p, d)
      /\ \A y \in OwnVariables(p, d) \ {x} : <<y, d.ver[y]>> \in DOMAIN d.val
  <2>1. AddsAssignment(p, d, e, <<x, ver[x] + 1>>, term)
    BY <1>3
  <2> HIDE DEF m, term, name
  <2> QED BY <1>1, <1>2, <2>1, AssignedStore
<1>5. /\ e.name = d.name /\ e.label = m /\ e.assumptions = d.assumptions
      /\ e.val[name] = EnvironmentsOf(p, d, term)
      /\ \A n \in DOMAIN d.val : e.val[n] = d.val[n]
  <2> HIDE DEF m, term, name
  <2> QED BY <1>3 DEF AddsAssignment, GoesOn
<1>6. \A y \in OwnVariables(p, d) : e.ver[y] = IF y = x THEN ver[x] + 1 ELSE d.ver[y]
  <2>1. name[1] = x /\ name[2] = ver[x] + 1
    OBVIOUS
  <2> HIDE DEF m, term, name
  <2> QED BY <1>1, <1>3, <2>1 DEF AddsAssignment, VersionsOK
<1> HIDE DEF m
<1>7. StepMatches(p, d, e)
  <2> SUFFICES ASSUME NEW l \in FirstCalls(p), CalledAt(p, l) = d.name,
                      NEW env \in Feasible(p, e), NEW k,
                      Mirrors(p, d, env, k), k.label = d.label, k.stack = CalleeStack(p, l)
               PROVE  /\ Mirrors(p, e, env, ConcreteStep(p, {}, k))
                      /\ ConcreteStep(p, {}, k).label = e.label
                      /\ ConcreteStep(p, {}, k).stack = CalleeStack(p, l)
    BY DEF StepMatches
  <2>1. CfgOf(p, Scope(k)) = BlockOf(p, d) /\ Scope(k) = d.scope
    BY <1>2, GraphOfCallee
  <2>2. v = CfgOf(p, Scope(k)).vertices[k.label]
    BY <2>1 DEF VertexOf
  <2>3. Evaluate(k, v.rhs) = (env \in EnvironmentsOf(p, d, term))
    <3>1. env \in Environments(BlockOf(p, d))
      BY <1>4 DEF Feasible, BlockOf
    <3>2. \A i \in DOMAIN v.rhs.args :
            k.env[Flatten(d.scope, v.rhs.args[i])]
              = (env \in d.val[<<Flatten(d.scope, v.rhs.args[i]),
                                 d.ver[Flatten(d.scope, v.rhs.args[i])]>>])
      BY <1>2, Zenon DEF Mirrors
    <3> QED BY <1>2, <2>1, <3>1, <3>2, EvaluationAgrees
  <2>4. ConcreteStep(p, {}, k) = AfterAssignment(k, CfgOf(p, Scope(k)), v)
    BY <1>2, <2>2, StepAssigns
  <2>5. /\ k = [cycle |-> k.cycle, label |-> k.label, stack |-> k.stack,
                env |-> k.env, taken |-> k.taken]
        /\ DOMAIN k.env = FlattenedInterface(p)
    BY DEF Mirrors
  <2> DEFINE c == ConcreteStep(p, {}, k)
             new == [k.env EXCEPT ![x] = Evaluate(k, v.rhs)]
  <2>6. c = [cycle |-> k.cycle, label |-> m, stack |-> k.stack,
             env |-> new, taken |-> k.taken]
    BY <2>1, <2>4, <2>5 DEF m, AfterAssignment
  <2> DEFINE final(y) == (env \in e.val[<<y, e.ver[y]>>])
  <2>7. DOMAIN new = FlattenedInterface(p)
    BY <2>5
  <2>8. new[x] = final(x)
    <3>1. new[x] = Evaluate(k, v.rhs)
      BY <1>2, <2>5
    <3>2. <<x, e.ver[x]>> = name
      BY <1>2, <1>6
    <3>3. e.val[<<x, e.ver[x]>>] = EnvironmentsOf(p, d, term)
      BY <1>5, <3>2
    <3> HIDE DEF new, term, name
    <3> QED BY <2>3, <3>1, <3>3, Zenon
  <2>9. ASSUME NEW y \in OwnVariables(p, d), y # x
        PROVE  new[y] = final(y)
    <3>1. new[y] = k.env[y]
      BY <1>2, <2>5, <2>9
    <3>2. k.env[y] = (env \in d.val[<<y, d.ver[y]>>])
      BY Zenon DEF Mirrors
    <3>3. e.ver[y] = d.ver[y]
      BY <1>6, <2>9
    <3>4. e.val[<<y, e.ver[y]>>] = d.val[<<y, d.ver[y]>>]
      <4> HIDE DEF name, term, new
      <4>1. <<y, d.ver[y]>> \in DOMAIN d.val
        BY <1>4, <2>9
      <4> QED BY <1>5, <3>3, <4>1
    <3> HIDE DEF new, term, name
    <3> QED BY <3>1, <3>2, <3>4, Zenon
  <2>10. \A y \in OwnVariables(p, e) : new[y] = final(y)
    <3> HIDE DEF new, final
    <3> QED BY <1>4, <2>8, <2>9, Zenon
  <2> HIDE DEF c, new
  <2>11. /\ c = [cycle |-> c.cycle, label |-> c.label, stack |-> c.stack,
                 env |-> c.env, taken |-> c.taken]
         /\ c.env = new /\ c.label = m /\ c.stack = k.stack
    BY <2>6
  <2>12. Mirrors(p, e, env, c)
    BY <2>7, <2>10, <2>11, Zenon DEF Mirrors
  <2>13. c.label = e.label /\ c.stack = CalleeStack(p, l)
    BY <1>5, <2>11
  <2> QED BY <2>12, <2>13 DEF c
<1>8. PathPlaced(p, e) /\ FollowsRuns(p, e)
  <2>1. Feasible(p, e) \subseteq Feasible(p, d)
    BY <1>4
  <2> HIDE DEF name, term
  <2> QED BY <1>1, <1>2, <1>3, <1>7, <2>1, PlacedAfter, RunGoesOn
<1> HIDE DEF name, term
<1> QED BY <1>1, <1>4, <1>5, <1>8 DEF PathOK

(* The other paths do not mind that the versions have grown.               *)
LEMMA MoreVersions ==
  ASSUME NEW p, NEW ver \in [FlattenedInterface(p) -> Nat],
         NEW ver2 \in [FlattenedInterface(p) -> Nat],
         \A x \in FlattenedInterface(p) : ver[x] <= ver2[x],
         NEW d, PathOK(p, ver, d), OwnVariables(p, d) \subseteq FlattenedInterface(p)
  PROVE  PathOK(p, ver2, d)
<1>1. VersionsOK(p, ver, d)
  BY DEF PathOK
<1>2. ASSUME NEW i \in DOMAIN d.hard
      PROVE  LET n == d.hard[i].name
             IN  n \in OwnVariables(p, d) \X (Nat \ {0}) /\ n[2] <= ver2[n[1]]
  <2> DEFINE n == d.hard[i].name
  <2>1. n \in OwnVariables(p, d) \X (Nat \ {0}) /\ n[2] <= ver[n[1]]
    BY <1>1 DEF VersionsOK
  <2> HIDE DEF n
  <2>2. n[1] \in FlattenedInterface(p) /\ n[2] \in Nat
    BY <2>1
  <2>3. ver[n[1]] \in Nat /\ ver2[n[1]] \in Nat /\ ver[n[1]] <= ver2[n[1]]
    BY <2>2
  <2>4. n[2] <= ver2[n[1]]
    BY <2>1, <2>2, <2>3
  <2> QED BY <2>1, <2>4 DEF n
<1>3. VersionsOK(p, ver2, d)
  BY <1>1, <1>2 DEF VersionsOK
<1> QED BY <1>3 DEF PathOK


-----------------------------------------------------------------------------
(* Paths that have come to the exit vertex.                                *)

(* The run returns after the last label of the path, and only there.       *)
LEMMA RunReturns ==
  ASSUME NEW p, CodeOK(p), NEW d, PathPlaced(p, d), FollowsRuns(p, d),
         VertexOf(p, d).type = "EXIT", Len(d.literals) < MaxSteps,
         NEW l \in FirstCalls(p), CalledAt(p, l) = d.name,
         NEW env \in Feasible(p, d), NEW trace, trace = CalleeTrace(p, l, env)
  PROVE  /\ Len(d.literals) \in 1 .. MaxSteps
         /\ Len(d.literals) = CHOOSE i \in 1 .. MaxSteps :
              Depth(trace[i]) = 2 /\ Depth(trace[i + 1]) = 1
<1> DEFINE n == Len(d.literals)
           Last(i) == Depth(trace[i]) = 2 /\ Depth(trace[i + 1]) = 1
<1>1. /\ n \in Nat \ {0} /\ DOMAIN d.literals = 1 .. n
      /\ MaxSteps \in Nat /\ n \in 1 .. MaxSteps /\ n + 1 \in 1 .. MaxSteps /\ n + 1 # 1
      /\ d.literals[n] = d.label
  <2> DEFINE V == DOMAIN BlockOf(p, d).vertices
  <2>1. d.literals \in Seq(V) /\ d.literals # <<>> /\ d.literals[n] = d.label
    BY DEF PathPlaced
  <2> HIDE DEF V
  <2>2. n \in Nat \ {0} /\ DOMAIN d.literals = 1 .. n
    BY <2>1
  <2>3. MaxSteps \in Nat /\ n < MaxSteps
    BY MaxStepsAssumption
  <2> HIDE DEF n
  <2> QED BY <2>1, <2>2, <2>3
<1>2. \A i \in 1 .. n : trace[i].label = d.literals[i] /\ trace[i].stack = CalleeStack(p, l)
  BY <1>1 DEF FollowsRuns
<1>3. \A i \in 1 .. n : Depth(trace[i]) = 2
  BY <1>2, StackOfCallee
<1>4. Depth(trace[n + 1]) = 1
  <2> DEFINE k == trace[n]
  <2>1. k.label = d.label /\ k.stack = CalleeStack(p, l)
    BY <1>1, <1>2
  <2>2. Depth(k) = 2
    BY <1>1, <1>3
  <2>3. trace[n + 1] = ConcreteStep(p, {}, k)
    <3>1. trace[n + 1] = NextInRun(p, trace[(n + 1) - 1])
      BY <1>1, TraceSteps
    <3>2. (n + 1) - 1 = n
      BY <1>1
    <3> QED BY <2>2, <3>1, <3>2 DEF NextInRun
  <2> HIDE DEF k, n
  <2>4. CfgOf(p, Scope(k)) = BlockOf(p, d) /\ BlockOf(p, d).type = "FUNCTION_BLOCK"
    BY <2>1, GraphOfCallee, VertexOfPath
  <2>5. ConcreteStep(p, {}, k) = Returned(k)
    <3> DEFINE v == VertexOf(p, d)
    <3>1. v = CfgOf(p, Scope(k)).vertices[k.label] /\ v.type = "EXIT"
      BY <2>1, <2>4 DEF VertexOf
    <3>2. CfgOf(p, Scope(k)).type = "FUNCTION_BLOCK"
      BY <2>4
    <3> HIDE DEF v
    <3> QED BY <3>1, <3>2, StepReturns
  <2>6. Len(SubSeq(k.stack, 1, 1)) = 1 /\ Len(k.stack) - 1 = 1
    BY <2>1, <2>2, StackOfCallee DEF Depth
  <2>7. ConcreteStep(p, {}, k).stack = SubSeq(k.stack, 1, 1)
    <3>1. k = [cycle |-> k.cycle, label |-> k.label, stack |-> k.stack,
               env |-> k.env, taken |-> k.taken]
      BY <1>1 DEF FollowsRuns, Mirrors, k, n
    <3> QED BY <2>5, <2>6, <3>1 DEF Returned
  <2> QED BY <2>3, <2>6, <2>7 DEF Depth
<1> DEFINE Back == {i \in 1 .. MaxSteps : i > n /\ Depth(trace[i]) # 1}
<1>5. Back = {}
  <2> SUFFICES ASSUME Back # {} PROVE FALSE
    OBVIOUS
  <2>1. PICK i \in Back : \A j \in Back : ~(j < i)
    <3>1. Back \in SUBSET Nat
      BY <1>1
    <3> HIDE DEF Back
    <3> QED BY <3>1, LeastNumber
  <2>2. i \in 1 .. MaxSteps /\ i > n /\ Depth(trace[i]) # 1
    OBVIOUS
  <2>3. i # n + 1
    BY <1>4, <2>2
  <2>4. i - 1 \in 1 .. MaxSteps /\ i - 1 > n /\ i - 1 < i /\ i # 1
    BY <1>1, <2>2, <2>3
  <2>5. Depth(trace[i - 1]) = 1
    BY <2>1, <2>4
  <2>6. trace[i] = NextInRun(p, trace[i - 1])
    BY <2>2, <2>4, TraceSteps
  <2> QED BY <2>2, <2>5, <2>6 DEF NextInRun
<1>6. Last(n)
  BY <1>1, <1>3, <1>4
<1>7. \A i \in 1 .. MaxSteps : Last(i) => i = n
  <2> SUFFICES ASSUME NEW i \in 1 .. MaxSteps, Last(i) PROVE i = n
    OBVIOUS
  <2>1. Depth(trace[i]) = 2 /\ Depth(trace[i + 1]) = 1
    OBVIOUS
  <2>2. ~(i > n)
    BY <1>5, <2>1
  <2>3. ~(i < n)
    <3> SUFFICES ASSUME i < n PROVE FALSE
      OBVIOUS
    <3>1. i + 1 \in 1 .. n
      BY <1>1
    <3> QED BY <1>3, <2>1, <3>1
  <2> QED BY <1>1, <2>2, <2>3
<1>8. n = CHOOSE i \in 1 .. MaxSteps : Last(i)
  <2> HIDE DEF Last, n
  <2> QED BY <1>1, <1>6, <1>7
<1> QED BY <1>1, <1>8

(* The summary of the path does what the run does.                         *)
LEMMA SummaryFollowsRun ==
  ASSUME NEW p, CodeOK(p), NEW ver, NEW d, PathOK(p, ver, d),
         VertexOf(p, d).type = "EXIT", NEW s, s = SummaryOf(d),
         NEW l \in FirstCalls(p), CalledAt(p, l) = d.name
  PROVE  FollowsRun(p, l, s)
<1>1. /\ PathPlaced(p, d) /\ VersionsOK(p, ver, d) /\ TermsOK(p, d) /\ ValuesOK(p, d)
      /\ FollowsRuns(p, d)
  BY DEF PathOK
<1>2. s.literals = d.literals
  BY <1>1, SummaryParts
<1> DEFINE n == Len(d.literals)
           h == p.cfgs[CalledAt(p, l)]
<1>3. h = BlockOf(p, d) /\ CalleeScope(p, l) = d.scope
  BY <1>1, VertexOfPath DEF BlockOf
<1>4. Applies(p, CalledAt(p, l), s) = Feasible(p, d)
  BY <1>1, <1>3, SummaryAppliesToPath DEF Applies
<1> SUFFICES ASSUME n < MaxSteps, NEW env \in Feasible(p, d)
             PROVE  Describes(p, l, s, Effect(h, s).final, env, CalleeRun(p, l, env))
  BY <1>2, <1>4 DEF FollowsRun
<1> DEFINE trace == CalleeTrace(p, l, env)
           run == CalleeRun(p, l, env)
<1>5. n \in 1 .. MaxSteps /\ n = CHOOSE i \in 1 .. MaxSteps :
                                   Depth(trace[i]) = 2 /\ Depth(trace[i + 1]) = 1
  BY <1>1, RunReturns
<1>6. run = [labels |-> [i \in 1 .. n |-> trace[i].label],
             env |-> {x \in h.vars : trace[n].env[<<CalleeScope(p, l), x>>]}]
  BY <1>5, Zenon DEF CalleeRun
<1>7. /\ DOMAIN d.literals = 1 .. n /\ d.literals = [i \in 1 .. n |-> d.literals[i]]
  <2> DEFINE V == DOMAIN BlockOf(p, d).vertices
  <2>1. d.literals \in Seq(V)
    BY <1>1 DEF PathPlaced
  <2> HIDE DEF V
  <2> QED BY <2>1
<1>8. /\ \A i \in 1 .. n : trace[i].label = d.literals[i]
      /\ Mirrors(p, d, env, trace[n])
  <2>1. n <= MaxSteps
    BY <1>5, MaxStepsAssumption
  <2> QED BY <1>1, <1>7, <2>1 DEF FollowsRuns
<1> HIDE DEF trace, run, n
<1>9. s.literals = run.labels
  BY <1>2, <1>6, <1>7, <1>8
<1>10. ASSUME NEW x \in h.vars
       PROVE  (x \in run.env) = IF <<CalleeScope(p, l), x>> \in WrittenVariables(s)
                                THEN env \in Effect(h, s).final[<<CalleeScope(p, l), x>>]
                                ELSE x \in env
  <2> DEFINE y == <<CalleeScope(p, l), x>>
  <2>1. y \in OwnVariables(p, d) /\ y[2] = x
    BY <1>3 DEF OwnVariables
  <2>2. (x \in run.env) = (env \in d.val[<<y, d.ver[y]>>])
    <3>1. trace[n].env[y] = (env \in d.val[<<y, d.ver[y]>>])
      BY <1>8, <2>1, Zenon DEF Mirrors
    <3>2. (x \in run.env) <=> trace[n].env[y]
      BY <1>6
    <3> HIDE DEF y
    <3>3. (x \in run.env) <=> (env \in d.val[<<y, d.ver[y]>>])
      BY <3>1, <3>2
    <3> QED BY <3>3
  <2> HIDE DEF y
  <2>3. /\ y \in WrittenVariables(s) => Effect(h, s).final[y] = d.val[<<y, d.ver[y]>>]
        /\ y \notin WrittenVariables(s) => d.ver[y] = 0
    BY <1>1, <1>3, <2>1, SummaryEndsAsPath
  <2>4. ASSUME y \in WrittenVariables(s)
        PROVE  Effect(h, s).final[y] = d.val[<<y, d.ver[y]>>]
    BY <2>3, <2>4
  <2>5. ASSUME y \notin WrittenVariables(s)
        PROVE  (env \in d.val[<<y, d.ver[y]>>]) <=> x \in env
    <3>1. d.ver[y] = 0
      BY <2>3, <2>5
    <3>2. d.val[<<y, 0>>] = {e \in Environments(BlockOf(p, d)) : y[2] \in e}
      BY <1>1, <2>1 DEF ValuesOK
    <3>3. env \in Environments(BlockOf(p, d))
      BY DEF Feasible, BlockOf
    <3> QED BY <2>1, <3>1, <3>2, <3>3
  <2>6. (x \in run.env) = IF y \in WrittenVariables(s) THEN env \in Effect(h, s).final[y] ELSE x \in env
    <3>1. CASE y \in WrittenVariables(s)
      BY <2>2, <2>4, <3>1, Zenon
    <3>2. CASE y \notin WrittenVariables(s)
      BY <2>2, <2>5, <3>2
    <3> QED BY <3>1, <3>2
  <2> QED BY <2>6 DEF y
<1> QED BY <1>9, <1>10, Zenon DEF Describes, run
============================================================================
