------------------------- MODULE EtfaStoreProofs -------------------------
(***************************************************************************)
(* Proofs about the stores of the ETFA engine's contexts, for all programs,*)
(* time-outs and cycle bounds: the version after the executor's is fresh   *)
(* everywhere, a name has one meaning in all contexts, and keeps it.       *)
(***************************************************************************)
EXTENDS EtfaEngineProofs

-----------------------------------------------------------------------------
(* Operations on stores.                                                   *)

(* The executor's versions after an assignment, a merge and a summary, and *)
(* the names these make.                                                   *)
AssignedVersions(versions, x) == [versions EXCEPT ![x] = versions[x] + 1]

MergedVersions(versions, c1, c2) ==
  [x \in DOMAIN versions |-> IF x \in VersionsDiffer(c1, c2)
                             THEN versions[x] + 1 ELSE versions[x]]

MergedNames(versions, c1, c2) ==
  {MergedName(versions, c1, x) : x \in VersionsDiffer(c1, c2)}

AppliedVersions(versions, d, s) ==
  [x \in DOMAIN versions |->
     IF x \in WrittenVariables(s) THEN d.ver[x] ELSE versions[x]]

AppliedNames(versions, c, s) == {Reversion(versions, c, s, n) : n \in WrittenNames(s)}

(* Replacing the arguments of a term leaves a term.                        *)
LEMMA TermWithArguments ==
  ASSUME NEW t, IsTerm(t), NEW a, NEW u, u = [t EXCEPT !.args = a]
  PROVE  IsTerm(u) /\ ArgumentsOf(u) = {a[i] : i \in DOMAIN a}
<1>1. CASE t = [op |-> t.op, args |-> t.args]
  <2>1. u = [op |-> t.op, args |-> a]
    BY <1>1
  <2> QED BY <2>1 DEF IsTerm, ArgumentsOf
<1>2. CASE t = [op |-> t.op, guard |-> t.guard, args |-> t.args]
  <2>1. u = [op |-> t.op, guard |-> t.guard, args |-> a]
    BY <1>2
  <2> QED BY <2>1 DEF IsTerm, ArgumentsOf
<1> QED BY <1>1, <1>2 DEF IsTerm

(* A store is as good in a context that only differs in where it is.       *)
LEMMA SameStore ==
  ASSUME NEW p, NEW versions, NEW c, StoreOK(p, versions, c), NEW d,
         d.val = c.val, d.pc = c.pc, d.ver = c.ver, d.cycle = c.cycle
  PROVE  StoreOK(p, versions, d)
BY DEF StoreOK, StoreIsClosed, Terms, CurrentName

(* It stays good when versions only grow.                                  *)
LEMMA LaterVersions ==
  ASSUME NEW p, NEW versions \in [FlattenedInterface(p) -> Nat],
         NEW later \in [FlattenedInterface(p) -> Nat],
         \A x \in FlattenedInterface(p) : versions[x] <= later[x],
         NEW c, StoreOK(p, versions, c)
  PROVE  StoreOK(p, later, c)
<1>1. ASSUME NEW n, NameOK(p, versions, c.cycle, n)
      PROVE  NameOK(p, later, c.cycle, n)
  <2>1. n[1] \in FlattenedInterface(p) /\ n[2] \in Nat
    BY <1>1 DEF NameOK
  <2>2. versions[n[1]] <= later[n[1]] /\ versions[n[1]] \in Nat /\ later[n[1]] \in Nat
    BY <2>1
  <2> QED BY <1>1, <2>1, <2>2 DEF NameOK
<1> QED BY <1>1 DEF StoreOK

(* The version after the executor's makes a name that a context cannot     *)
(* have.                                                                   *)
LEMMA NextNameIsNew ==
  ASSUME NEW p, NEW versions \in [FlattenedInterface(p) -> Nat],
         NEW c, StoreOK(p, versions, c), NEW x \in FlattenedInterface(p),
         NEW k \in Nat, k > versions[x]
  PROVE  <<x, k, c.cycle>> \notin DOMAIN c.val
<1> DEFINE n == <<x, k, c.cycle>>
<1>1. n[1] = x /\ n[2] = k /\ n[3] = c.cycle
  OBVIOUS
<1> HIDE DEF n
<1>2. SUFFICES ASSUME n \in DOMAIN c.val PROVE FALSE
  BY DEF n
<1>3. k <= versions[x]
  BY <1>1, <1>2 DEF StoreOK, NameOK
<1> QED BY <1>3

(* It is a good name once the executor's version has reached it.           *)
LEMMA NewNameOK ==
  ASSUME NEW p, NEW versions \in [FlattenedInterface(p) -> Nat],
         NEW x \in FlattenedInterface(p), NEW k \in Nat, k <= versions[x], NEW m \in Nat
  PROVE  NameOK(p, versions, m, <<x, k, m>>)
BY DEF NameOK

(* Encoding an expression over variables gives a term over the context's   *)
(* current names.                                                          *)
LEMMA EncodedTerm ==
  ASSUME NEW p, NEW c, NEW e,
         \A ref \in ArgumentsOf(e) : Flatten(Scope(c), ref) \in FlattenedInterface(p),
         NEW names,
         \A x \in FlattenedInterface(p) : CurrentName(c, x) \in names
  PROVE  IsTerm(Encode(c, e)) /\ ArgumentsOf(Encode(c, e)) \subseteq names
<1>1. \A i \in DOMAIN e.args : CurrentName(c, Flatten(Scope(c), e.args[i])) \in names
  BY DEF ArgumentsOf
<1> QED BY <1>1 DEF IsTerm, ArgumentsOf, Encode

(* Assign adds the next name of the variable.                              *)
LEMMA AssignStore ==
  ASSUME NEW p, NEW c, ContextOK(p, c), c.cycle \in Nat,
         NEW versions \in [FlattenedInterface(p) -> Nat], StoreOK(p, versions, c),
         NEW x \in FlattenedInterface(p), NEW e,
         \A ref \in ArgumentsOf(e) : Flatten(Scope(c), ref) \in FlattenedInterface(p),
         NEW l, NEW d, d = Assign(p, versions, c, x, e, l),
         NEW later, later = AssignedVersions(versions, x)
  PROVE  /\ StoreOK(p, later, d)
         /\ DOMAIN d.val = DOMAIN c.val \cup {<<x, versions[x] + 1, c.cycle>>}
         /\ \A n \in DOMAIN c.val : d.val[n] = c.val[n]
<1> DEFINE F == FlattenedInterface(p)
           name == <<x, versions[x] + 1, c.cycle>>
           new == [n \in {name} |-> Symbolic(p, c.val, Encode(c, e))]
<1>1. Record(c) /\ c.ver \in [F -> Nat]
  BY DEF ContextOK, Record
<1>2. /\ d.val = Emplace(c.val, {name}, new) /\ d.pc = c.pc /\ d.cycle = c.cycle
      /\ d.ver = [c.ver EXCEPT ![x] = versions[x] + 1]
  BY <1>1 DEF Record, Assign
<1>3. later \in [F -> Nat] /\ later[x] = versions[x] + 1
      /\ \A y \in F : versions[y] <= later[y]
  BY DEF AssignedVersions
<1> DEFINE k == versions[x] + 1
<1>a. k \in Nat /\ k > versions[x] /\ k <= later[x]
  BY <1>3
<1>4. name \notin DOMAIN c.val
  <2> HIDE DEF k
  <2>1. <<x, k, c.cycle>> \notin DOMAIN c.val
    BY <1>a, NextNameIsNew
  <2> QED BY <2>1 DEF k
<1>5. NameOK(p, later, c.cycle, name)
  <2> HIDE DEF k
  <2>1. NameOK(p, later, c.cycle, <<x, k, c.cycle>>)
    BY <1>3, <1>a, NewNameOK
  <2> QED BY <2>1 DEF k
<1>6. new[name].term = Encode(c, e)
  BY DEF Symbolic
<1> HIDE DEF new, name
<1>7. /\ DOMAIN d.val = DOMAIN c.val \cup {name}
      /\ \A n \in DOMAIN c.val : d.val[n] = c.val[n]
      /\ d.val[name].term = Encode(c, e)
  <2>1. d.val = Emplace(c.val, {name}, new)
    BY <1>2
  <2>2. /\ DOMAIN d.val = DOMAIN c.val \cup {name}
        /\ \A n \in DOMAIN c.val : d.val[n] = c.val[n]
        /\ \A n \in {name} : n \notin DOMAIN c.val => d.val[n] = new[n]
    BY <2>1 DEF Emplace
  <2> QED BY <1>4, <1>6, <2>2
<1>8. StoreOK(p, later, c)
  BY <1>3, LaterVersions
<1>9. \A y \in F : CurrentName(d, y) \in DOMAIN d.val
  <2>1. \A y \in F : CurrentName(d, y) = IF y = x THEN name ELSE CurrentName(c, y)
    BY <1>1, <1>2 DEF CurrentName, name
  <2> QED BY <1>7, <2>1 DEF StoreOK, StoreIsClosed
<1>10. IsTerm(Encode(c, e)) /\ ArgumentsOf(Encode(c, e)) \subseteq DOMAIN c.val
  BY EncodedTerm DEF StoreOK, StoreIsClosed
<1>11. Terms(d) \subseteq Terms(c) \cup {Encode(c, e)}
  <2>1. \A n \in DOMAIN d.val : d.val[n].term \in Terms(c) \cup {Encode(c, e)}
    BY <1>7 DEF Terms
  <2> QED BY <1>2, <2>1, ZenonT(60) DEF Terms
<1>12. \A n \in DOMAIN d.val : NameOK(p, later, d.cycle, n)
  BY <1>2, <1>5, <1>7, <1>8 DEF StoreOK
<1>13. \A t \in Terms(d) : IsTerm(t) /\ ArgumentsOf(t) \subseteq DOMAIN d.val
  BY <1>7, <1>10, <1>11 DEF StoreOK, StoreIsClosed
<1> QED BY <1>7, <1>9, <1>12, <1>13 DEF StoreOK, StoreIsClosed, name

(* The current value of a variable is one of the terms of the context.     *)
LEMMA CurrentTerm ==
  ASSUME NEW p, NEW versions, NEW c, StoreOK(p, versions, c),
         NEW x \in FlattenedInterface(p)
  PROVE  CurrentValue(c, x).term \in Terms(c)
BY DEF StoreOK, StoreIsClosed, CurrentValue, Terms

(* Every variable of the first context is an input or a literal.           *)
LEMMA InitialStore ==
  ASSUME NEW p, NEW c, c = InitialContext(p)
  PROVE  StoreOK(p, [x \in FlattenedInterface(p) |-> 0], c)
<1> DEFINE F == FlattenedInterface(p)
           names == {<<x, 0, 0>> : x \in F}
           literal(x) == [op |-> IF InitialValue(p, x) THEN "true" ELSE "false",
                          args |-> <<>>]
           Initial(x) == IF x \in WholeProgramInputs(p)
                         THEN InputConstant(p, x, 0) ELSE Symbolic(p, <<>>, literal(x))
<1>1. /\ c.cycle = 0 /\ c.pc = {{}} /\ c.ver = [x \in F |-> 0]
      /\ c.val = [n \in names |-> Initial(n[1])]
  BY DEF InitialContext
<1>2. \A x : /\ IsTerm(literal(x)) /\ ArgumentsOf(literal(x)) = {}
             /\ Symbolic(p, <<>>, literal(x)).term = literal(x)
  BY DEF IsTerm, ArgumentsOf, Symbolic
<1>3. \A x : /\ IsTerm(InputConstant(p, x, 0).term)
             /\ ArgumentsOf(InputConstant(p, x, 0).term) = {<<x, 0, 0>>}
  BY DEF IsTerm, ArgumentsOf, InputConstant
<1>4. \A x \in F : IsTerm(Initial(x).term) /\ ArgumentsOf(Initial(x).term) \subseteq names
  <2> HIDE DEF literal
  <2> QED BY <1>2, <1>3
<1> HIDE DEF Initial
<1>5. DOMAIN c.val = names /\ \A n \in names : c.val[n] = Initial(n[1]) /\ n[1] \in F
  BY <1>1
<1>6. \A n \in DOMAIN c.val : NameOK(p, [x \in F |-> 0], c.cycle, n)
  BY <1>1, <1>5 DEF NameOK
<1>7. \A x \in F : CurrentName(c, x) \in DOMAIN c.val
  BY <1>1, <1>5 DEF CurrentName
<1>8. \A t \in Terms(c) : IsTerm(t) /\ ArgumentsOf(t) \subseteq DOMAIN c.val
  BY <1>1, <1>4, <1>5 DEF Terms
<1> QED BY <1>6, <1>7, <1>8 DEF StoreOK, StoreIsClosed

(* The next cycle starts with version 0 of every variable.                 *)
LEMMA NextCycleStore ==
  ASSUME NEW p, NEW c, ContextOK(p, c), c.cycle \in Nat,
         NEW versions, StoreOK(p, versions, c),
         NEW d, d = NextCycle(p, c)
  PROVE  /\ StoreOK(p, [x \in FlattenedInterface(p) |-> 0], d)
         /\ \A n \in DOMAIN c.val : d.val[n] = c.val[n]
<1> DEFINE F == FlattenedInterface(p)
           k == c.cycle + 1
           names == {<<x, 0, k>> : x \in F}
           Value(x) == IF x \in WholeProgramInputs(p)
                      THEN InputConstant(p, x, k) ELSE CurrentValue(c, x)
           new == [n \in names |-> Value(n[1])]
<1>1. Record(c)
  BY DEF ContextOK, Record
<1>2. /\ d.val = Emplace(c.val, names, new)
      /\ d.cycle = k /\ d.pc = {{}} /\ d.ver = [x \in F |-> 0]
  BY <1>1 DEF Record, NextCycle
<1>3. \A x : /\ IsTerm(InputConstant(p, x, k).term)
             /\ ArgumentsOf(InputConstant(p, x, k).term) = {<<x, 0, k>>}
  BY DEF IsTerm, ArgumentsOf, InputConstant
<1>4. \A x \in F : /\ IsTerm(Value(x).term)
                   /\ ArgumentsOf(Value(x).term) \subseteq DOMAIN c.val \cup names
  BY <1>3, CurrentTerm DEF StoreOK, StoreIsClosed
<1> HIDE DEF Value
<1>5. \A n \in names : n[1] \in F /\ new[n] = Value(n[1]) /\ n[2] = 0 /\ n[3] = k
  OBVIOUS
<1>6. names \cap DOMAIN c.val = {}
  BY <1>5 DEF StoreOK, NameOK
<1> HIDE DEF new
<1>7. /\ DOMAIN d.val = DOMAIN c.val \cup names
      /\ \A n \in DOMAIN c.val : d.val[n] = c.val[n]
      /\ \A n \in names : d.val[n] = Value(n[1])
  BY <1>2, <1>5, <1>6 DEF Emplace
<1>8. \A n \in DOMAIN d.val : NameOK(p, [x \in F |-> 0], k, n)
  <2>1. ASSUME NEW n \in DOMAIN c.val
        PROVE  NameOK(p, [x \in F |-> 0], k, n)
    BY DEF StoreOK, NameOK
  <2>2. ASSUME NEW n \in names
        PROVE  NameOK(p, [x \in F |-> 0], k, n)
    BY DEF NameOK
  <2> QED BY <1>7, <2>1, <2>2
<1>9. \A x \in F : CurrentName(d, x) \in DOMAIN d.val
  BY <1>2, <1>7 DEF CurrentName
<1>10. \A t \in Terms(d) : IsTerm(t) /\ ArgumentsOf(t) \subseteq DOMAIN d.val
  <2>1. ASSUME NEW t \in Terms(d)
        PROVE  t \in Terms(c) \/ \E x \in F : t = Value(x).term
    BY <1>2, <1>5, <1>7 DEF Terms
  <2> QED BY <1>4, <1>7, <2>1 DEF StoreOK, StoreIsClosed
<1> QED BY <1>2, <1>7, <1>8, <1>9, <1>10 DEF StoreOK, StoreIsClosed

(* The join knows all names of both contexts, and the next name of every   *)
(* variable on whose version they differ.                                  *)
LEMMA MergeStore ==
  ASSUME NEW p, NEW c1, ContextOK(p, c1), c1.cycle \in Nat,
         NEW c2, ContextOK(p, c2), c2.cycle = c1.cycle,
         NEW versions \in [FlattenedInterface(p) -> Nat],
         StoreOK(p, versions, c1), StoreOK(p, versions, c2),
         NEW d, d = Merge(p, versions, c1, c2),
         NEW later, later = MergedVersions(versions, c1, c2)
  PROVE  /\ StoreOK(p, later, d)
         /\ DOMAIN d.val = DOMAIN c1.val \cup DOMAIN c2.val
              \cup MergedNames(versions, c1, c2)
         /\ \A n \in DOMAIN c1.val : d.val[n] = c1.val[n]
         /\ \A n \in DOMAIN c2.val \ DOMAIN c1.val : d.val[n] = c2.val[n]
<1> DEFINE F == FlattenedInterface(p)
           diff == VersionsDiffer(c1, c2)
           names == {MergedName(versions, c1, x) : x \in diff}
           both == Emplace(c1.val, DOMAIN c2.val, c2.val)
           new == [n \in names |-> MergedValue(p, c1, c2, n[1])]
<1>1. Record(c1) /\ c1.ver \in [F -> Nat] /\ c2.ver \in [F -> Nat]
  BY DEF ContextOK, Record
<1>2. /\ d.val = Emplace(both, names, new)
      /\ d.cycle = c1.cycle
      /\ d.pc = SubstituteMerged(versions, c1, c2, c1.pc \cup c2.pc)
      /\ d.ver = [x \in F |-> IF x \in diff THEN versions[x] + 1 ELSE c1.ver[x]]
  BY <1>1 DEF Record, Merge
<1>3. diff \subseteq F
  BY <1>1 DEF VersionsDiffer
<1>4. /\ later \in [F -> Nat]
      /\ \A x \in F : versions[x] <= later[x]
      /\ \A x \in diff : later[x] = versions[x] + 1
  <2> HIDE DEF diff
  <2>1. later = [x \in F |-> IF x \in diff THEN versions[x] + 1 ELSE versions[x]]
    BY DEF diff, MergedVersions
  <2> QED BY <1>3, <2>1
<1> HIDE DEF diff
<1>5. ASSUME NEW x \in diff
      PROVE  /\ MergedName(versions, c1, x) \notin DOMAIN c1.val \cup DOMAIN c2.val
             /\ NameOK(p, later, c1.cycle, MergedName(versions, c1, x))
             /\ MergedName(versions, c1, x)[1] = x
  <2> DEFINE k == versions[x] + 1
  <2>1. x \in F /\ k \in Nat /\ k > versions[x] /\ k <= later[x]
    BY <1>3, <1>4
  <2>2. MergedName(versions, c1, x) = <<x, k, c1.cycle>>
    BY DEF MergedName
  <2> HIDE DEF k
  <2> QED BY <1>4, <2>1, <2>2, NextNameIsNew, NewNameOK
<1>6. names \cap (DOMAIN c1.val \cup DOMAIN c2.val) = {}
  BY <1>5
<1>7. \A n \in names : new[n] = MergedValue(p, c1, c2, n[1]) /\ n[1] \in diff
  BY <1>5
<1> HIDE DEF names, new
<1>8. /\ DOMAIN both = DOMAIN c1.val \cup DOMAIN c2.val
      /\ \A n \in DOMAIN c1.val : both[n] = c1.val[n]
      /\ \A n \in DOMAIN c2.val \ DOMAIN c1.val : both[n] = c2.val[n]
  BY DEF Emplace
<1> HIDE DEF both
<1>9. /\ DOMAIN d.val = DOMAIN both \cup names
      /\ \A n \in DOMAIN both : d.val[n] = both[n]
      /\ \A n \in names : d.val[n] = new[n]
  BY <1>2, <1>6, <1>8 DEF Emplace
<1>10. StoreOK(p, later, c1) /\ StoreOK(p, later, c2)
  BY <1>4, LaterVersions
<1>11. \A n \in DOMAIN d.val : NameOK(p, later, c1.cycle, n)
  <2>1. \A n \in names : NameOK(p, later, c1.cycle, n)
    BY <1>5 DEF names
  <2> QED BY <1>8, <1>9, <1>10, <2>1 DEF StoreOK
<1>12. ASSUME NEW x \in F
       PROVE  CurrentName(d, x) \in DOMAIN d.val
  <2>1. CASE x \in diff
    <3>1. CurrentName(d, x) = MergedName(versions, c1, x)
      BY <1>2, <2>1 DEF CurrentName, MergedName
    <3> QED BY <1>9, <2>1, <3>1 DEF names
  <2>2. CASE x \notin diff
    <3>1. CurrentName(d, x) = CurrentName(c1, x)
      BY <1>2, <2>2 DEF CurrentName
    <3> QED BY <1>8, <1>9, <3>1 DEF StoreOK, StoreIsClosed
  <2> QED BY <2>1, <2>2
<1>13. ASSUME NEW x \in diff
       PROVE  /\ IsTerm(MergedValue(p, c1, c2, x).term)
              /\ ArgumentsOf(MergedValue(p, c1, c2, x).term) \subseteq DOMAIN d.val
  <2> DEFINE ite == [op |-> "ite", guard |-> c1.pc,
                    args |-> <<CurrentName(c1, x), CurrentName(c2, x)>>]
  <2>1. MergedValue(p, c1, c2, x).term \in {ite, CurrentValue(c1, x).term}
    BY DEF MergedValue
  <2>2. IsTerm(ite) /\ ArgumentsOf(ite) = {CurrentName(c1, x), CurrentName(c2, x)}
    BY DEF IsTerm, ArgumentsOf
  <2>3. CurrentName(c1, x) \in DOMAIN c1.val /\ CurrentName(c2, x) \in DOMAIN c2.val
    BY <1>3 DEF StoreOK, StoreIsClosed
  <2>4. CurrentValue(c1, x).term \in Terms(c1)
    BY <1>3, CurrentTerm
  <2> HIDE DEF ite
  <2> QED BY <1>8, <1>9, <2>1, <2>2, <2>3, <2>4 DEF StoreOK, StoreIsClosed
<1>14. ASSUME NEW n \in DOMAIN d.val
       PROVE  IsTerm(d.val[n].term) /\ ArgumentsOf(d.val[n].term) \subseteq DOMAIN d.val
  <2>1. CASE n \in names
    BY <1>7, <1>9, <1>13, <2>1
  <2>2. CASE n \notin names
    <3>1. d.val[n].term \in Terms(c1) \cup Terms(c2)
      BY <1>8, <1>9, <2>2 DEF Terms
    <3> QED BY <1>8, <1>9, <3>1 DEF StoreOK, StoreIsClosed
  <2> QED BY <2>1, <2>2
<1>15. \A lit \in UNION d.pc : IsTerm(lit[1]) /\ ArgumentsOf(lit[1]) \subseteq DOMAIN d.val
  <2> DEFINE ites == {x \in diff : NeedsIte(c1, c2, x)}
             Rename(n) ==
               IF n[1] \in ites /\ n \in {CurrentName(c1, n[1]), CurrentName(c2, n[1])}
               THEN MergedName(versions, c1, n[1]) ELSE n
             pc == c1.pc \cup c2.pc
             Renamed(t) == [t EXCEPT !.args = [i \in DOMAIN @ |-> Rename(@[i])]]
  <2>1. d.pc = {{<<Renamed(lit[1]), lit[2]>> : lit \in cube} : cube \in pc}
    BY <1>2 DEF SubstituteMerged, diff
  <2>2. ASSUME NEW t \in Terms(c1) \cup Terms(c2)
        PROVE  IsTerm(Renamed(t)) /\ ArgumentsOf(Renamed(t)) \subseteq DOMAIN d.val
    <3>1. \A n \in DOMAIN both : Rename(n) \in DOMAIN d.val
      BY <1>8, <1>9 DEF names
    <3> HIDE DEF Rename
    <3> DEFINE a == [i \in DOMAIN t.args |-> Rename(t.args[i])]
    <3>2. Renamed(t) = [t EXCEPT !.args = a]
      OBVIOUS
    <3>3. IsTerm(t) /\ \A i \in DOMAIN t.args : t.args[i] \in DOMAIN both
      BY <1>8 DEF StoreOK, StoreIsClosed, ArgumentsOf
    <3>4. \A i \in DOMAIN a : a[i] \in DOMAIN d.val
      BY <3>1, <3>3
    <3> HIDE DEF a, Renamed
    <3> QED BY <3>2, <3>3, <3>4, TermWithArguments
  <2> HIDE DEF Renamed, pc
  <2>3. ASSUME NEW lit \in UNION d.pc
        PROVE  \E old \in UNION pc : lit[1] = Renamed(old[1])
    <3>1. PICK cube \in pc : lit \in {<<Renamed(old[1]), old[2]>> : old \in cube}
      BY <2>1
    <3> QED BY <3>1
  <2>4. \A old \in UNION pc : old[1] \in Terms(c1) \cup Terms(c2)
    BY DEF Terms, pc
  <2> QED BY <2>2, <2>3, <2>4
<1>16. \A t \in Terms(d) : IsTerm(t) /\ ArgumentsOf(t) \subseteq DOMAIN d.val
  BY <1>14, <1>15 DEF Terms
<1>17. StoreOK(p, later, d)
  BY <1>2, <1>11, <1>12, <1>16 DEF StoreOK, StoreIsClosed
<1> QED BY <1>8, <1>9, <1>17 DEF names, diff, MergedNames

(* Applying a summary adds the names that it writes, moved behind the      *)
(* versions of the executor.                                               *)
LEMMA ApplySummaryStore ==
  ASSUME NEW p, WellFormedSummaries(p), ReferencesResolve(p),
         NEW f \in DOMAIN p.summaries, NEW i \in DOMAIN p.summaries[f],
         NEW s, s = p.summaries[f][i],
         NEW c, ContextOK(p, c), c.cycle \in Nat,
         NEW versions \in [FlattenedInterface(p) -> Nat], StoreOK(p, versions, c),
         NEW d, d = ApplySummary(p, versions, c, s),
         NEW later, later = AppliedVersions(versions, d, s)
  PROVE  /\ later \in [FlattenedInterface(p) -> Nat]
         /\ \A x \in FlattenedInterface(p) : versions[x] <= later[x]
         /\ StoreOK(p, later, d)
         /\ DOMAIN d.val = DOMAIN c.val
              \cup AppliedNames(versions, c, s)
         /\ \A n \in WrittenNames(s) :
              /\ n[1] \in FlattenedInterface(p)
              /\ n[2] + versions[n[1]] + 1 \in Nat
              /\ n[2] + versions[n[1]] + 1 > versions[n[1]]
              /\ Reversion(versions, c, s, n) =
                   <<n[1], n[2] + versions[n[1]] + 1, c.cycle>>
         /\ \A n \in DOMAIN c.val : d.val[n] = c.val[n]
<1> DEFINE F == FlattenedInterface(p)
           R(n) == Reversion(versions, c, s, n)
           RTerm(t) == [t EXCEPT !.args = [j \in DOMAIN @ |-> R(@[j])]]
           names == {R(n) : n \in WrittenNames(s)}
           Read(n) == c.val[R(n)].worlds
           hard == HardWorlds(Worlds(p), s, Read)
           ConstraintOf(n) == CHOOSE j \in DOMAIN s.hard : R(s.hard[j].name) = n
           New(n) == [term |-> RTerm(s.hard[ConstraintOf(n)].term),
                      worlds |-> hard[s.hard[ConstraintOf(n)].name]]
           assumptions == {<<RTerm(s.assumptions[j][1]), s.assumptions[j][2]>> :
                             j \in DOMAIN s.assumptions}
           new == [n \in names |-> New(n)]
<1>1. Record(c) /\ c.ver \in [F -> Nat]
  BY DEF ContextOK, Record
<1>2. d = [c EXCEPT !.val = Emplace(@, names, new),
                    !.pc = {cube \cup assumptions : cube \in @},
                    !.ver = [x \in DOMAIN @ |->
                               IF x \in WrittenVariables(s)
                               THEN versions[x] + 1 + HighestVersion(s, x) ELSE @[x]]]
  BY Zenon DEF ApplySummary
<1>3. \A n \in names : new[n].term = RTerm(s.hard[ConstraintOf(n)].term)
  <2> HIDE DEF RTerm, ConstraintOf, hard, names
  <2> QED OBVIOUS
<1>4. \A n \in names : ConstraintOf(n) \in DOMAIN s.hard
  <2> HIDE DEF R
  <2> QED BY DEF WrittenNames
<1> HIDE DEF new, hard, Read, New
<1>5. /\ d.val = Emplace(c.val, names, new) /\ d.cycle = c.cycle
      /\ d.pc = {cube \cup assumptions : cube \in c.pc}
      /\ d.ver = [x \in F |-> IF x \in WrittenVariables(s)
                              THEN versions[x] + 1 + HighestVersion(s, x) ELSE c.ver[x]]
  <2> HIDE DEF names, assumptions
  <2> QED BY <1>1, <1>2 DEF Record
<1>6. /\ WrittenVariables(s) \subseteq F
      /\ \A j \in DOMAIN s.hard :
           IsTerm(s.hard[j].term) /\ \A n \in ArgumentsOf(s.hard[j].term) : n[1] \in F
      /\ \A j \in DOMAIN s.assumptions :
           IsTerm(s.assumptions[j][1]) /\ \A n \in ArgumentsOf(s.assumptions[j][1]) : n[1] \in F
  BY DEF ReferencesResolve
<1>7. \A x \in WrittenVariables(s) :
        /\ HighestVersion(s, x) \in Nat
        /\ <<x, HighestVersion(s, x)>> \in WrittenNames(s)
        /\ \A n \in WrittenNames(s) : n[1] = x => n[2] \in Nat /\ n[2] <= HighestVersion(s, x)
  BY HighestVersionIsHighest
<1>8. /\ later \in [F -> Nat]
      /\ \A x \in F : versions[x] <= later[x]
      /\ \A x \in WrittenVariables(s) : later[x] = versions[x] + 1 + HighestVersion(s, x)
  <2>1. \A x \in WrittenVariables(s) :
          /\ x \in F /\ HighestVersion(s, x) \in Nat
          /\ d.ver[x] = versions[x] + 1 + HighestVersion(s, x)
    BY <1>5, <1>6, <1>7
  <2> DEFINE written == WrittenVariables(s)
  <2>2. later = [x \in F |-> IF x \in written THEN d.ver[x] ELSE versions[x]]
    BY DEF AppliedVersions
  <2> HIDE DEF written
  <2>3. \A x \in F : /\ later[x] = IF x \in written THEN d.ver[x] ELSE versions[x]
                     /\ versions[x] \in Nat
    BY <2>2
  <2>4. \A x \in F : later[x] \in Nat /\ versions[x] <= later[x]
    BY <2>1, <2>3 DEF written
  <2>5. later \in [F -> Nat]
    BY <2>2, <2>4
  <2> QED BY <2>1, <2>3, <2>4, <2>5, SMTT(30) DEF written
<1>9. ASSUME NEW n \in WrittenNames(s)
      PROVE  /\ n[1] \in F /\ n[1] \in WrittenVariables(s) /\ n[2] \in Nat
             /\ n[2] + versions[n[1]] + 1 \in Nat
             /\ n[2] + versions[n[1]] + 1 > versions[n[1]]
             /\ n[2] + versions[n[1]] + 1 <= later[n[1]]
             /\ R(n) = <<n[1], n[2] + versions[n[1]] + 1, c.cycle>>
  <2>1. n[1] \in WrittenVariables(s)
    BY DEF WrittenVariables
  <2>2. n[1] \in F /\ versions[n[1]] \in Nat
    BY <1>6, <2>1
  <2>3. n[2] \in Nat /\ HighestVersion(s, n[1]) \in Nat /\ n[2] <= HighestVersion(s, n[1])
    BY <1>7, <2>1
  <2>4. later[n[1]] = versions[n[1]] + 1 + HighestVersion(s, n[1])
    BY <1>8, <2>1
  <2>5. R(n) = <<n[1], n[2] + versions[n[1]] + 1, c.cycle>>
    BY DEF Reversion
  <2> QED BY <2>1, <2>2, <2>3, <2>4, <2>5
<1>10. \A n : n \notin WrittenNames(s) => R(n) = CurrentName(c, n[1])
  BY DEF Reversion
<1> HIDE DEF R
<1>11. ASSUME NEW n \in WrittenNames(s)
       PROVE  R(n) \notin DOMAIN c.val /\ NameOK(p, later, c.cycle, R(n))
  <2> DEFINE k == n[2] + versions[n[1]] + 1
  <2>1. k \in Nat /\ k > versions[n[1]] /\ k <= later[n[1]] /\ n[1] \in F
        /\ R(n) = <<n[1], k, c.cycle>>
    BY <1>9, SMTT(30)
  <2> HIDE DEF k
  <2> QED BY <1>8, <2>1, NextNameIsNew, NewNameOK
<1>12. /\ DOMAIN d.val = DOMAIN c.val \cup names
       /\ \A n \in DOMAIN c.val : d.val[n] = c.val[n]
       /\ \A n \in names : d.val[n] = new[n]
  <2>1. names \cap DOMAIN c.val = {}
    BY <1>11
  <2> HIDE DEF names
  <2> QED BY <1>5, <2>1 DEF Emplace
<1>13. StoreOK(p, later, c)
  BY <1>8, LaterVersions
<1>14. \A n \in DOMAIN d.val : NameOK(p, later, c.cycle, n)
  BY <1>11, <1>12, <1>13 DEF StoreOK
<1>15. ASSUME NEW x \in F
       PROVE  CurrentName(d, x) \in DOMAIN d.val
  <2>1. CASE x \in WrittenVariables(s)
    <3> DEFINE h == HighestVersion(s, x)
    <3>1. d.ver[x] = versions[x] + 1 + h /\ <<x, h>> \in WrittenNames(s) /\ h \in Nat
          /\ versions[x] \in Nat
      BY <1>5, <1>7, <2>1
    <3> HIDE DEF h
    <3>2. R(<<x, h>>) = <<x, h + versions[x] + 1, c.cycle>>
      BY <1>9, <3>1
    <3>3. h + versions[x] + 1 = versions[x] + 1 + h
      BY <3>1, SMTT(30)
    <3>4. CurrentName(d, x) = R(<<x, h>>)
      BY <1>5, <3>1, <3>2, <3>3 DEF CurrentName
    <3> QED BY <1>12, <3>1, <3>4, SMTT(30)
  <2>2. CASE x \notin WrittenVariables(s)
    <3>1. CurrentName(d, x) = CurrentName(c, x)
      BY <1>5, <2>2 DEF CurrentName
    <3> QED BY <1>12, <3>1, SMTT(30) DEF StoreOK, StoreIsClosed
  <2> QED BY <2>1, <2>2
<1>16. \A n : n[1] \in F => R(n) \in DOMAIN d.val
  <2>1. \A n : n[1] \in F => R(n) \in names \/ R(n) = CurrentName(c, n[1])
    BY <1>10
  <2> QED BY <1>12, <2>1 DEF StoreOK, StoreIsClosed
<1>17. ASSUME NEW t, IsTerm(t), \A n \in ArgumentsOf(t) : n[1] \in F
       PROVE  IsTerm(RTerm(t)) /\ ArgumentsOf(RTerm(t)) \subseteq DOMAIN d.val
  <2> DEFINE a == [j \in DOMAIN t.args |-> R(t.args[j])]
  <2>1. RTerm(t) = [t EXCEPT !.args = a]
    OBVIOUS
  <2>2. \A j \in DOMAIN a : a[j] \in DOMAIN d.val
    BY <1>16, <1>17 DEF ArgumentsOf
  <2> HIDE DEF a, RTerm
  <2> QED BY <1>17, <2>1, <2>2, TermWithArguments
<1> HIDE DEF RTerm
<1>18. ASSUME NEW n \in DOMAIN d.val
       PROVE  IsTerm(d.val[n].term) /\ ArgumentsOf(d.val[n].term) \subseteq DOMAIN d.val
  <2>1. CASE n \in names
    <3> HIDE DEF ConstraintOf
    <3> QED BY <1>3, <1>4, <1>6, <1>12, <1>17, <2>1
  <2>2. CASE n \notin names
    <3>1. n \in DOMAIN c.val /\ d.val[n] = c.val[n]
      BY <1>12, <2>2
    <3>2. d.val[n].term \in Terms(c)
      BY <3>1, SMTT(30) DEF Terms
    <3> QED BY <1>12, <3>2 DEF StoreOK, StoreIsClosed
  <2> QED BY <2>1, <2>2
<1>19. ASSUME NEW lit \in UNION d.pc
       PROVE  IsTerm(lit[1]) /\ ArgumentsOf(lit[1]) \subseteq DOMAIN d.val
  <2>1. lit \in UNION c.pc \/ lit \in assumptions
    BY <1>5
  <2>2. CASE lit \in UNION c.pc
    <3>1. lit[1] \in Terms(c)
      BY <2>2 DEF Terms
    <3> QED BY <1>12, <3>1 DEF StoreOK, StoreIsClosed
  <2>3. CASE lit \in assumptions
    BY <1>6, <1>17, <2>3, SMTT(30)
  <2> QED BY <2>1, <2>2, <2>3, SMTT(30)
<1>20. \A t \in Terms(d) : IsTerm(t) /\ ArgumentsOf(t) \subseteq DOMAIN d.val
  BY <1>18, <1>19 DEF Terms
<1>21. StoreOK(p, later, d)
  BY <1>5, <1>14, <1>15, <1>20 DEF StoreOK, StoreIsClosed
<1>22. \A n \in WrittenNames(s) : Reversion(versions, c, s, n) = R(n)
  BY DEF R
<1>23. DOMAIN d.val = DOMAIN c.val \cup AppliedNames(versions, c, s)
  BY <1>12 DEF R, AppliedNames
<1> QED BY <1>8, <1>9, <1>12, <1>21, <1>22, <1>23

-----------------------------------------------------------------------------
(* Steps of the engine.                                                    *)

(* What a step has to do to the stores.                                    *)
StoresKept == StoresOK' /\ NamesAgree' /\ MeaningsAreKept

(* The values of d that are not of the new names are those of live         *)
(* contexts.                                                               *)
Inherits(d, new) ==
  \A n \in DOMAIN d.val :
    n \in new \/ \E c \in Live : n \in DOMAIN c.val /\ d.val[n] = c.val[n]

(* Versions only grow.                                                     *)
VersionsGrow ==
  /\ version' \in [FlattenedInterface(P) -> Nat]
  /\ \A x \in FlattenedInterface(P) : version[x] <= version'[x]

(* The contexts D that the step makes inherit from live ones, and the new  *)
(* names are ones that no live context has yet.                            *)
Grows(D, new) ==
  /\ Live' \subseteq Live \cup D
  /\ \A c \in Live : new \cap DOMAIN c.val = {}
  /\ \A d \in D : StoreOK(P, version', d) /\ Inherits(d, new)
  /\ \A d, e \in D : \A n \in new :
       n \in DOMAIN d.val /\ n \in DOMAIN e.val => d.val[n] = e.val[n]

(* Then no live name has changed its value.                                *)
LEMMA StoresGrow ==
  ASSUME Inv, P' = P, VersionsGrow, NEW D, NEW new, Grows(D, new)
  PROVE  StoresKept
<1>1. ASSUME NEW c \in Live'
      PROVE  StoreOK(P, version', c)
  <2>1. CASE c \in D
    BY <2>1 DEF Grows
  <2>2. CASE c \in Live
    <3>1. version \in [FlattenedInterface(P) -> Nat] /\ StoreOK(P, version, c)
      BY <2>2 DEF Inv, ControlInv, EngineOK, StoresOK
    <3> QED BY <3>1, LaterVersions DEF VersionsGrow
  <2> QED BY <2>1, <2>2 DEF Grows
<1>2. ASSUME NEW c \in Live \cup D, NEW d \in Live \cup D,
             NEW n \in DOMAIN c.val \cap DOMAIN d.val
      PROVE  c.val[n] = d.val[n]
  <2>1. CASE n \in new
    BY <2>1 DEF Grows
  <2>2. CASE n \notin new
    <3>1. PICK a \in Live : n \in DOMAIN a.val /\ c.val[n] = a.val[n]
      BY <2>2 DEF Grows, Inherits
    <3>2. PICK b \in Live : n \in DOMAIN b.val /\ d.val[n] = b.val[n]
      BY <2>2 DEF Grows, Inherits
    <3> QED BY <3>1, <3>2 DEF Inv, NamesAgree
  <2> QED BY <2>1, <2>2
<1>3. StoresOK'
  BY <1>1 DEF StoresOK
<1>4. Live' \subseteq Live \cup D
  BY DEF Grows
<1>5. NamesAgree'
  BY <1>2, <1>4 DEF NamesAgree
<1>6. MeaningsAreKept
  BY <1>2, <1>4 DEF MeaningsAreKept
<1> QED BY <1>3, <1>5, <1>6 DEF StoresKept

(* Versions that stay as they are.                                         *)
LEMMA SameVersions ==
  ASSUME Inv, version' = version
  PROVE  VersionsGrow
<1>1. version \in [FlattenedInterface(P) -> Nat]
  BY DEF Inv, ControlInv, EngineOK
<1> QED BY <1>1 DEF VersionsGrow

(* Steps that only move contexts around, or let go of some.                *)
LEMMA NoNewContext ==
  ASSUME Inv, P' = P, version' = version, Live' \subseteq Live
  PROVE  StoresKept
<1>1. Grows({}, {})
  BY DEF Grows
<1> QED BY <1>1, SameVersions, StoresGrow

(* Contexts that inherit everything from a live one, in another place.     *)
LEMMA MovedContexts ==
  ASSUME Inv, P' = P, version' = version,
         NEW c \in Live, NEW D, Live' \subseteq Live \cup D,
         \A d \in D : StoreOK(P, version, d) /\ d.val = c.val
  PROVE  StoresKept
<1>1. Grows(D, {})
  BY DEF Grows, Inherits
<1> QED BY <1>1, SameVersions, StoresGrow

(* One context that gets new names, which no live context can have.        *)
LEMMA ExtendedContext ==
  ASSUME Inv, P' = P, VersionsGrow, NEW d, NEW new,
         \A c \in Live : new \cap DOMAIN c.val = {},
         Live' \subseteq Live \cup {d},
         StoreOK(P, version', d), Inherits(d, new)
  PROVE  StoresKept
<1>1. Grows({d}, new)
  BY DEF Grows
<1> QED BY <1>1, StoresGrow

(* What is left when the executor has returned.                            *)
LEMMA ReturnLive ==
  ASSUME ControlInv, NEW c \in explorer, Pop(c), NEW contexts, Return(contexts)
  PROVE  /\ P' = P /\ Live' \subseteq Live \cup RangeOf(contexts) /\ c \in Live
         /\ AtProgramExit(c) => Live = {c} /\ Live' = RangeOf(contexts)
<1>1. /\ P' = P /\ explorer' = explorer \ {c} /\ InMerger' = InMerger
      /\ held = <<>> /\ pending = <<>> /\ succeeding = {} /\ succeeding' = {}
  BY PopOK
<1>2. held' = <<>> /\ pending' = contexts
  BY <1>1 DEF Return
<1>3. RangeOf(held) = {} /\ RangeOf(held') = {} /\ RangeOf(pending) = {}
  BY <1>1, <1>2, ShortSeq
<1>4. AtProgramExit(c) => explorer = {c} /\ InMerger = {}
  <2>1. MergerIsEmpty => InMerger = {}
    BY ShortSeq DEF MergerIsEmpty, InMerger
  <2> QED BY <2>1 DEF ControlInv, ExitOK
<1> QED BY <1>1, <1>2, <1>3, <1>4 DEF Live

(* The clock, the loops of Engine::run and Engine::step, and the merger's  *)
(* first and last steps hand contexts on as they are.                      *)
LEMMA HandOnLive ==
  ASSUME Inv, \/ TimeOut \/ RunLoop \/ EndOfStep \/ LocalTermination
              \/ EndMerge \/ UNCHANGED vars
  PROVE  P' = P /\ version' = version /\ Live' \subseteq Live
<1>1. P' = P /\ version' = version /\ merger' = merger /\ InMerger' = InMerger
  BY DEF TimeOut, RunLoop, EndOfStep, LocalTermination, EndMerge, vars, contextVars,
         P, InMerger
<1>2. Live' \subseteq Live
  <2>1. CASE TimeOut \/ RunLoop \/ UNCHANGED vars
    BY <1>1, <2>1 DEF TimeOut, RunLoop, vars, contextVars, Live
  <2>2. CASE EndOfStep \/ LocalTermination
    BY <1>1, <2>2 DEF EndOfStep, LocalTermination, Live
  <2>3. CASE EndMerge
    <3>1. IsSeq(held) /\ held # <<>>
      BY <2>3 DEF EndMerge, Inv, ControlInv, EngineOK
    <3>2. held[1] \in RangeOf(held)
      BY <3>1, NonemptySeq
    <3> QED BY <1>1, <2>3, <3>2, ShortSeq DEF EndMerge, Live
  <2> QED BY <2>1, <2>2, <2>3
<1> QED BY <1>1, <1>2

(* So the stores stay what they are.                                       *)
LEMMA HandOnStores ==
  ASSUME Inv, \/ TimeOut \/ RunLoop \/ EndOfStep \/ LocalTermination
              \/ EndMerge \/ UNCHANGED vars
  PROVE  StoresKept
BY HandOnLive, NoNewContext

(* The contexts of one merge point are taken from the merger.              *)
LEMMA BeginMergeLive ==
  ASSUME Inv, BeginMerge
  PROVE  P' = P /\ version' = version /\ Live' \subseteq Live
<1>1. PICK m \in DOMAIN merger :
        held' = merger[m] /\ merger' = [merger EXCEPT ![m] = <<>>]
  BY DEF BeginMerge
<1>2. P' = P /\ version' = version
  BY DEF BeginMerge, P
<1>3. DOMAIN merger' = DOMAIN merger
      /\ \A k \in DOMAIN merger : RangeOf(merger'[k]) \subseteq RangeOf(merger[k])
  BY <1>1, ShortSeq
<1>4. RangeOf(held') \subseteq InMerger /\ InMerger' \subseteq InMerger
  BY <1>1, <1>3 DEF InMerger
<1>5. Live' \subseteq Live
  BY <1>4 DEF BeginMerge, Live
<1> QED BY <1>2, <1>5

(* So the stores stay what they are.                                       *)
LEMMA BeginMergeStores ==
  ASSUME Inv, BeginMerge
  PROVE  StoresKept
BY BeginMergeLive, NoNewContext

(* A succeeding context goes to the merger, the explorer or the next cycle.*)
LEMMA DispatchLive ==
  ASSUME Inv, Dispatch
  PROVE  P' = P /\ version' = version /\ Live' \subseteq Live
<1> DEFINE c == Head(pending)
<1>1. P' = P /\ version' = version /\ held' = held /\ pending' = Tail(pending)
  BY DEF Dispatch, P
<1>2. \/ /\ merger' = [merger EXCEPT ![MergePoint(c)] = Append(@, c)]
         /\ MergePoint(c) \in DOMAIN merger
         /\ explorer' = explorer /\ succeeding' = succeeding
      \/ /\ explorer' = explorer \cup {c}
         /\ merger' = merger /\ succeeding' = succeeding
      \/ /\ succeeding' = {c}
         /\ explorer' = explorer /\ merger' = merger
  BY Zenon DEF Dispatch, ReachedMergePoint
<1>3. c \in RangeOf(pending) /\ RangeOf(pending') \subseteq RangeOf(pending)
  <2>1. IsSeq(pending) /\ pending # <<>>
    BY DEF Inv, ControlInv, EngineOK, Dispatch
  <2> QED BY <1>1, <2>1, TailSeq
<1> HIDE DEF c
<1>4. InMerger' \subseteq InMerger \cup {c}
  <2>1. CASE /\ merger' = [merger EXCEPT ![MergePoint(c)] = Append(@, c)]
             /\ MergePoint(c) \in DOMAIN merger
    <3>1. \A k \in DOMAIN merger : RangeOf(merger'[k]) \subseteq RangeOf(merger[k]) \cup {c}
      <4>1. IsSeq(merger[MergePoint(c)])
        BY <2>1 DEF Inv, ControlInv, EngineOK
      <4> QED BY <2>1, <4>1, AppendSeq
    <3> QED BY <2>1, <3>1 DEF InMerger
  <2>2. CASE merger' = merger
    BY <2>2 DEF InMerger
  <2> QED BY <1>2, <2>1, <2>2
<1>5. Live' \subseteq Live
  BY <1>1, <1>2, <1>3, <1>4 DEF Live
<1> QED BY <1>1, <1>5

(* So the stores stay what they are.                                       *)
LEMMA DispatchStores ==
  ASSUME Inv, Dispatch
  PROVE  StoresKept
BY DispatchLive, NoNewContext

(* The join of two contexts.                                               *)
LEMMA MergePairStores ==
  ASSUME Inv, MergePair
  PROVE  StoresKept
<1> DEFINE c1 == held[1]
           c2 == held[2]
           d == Merge(P, version, c1, c2)
           new == MergedNames(version, c1, c2)
<1>1. /\ P' = P /\ explorer' = explorer /\ InMerger' = InMerger /\ pending' = pending
      /\ succeeding' = succeeding
      /\ held' = <<d>> \o SubSeq(held, 3, Len(held)) /\ IsSeq(held) /\ Len(held) > 1
      /\ version \in [FlattenedInterface(P) -> Nat]
      /\ version' = MergedVersions(version, c1, c2)
      /\ cycle \in Nat /\ phase = "merge"
  BY CycleBoundAssumption DEF MergePair, P, Inv, ControlInv, EngineOK, InMerger, MergedVersions
<1>2. /\ RangeOf(held') \subseteq {d} \cup RangeOf(held)
      /\ c1 \in RangeOf(held) /\ c2 \in RangeOf(held)
  <2> HIDE DEF d
  <2>1. Replaces(held, d, held')
    BY <1>1 DEF Replaces
  <2> QED BY <1>1, <2>1, ReplaceFirstTwo
<1>3. Live' \subseteq Live \cup {d} /\ c1 \in Live /\ c2 \in Live
  BY <1>1, <1>2 DEF Live
<1>4. /\ ContextOK(P, c1) /\ c1.cycle = cycle /\ StoreOK(P, version, c1)
      /\ ContextOK(P, c2) /\ c2.cycle = cycle /\ StoreOK(P, version, c2)
  BY <1>2, <1>3 DEF Inv, ControlInv, ContextsOK, CyclesOK, StoresOK
<1>5. d = Merge(P, version, c1, c2)
  OBVIOUS
<1>a. \A e \in Live : e.cycle = cycle /\ StoreOK(P, version, e)
  <2>1. RangeOf(pending) = {} /\ succeeding = {}
    BY <1>1, ShortSeq DEF Inv, ControlInv, PhasesOK, ExitOK
  <2> QED BY <2>1 DEF Inv, ControlInv, CyclesOK, StoresOK, Live
<1> HIDE DEF c1, c2, d
<1>6. /\ StoreOK(P, version', d)
      /\ DOMAIN d.val = DOMAIN c1.val \cup DOMAIN c2.val \cup new
      /\ \A n \in DOMAIN c1.val : d.val[n] = c1.val[n]
      /\ \A n \in DOMAIN c2.val \ DOMAIN c1.val : d.val[n] = c2.val[n]
  BY <1>1, <1>4, <1>5, MergeStore
<1>7. Inherits(d, new)
  <2> HIDE DEF new
  <2> QED BY <1>3, <1>6 DEF Inherits
<1>8. VersionsDiffer(c1, c2) \subseteq FlattenedInterface(P)
  BY <1>4 DEF VersionsDiffer, ContextOK
<1>9. VersionsGrow
  <2> DEFINE diff == VersionsDiffer(c1, c2)
  <2>1. version' = [x \in DOMAIN version |-> IF x \in diff THEN version[x] + 1 ELSE version[x]]
    BY <1>1 DEF MergedVersions
  <2> HIDE DEF diff
  <2> QED BY <1>1, <2>1 DEF VersionsGrow
<1>10. ASSUME NEW e \in Live
       PROVE  new \cap DOMAIN e.val = {}
  <2>1. SUFFICES ASSUME NEW x \in VersionsDiffer(c1, c2)
                 PROVE  MergedName(version, c1, x) \notin DOMAIN e.val
    BY DEF MergedNames
  <2> DEFINE k == version[x] + 1
  <2>2. x \in FlattenedInterface(P) /\ k \in Nat /\ k > version[x]
    BY <1>1, <1>8
  <2>3. MergedName(version, c1, x) = <<x, k, e.cycle>>
    BY <1>4, <1>a DEF MergedName
  <2> HIDE DEF k
  <2> QED BY <1>1, <1>a, <2>2, <2>3, NextNameIsNew
<1> HIDE DEF new
<1> QED BY <1>1, <1>3, <1>6, <1>7, <1>9, <1>10, ExtendedContext

(* The executor returns contexts that have the store of the popped one.    *)
LEMMA ReturnMoved ==
  ASSUME Inv, NEW c \in explorer, Pop(c), NEW contexts, Return(contexts),
         version' = version,
         \A d \in RangeOf(contexts) : StoreOK(P, version, d) /\ d.val = c.val
  PROVE  StoresKept
<1>1. P' = P /\ Live' \subseteq Live \cup RangeOf(contexts) /\ c \in Live
  BY ReturnLive DEF Inv
<1> QED BY <1>1, MovedContexts

(* Entry vertices and the intermediate vertices of decisions.              *)
LEMMA HandlePassThroughVertexStores ==
  ASSUME Inv, HandlePassThroughVertex
  PROVE  StoresKept
<1>1. PICK c \in explorer :
        /\ Pop(c)
        /\ Return(<<[c EXCEPT !.label = SucceedingLabel(CfgOf(P, Scope(c)), c.label)]>>)
        /\ version' = version
  BY DEF HandlePassThroughVertex
<1> DEFINE d == [c EXCEPT !.label = SucceedingLabel(CfgOf(P, Scope(c)), c.label)]
           contexts == <<d>>
<1>2. ContextOK(P, c) /\ StoreOK(P, version, c)
  BY DEF Inv, ControlInv, ContextsOK, StoresOK, Live
<1>3. d.val = c.val /\ d.pc = c.pc /\ d.ver = c.ver /\ d.cycle = c.cycle
  BY <1>2 DEF ContextOK
<1>4. Return(contexts)
  BY <1>1
<1> HIDE DEF d
<1>5. StoreOK(P, version, d)
  BY <1>2, <1>3, SameStore
<1>6. RangeOf(contexts) = {d}
  BY ShortSeq
<1> HIDE DEF contexts
<1> QED BY <1>1, <1>3, <1>4, <1>5, <1>6, ReturnMoved

(* The exit of a function block.                                           *)
LEMMA HandleFunctionBlockExitVertexStores ==
  ASSUME Inv, HandleFunctionBlockExitVertex
  PROVE  StoresKept
<1> DEFINE Caller(c) == [c EXCEPT !.label = ReturnLabel(c),
                                  !.stack = SubSeq(@, 1, Len(@) - 1)]
<1>1. PICK c \in explorer : Pop(c) /\ Return(<<Caller(c)>>) /\ version' = version
  BY Zenon DEF HandleFunctionBlockExitVertex
<1> DEFINE d == Caller(c)
           contexts == <<d>>
<1>2. ContextOK(P, c) /\ StoreOK(P, version, c)
  BY DEF Inv, ControlInv, ContextsOK, StoresOK, Live
<1>3. d.val = c.val /\ d.pc = c.pc /\ d.ver = c.ver /\ d.cycle = c.cycle
  BY <1>2 DEF ContextOK
<1>4. Return(contexts)
  BY <1>1
<1> HIDE DEF d, Caller
<1>5. StoreOK(P, version, d)
  BY <1>2, <1>3, SameStore
<1>6. RangeOf(contexts) = {d}
  BY ShortSeq
<1> HIDE DEF contexts
<1> QED BY <1>1, <1>3, <1>4, <1>5, <1>6, ReturnMoved

(* A literal over the names of the context joins its path constraint.      *)
LEMMA BranchStore ==
  ASSUME NEW p, NEW versions, NEW c, StoreOK(p, versions, c),
         NEW t, IsTerm(t), ArgumentsOf(t) \subseteq DOMAIN c.val, NEW sign,
         NEW d, d.val = c.val, d.ver = c.ver, d.cycle = c.cycle,
         d.pc = PushPathConstraint(c.pc, <<t, sign>>)
  PROVE  StoreOK(p, versions, d)
<1>1. \A lit \in UNION d.pc : lit \in UNION c.pc \/ lit = <<t, sign>>
  BY DEF PushPathConstraint
<1>2. \A u \in Terms(d) : u \in Terms(c) \/ u = t
  BY <1>1 DEF Terms
<1> QED BY <1>2 DEF StoreOK, StoreIsClosed, CurrentName

(* What the references of the popped vertex resolve to.                    *)
LEMMA PoppedReferences ==
  ASSUME Inv, NEW c \in explorer, Pop(c)
  PROVE  /\ ContextOK(P, c) /\ StoreOK(P, version, c) /\ c.cycle = cycle /\ cycle \in Nat
         /\ version \in [FlattenedInterface(P) -> Nat]
         /\ \A ref \in References(Vertex(c)) :
              Flatten(Scope(c), ref) \in FlattenedInterface(P)
<1>1. /\ ContextOK(P, c) /\ AtVertex(P, c) /\ Scope(c) \in DOMAIN P.scopes
      /\ c.cycle = cycle /\ cycle \in Nat
  BY PopOK DEF Inv
<1>2. StoreOK(P, version, c) /\ version \in [FlattenedInterface(P) -> Nat]
  BY DEF Inv, ControlInv, EngineOK, StoresOK, Live
<1>3. ReferencesResolve(P)
  BY CodeAssumption DEF Inv, ControlInv, EngineOK, P
<1>4. \A ref \in References(Vertex(c)) : Flatten(Scope(c), ref) \in FlattenedInterface(P)
  BY <1>1, <1>3 DEF ReferencesResolve, AtVertex, Vertex
<1> QED BY <1>1, <1>2, <1>4

(* Decisions.                                                              *)
LEMMA VisitIfInstructionStores ==
  ASSUME Inv, VisitIfInstruction
  PROVE  StoresKept
<1> DEFINE Cond(c) == Encode(c, Vertex(c).cond)
           Branch(c, sign, type) ==
             [c EXCEPT !.label = Target(CfgOf(P, Scope(c)), c.label, type),
                       !.pc = PushPathConstraint(@, <<Cond(c), sign>>)]
<1>1. PICK c \in explorer :
        /\ Pop(c)
        /\ Vertex(c).op = "if"
        /\ \/ Return(<<Branch(c, FALSE, "FALSE_BRANCH")>>)
           \/ Return(<<Branch(c, TRUE, "TRUE_BRANCH")>>)
           \/ Return(<<Branch(c, TRUE, "TRUE_BRANCH"), Branch(c, FALSE, "FALSE_BRANCH")>>)
        /\ version' = version
  BY Zenon DEF VisitIfInstruction
<1>2. /\ Pop(c) /\ version' = version
      /\ ContextOK(P, c) /\ StoreOK(P, version, c)
      /\ \A ref \in ArgumentsOf(Vertex(c).cond) :
           Flatten(Scope(c), ref) \in FlattenedInterface(P)
  BY <1>1, PoppedReferences DEF References
<1> DEFINE t == Cond(c)
<1>3. IsTerm(t) /\ ArgumentsOf(t) \subseteq DOMAIN c.val
  <2>1. \A x \in FlattenedInterface(P) : CurrentName(c, x) \in DOMAIN c.val
    BY <1>2 DEF StoreOK, StoreIsClosed
  <2> QED BY <1>2, <2>1, EncodedTerm
<1>4. ASSUME NEW sign, NEW type, NEW d, d = Branch(c, sign, type)
      PROVE  StoreOK(P, version, d) /\ d.val = c.val
  <2>1. /\ d.val = c.val /\ d.ver = c.ver /\ d.cycle = c.cycle
        /\ d.pc = PushPathConstraint(c.pc, <<t, sign>>)
    <3> HIDE DEF Cond
    <3> QED BY <1>2, <1>4 DEF ContextOK
  <2> HIDE DEF t
  <2> QED BY <1>2, <1>3, <2>1, BranchStore
<1> DEFINE positive == Branch(c, TRUE, "TRUE_BRANCH")
           negative == Branch(c, FALSE, "FALSE_BRANCH")
<1>5. StoreOK(P, version, positive) /\ positive.val = c.val
  <2> HIDE DEF Branch
  <2> QED BY <1>4
<1>6. StoreOK(P, version, negative) /\ negative.val = c.val
  <2> HIDE DEF Branch
  <2> QED BY <1>4
<1>7. \/ Return(<<negative>>)
      \/ Return(<<positive>>)
      \/ Return(<<positive, negative>>)
  BY <1>1, Zenon
<1> HIDE DEF positive, negative
<1>8. PICK contexts : Return(contexts) /\ RangeOf(contexts) \subseteq {positive, negative}
  <2>1. /\ RangeOf(<<positive>>) = {positive} /\ RangeOf(<<negative>>) = {negative}
        /\ RangeOf(<<positive, negative>>) = {positive, negative}
    BY ShortSeq
  <2> QED BY <1>7, <2>1
<1> QED BY <1>2, <1>5, <1>6, <1>8, ReturnMoved

(* Calls: the callee inherits the store of the caller.                     *)
LEMMA VisitCallInstructionStores ==
  ASSUME Inv, VisitCallInstruction
  PROVE  StoresKept
<1> DEFINE Callee(c) == [c EXCEPT !.stack =
                           Append(@, [scope |-> Append(Scope(c), Vertex(c).instance),
                                      ret |-> Target(CfgOf(P, Scope(c)), c.label,
                                                     "CALL_TO_RETURN")])]
           Entry(c) == Target(CfgOf(P, Scope(c)), c.label, "CALL")
<1>1. PICK c \in explorer :
        /\ Pop(c)
        /\ \/ Return(<<[Callee(c) EXCEPT !.label = Entry(c)]>>)
           \/ held' = <<Callee(c)>> /\ pending' = pending
        /\ version' = version
  BY Zenon DEF VisitCallInstruction
<1> DEFINE callee == Callee(c)
           l == Entry(c)
           d == [callee EXCEPT !.label = l]
<1>2. Pop(c) /\ version' = version
  BY <1>1
<1>3. Return(<<d>>) \/ (held' = <<callee>> /\ pending' = pending)
  BY <1>1, Zenon
<1>4. ContextOK(P, c) /\ StoreOK(P, version, c)
  BY DEF Inv, ControlInv, ContextsOK, StoresOK, Live
<1>5. callee.val = c.val /\ callee.pc = c.pc /\ callee.ver = c.ver /\ callee.cycle = c.cycle
      /\ Record(callee)
  <2> DEFINE stack == Append(c.stack, [scope |-> Append(Scope(c), Vertex(c).instance),
                                       ret |-> Target(CfgOf(P, Scope(c)), c.label,
                                                      "CALL_TO_RETURN")])
  <2>1. Record(c)
    BY <1>4 DEF ContextOK, Record
  <2>2. callee = [c EXCEPT !.stack = stack]
    BY Zenon
  <2> HIDE DEF stack, callee
  <2> QED BY <2>1, <2>2 DEF Record
<1> HIDE DEF Entry, callee
<1>6. d.val = c.val /\ d.pc = c.pc /\ d.ver = c.ver /\ d.cycle = c.cycle
  BY <1>5 DEF Record
<1> HIDE DEF d
<1>7. StoreOK(P, version, callee) /\ StoreOK(P, version, d)
  BY <1>4, <1>5, <1>6, SameStore
<1>8. CASE Return(<<d>>)
  <2> DEFINE contexts == <<d>>
  <2>1. Return(contexts) /\ RangeOf(contexts) = {d}
    BY <1>8, ShortSeq
  <2> HIDE DEF contexts
  <2> QED BY <1>2, <1>6, <1>7, <2>1, ReturnMoved
<1>9. CASE held' = <<callee>> /\ pending' = pending
  <2>1. /\ P' = P /\ explorer' = explorer \ {c} /\ InMerger' = InMerger
        /\ succeeding = {} /\ succeeding' = {}
    BY <1>2, PopOK DEF Inv
  <2>2. RangeOf(held') = {callee}
    BY <1>9, ShortSeq
  <2>3. c \in Live /\ Live' \subseteq Live \cup {callee}
    BY <1>9, <2>1, <2>2 DEF Live
  <2> DEFINE D == {callee}
  <2>4. Live' \subseteq Live \cup D /\ \A e \in D : StoreOK(P, version, e) /\ e.val = c.val
    BY <1>5, <1>7, <2>3
  <2> HIDE DEF D
  <2> QED BY <1>2, <2>1, <2>3, <2>4, MovedContexts
<1> QED BY <1>3, <1>8, <1>9

(* Assignments: the new name is fresh in every live context.               *)
LEMMA VisitAssignmentInstructionStores ==
  ASSUME Inv, VisitAssignmentInstruction
  PROVE  StoresKept
<1>1. PICK c \in explorer :
        /\ Pop(c)
        /\ Vertex(c).op = "assign"
        /\ LET x == Flatten(Scope(c), Vertex(c).var)
           IN  /\ version' = [version EXCEPT ![x] = @ + 1]
               /\ Return(<<Assign(P, version, c, x, Vertex(c).rhs,
                            Target(CfgOf(P, Scope(c)), c.label, "INTRAPROCEDURAL"))>>)
  BY DEF VisitAssignmentInstruction
<1> DEFINE x == Flatten(Scope(c), Vertex(c).var)
           e == Vertex(c).rhs
           l == Target(CfgOf(P, Scope(c)), c.label, "INTRAPROCEDURAL")
           d == Assign(P, version, c, x, e, l)
           contexts == <<d>>
           k == version[x] + 1
           new == {<<x, k, c.cycle>>}
<1>2. /\ ContextOK(P, c) /\ StoreOK(P, version, c) /\ c.cycle = cycle /\ cycle \in Nat
      /\ version \in [FlattenedInterface(P) -> Nat]
      /\ x \in FlattenedInterface(P)
      /\ \A ref \in ArgumentsOf(e) : Flatten(Scope(c), ref) \in FlattenedInterface(P)
  BY <1>1, PoppedReferences DEF References
<1>3. Return(contexts) /\ version' = AssignedVersions(version, x)
  BY <1>1 DEF AssignedVersions
<1>4. RangeOf(contexts) = {d}
  BY ShortSeq
<1> HIDE DEF contexts, x, e, l
<1>5. P' = P /\ Live' \subseteq Live \cup {d} /\ c \in Live
  BY <1>1, <1>3, <1>4, ReturnLive DEF Inv
<1>6. d = Assign(P, version, c, x, e, l)
  OBVIOUS
<1> HIDE DEF d
<1>7. /\ StoreOK(P, version', d)
      /\ DOMAIN d.val = DOMAIN c.val \cup new
      /\ \A n \in DOMAIN c.val : d.val[n] = c.val[n]
  BY <1>2, <1>3, <1>6, AssignStore
<1>8. Inherits(d, new)
  <2> HIDE DEF new
  <2> QED BY <1>5, <1>7 DEF Inherits
<1>9. VersionsGrow
  BY <1>2, <1>3 DEF VersionsGrow, AssignedVersions
<1>10. \A f \in Live : f.cycle = cycle /\ StoreOK(P, version, f)
  <2>1. held = <<>> /\ pending = <<>> /\ succeeding = {}
    BY <1>1, PopOK DEF Inv
  <2> QED BY <2>1, ShortSeq DEF Inv, ControlInv, CyclesOK, StoresOK, Live
<1>11. ASSUME NEW f \in Live
       PROVE  new \cap DOMAIN f.val = {}
  <2>1. k \in Nat /\ k > version[x]
    BY <1>2
  <2> HIDE DEF k
  <2>2. <<x, k, f.cycle>> \notin DOMAIN f.val
    BY <1>2, <1>10, <2>1, NextNameIsNew
  <2> QED BY <1>2, <1>10, <2>2
<1> HIDE DEF new
<1> QED BY <1>5, <1>7, <1>8, <1>9, <1>11, ExtendedContext

(* One more summary is applied.                                            *)
LEMMA ApplyNextSummaryStores ==
  ASSUME Inv, ApplyNextSummary
  PROVE  StoresKept
<1> DEFINE c == held[1]
           Summary(k) == SummariesAt(P, c)[k]
           Applied(k) == ApplySummary(P, version, c, Summary(k))
           LeaveCall(d) == [d EXCEPT !.label = ReturnLabel(c),
                                     !.stack = SubSeq(@, 1, Len(@) - 1)]
<1>1. PICK k \in todo :
        /\ pending' = Append(pending, LeaveCall(Applied(k)))
        /\ version' = [x \in DOMAIN version |->
                         IF x \in WrittenVariables(Summary(k)) THEN Applied(k).ver[x]
                                                               ELSE version[x]]
        /\ held' = IF todo = {k} THEN <<>> ELSE held
  BY Zenon DEF ApplyNextSummary
<1> DEFINE s == Summary(k)
           a == Applied(k)
           d == LeaveCall(a)
           f == P.scopes[Scope(c)]
           new == AppliedNames(version, c, s)
<1>2. /\ pending' = Append(pending, d)
      /\ version' = AppliedVersions(version, a, s)
      /\ held' = IF todo = {k} THEN <<>> ELSE held
  BY <1>1, Zenon DEF AppliedVersions
<1>3. /\ P' = P /\ phase = "summarize" /\ explorer' = explorer /\ InMerger' = InMerger
      /\ succeeding' = succeeding
  BY DEF ApplyNextSummary, P, InMerger
<1>4. /\ version \in [FlattenedInterface(P) -> Nat] /\ cycle \in Nat
      /\ IsSeq(pending) /\ IsSeq(held) /\ Len(held) = 1 /\ held # <<>>
      /\ todo \subseteq DOMAIN SummariesAt(P, c)
      /\ \A e \in RangeOf(pending) : e.cycle = cycle
      /\ succeeding = {}
  BY <1>3, CycleBoundAssumption DEF Inv, ControlInv, EngineOK, PhasesOK, ExitOK
<1>5. WellFormedSummaries(P) /\ ReferencesResolve(P)
  BY CodeAssumption DEF Inv, ControlInv, EngineOK, P
<1>6. c \in RangeOf(held)
  BY <1>4, NonemptySeq
<1>7. \A e \in Live : e.cycle = cycle /\ StoreOK(P, version, e)
  BY <1>4 DEF Inv, ControlInv, CyclesOK, StoresOK, Live
<1>8. c \in Live /\ ContextOK(P, c)
  BY <1>6 DEF Inv, ControlInv, ContextsOK, Live
<1>9. d = [a EXCEPT !.label = ReturnLabel(c), !.stack = SubSeq(@, 1, Len(@) - 1)]
  BY Zenon
<1>10. k \in DOMAIN SummariesAt(P, c) /\ a = ApplySummary(P, version, c, s)
       /\ s = SummariesAt(P, c)[k]
  BY <1>4
<1> HIDE DEF s, a, d, Summary, Applied, LeaveCall, c
<1>11. f \in DOMAIN P.summaries /\ k \in DOMAIN P.summaries[f] /\ s = P.summaries[f][k]
  BY <1>10, SummariesOfCallee
<1> HIDE DEF f
<1>12. /\ version' \in [FlattenedInterface(P) -> Nat]
       /\ \A x \in FlattenedInterface(P) : version[x] <= version'[x]
       /\ StoreOK(P, version', a)
       /\ DOMAIN a.val = DOMAIN c.val \cup new
       /\ \A n \in WrittenNames(s) :
            /\ n[1] \in FlattenedInterface(P)
            /\ n[2] + version[n[1]] + 1 \in Nat
            /\ n[2] + version[n[1]] + 1 > version[n[1]]
            /\ Reversion(version, c, s, n) = <<n[1], n[2] + version[n[1]] + 1, c.cycle>>
       /\ \A n \in DOMAIN c.val : a.val[n] = c.val[n]
  <2>1. c.cycle \in Nat /\ StoreOK(P, version, c)
    BY <1>4, <1>7, <1>8
  <2> HIDE DEF new
  <2> QED BY <1>2, <1>4, <1>5, <1>8, <1>10, <1>11, <2>1, ApplySummaryStore DEF new
<1>13. ContextOK(P, a)
  BY <1>4, <1>5, <1>8, <1>10, ApplySummaryOK
<1>14. d.val = a.val /\ d.pc = a.pc /\ d.ver = a.ver /\ d.cycle = a.cycle
  BY <1>9, <1>13 DEF ContextOK
<1>15. StoreOK(P, version', d)
  BY <1>12, <1>14, SameStore
<1>16. Inherits(d, new)
  <2> HIDE DEF new
  <2> QED BY <1>8, <1>12, <1>14 DEF Inherits
<1>17. ASSUME NEW e \in Live
       PROVE  new \cap DOMAIN e.val = {}
  <2>1. SUFFICES ASSUME NEW n \in WrittenNames(s)
                 PROVE  Reversion(version, c, s, n) \notin DOMAIN e.val
    BY DEF AppliedNames
  <2> DEFINE j == n[2] + version[n[1]] + 1
             x == n[1]
  <2>2. /\ x \in FlattenedInterface(P) /\ j \in Nat /\ j > version[x]
        /\ Reversion(version, c, s, n) = <<x, j, e.cycle>>
    BY <1>7, <1>8, <1>12
  <2> HIDE DEF j, x
  <2> QED BY <1>4, <1>7, <2>2, NextNameIsNew
<1>18. Live' \subseteq Live \cup {d}
  <2>1. RangeOf(pending') = RangeOf(pending) \cup {d}
    BY <1>2, <1>4, AppendSeq
  <2>2. RangeOf(held') \subseteq RangeOf(held)
    BY <1>2, ShortSeq
  <2> QED BY <1>3, <2>1, <2>2 DEF Live
<1>19. VersionsGrow
  BY <1>12 DEF VersionsGrow
<1> HIDE DEF new
<1> QED BY <1>3, <1>15, <1>16, <1>17, <1>18, <1>19, ExtendedContext

(* The exit of the program: the versions start over, and the one context   *)
(* that is left starts over with them.                                     *)
LEMMA HandleProgramExitVertexStores ==
  ASSUME Inv, HandleProgramExitVertex
  PROVE  StoresKept
<1>1. PICK c \in explorer :
        /\ Pop(c)
        /\ Vertex(c).type = "EXIT"
        /\ CfgOf(P, Scope(c)).type = "PROGRAM"
        /\ version' = [x \in DOMAIN version |-> 0]
        /\ Return(<<NextCycle(P, c)>>)
  BY DEF HandleProgramExitVertex
<1> DEFINE d == NextCycle(P, c)
           contexts == <<d>>
<1>2. /\ ContextOK(P, c) /\ StoreOK(P, version, c) /\ c.cycle = cycle /\ cycle \in Nat
      /\ version \in [FlattenedInterface(P) -> Nat]
  BY <1>1, PoppedReferences
<1>3. AtProgramExit(c)
  <2>1. WellFormed(P) /\ WellFormedVertex(P, Scope(c), c.label)
    BY <1>1, PopOK DEF Inv
  <2>2. Depth(c) = 1 /\ Scope(c) = MainScope(P)
    BY <1>1, <1>2, <2>1, FramesOfContext
  <2> QED BY <1>1, <2>1, <2>2 DEF AtProgramExit, WellFormedVertex, Vertex, MainCfg
<1>4. Return(contexts) /\ RangeOf(contexts) = {d}
  BY <1>1, ShortSeq
<1> HIDE DEF contexts
<1>5. P' = P /\ Live = {c} /\ Live' = {d}
  BY <1>1, <1>3, <1>4, ReturnLive DEF Inv
<1>6. d = NextCycle(P, c)
  OBVIOUS
<1> HIDE DEF d
<1>7. /\ StoreOK(P, [x \in FlattenedInterface(P) |-> 0], d)
      /\ \A n \in DOMAIN c.val : d.val[n] = c.val[n]
  BY <1>2, <1>6, NextCycleStore
<1>8. version' = [x \in FlattenedInterface(P) |-> 0]
  BY <1>1, <1>2
<1>9. StoresOK'
  BY <1>5, <1>7, <1>8 DEF StoresOK
<1>10. NamesAgree'
  BY <1>5 DEF NamesAgree
<1>11. MeaningsAreKept
  BY <1>5, <1>7 DEF MeaningsAreKept
<1> QED BY <1>9, <1>10, <1>11 DEF StoresKept

-----------------------------------------------------------------------------
(* What the engine always does.                                            *)

(* Every step keeps the stores.                                            *)
LEMMA NextStores == Inv /\ [Next]_vars => StoresKept
<1> SUFFICES ASSUME Inv, [Next]_vars PROVE StoresKept
  OBVIOUS
<1>1. CASE \/ TimeOut \/ RunLoop \/ EndOfStep \/ LocalTermination
           \/ EndMerge \/ UNCHANGED vars
  BY <1>1, HandOnStores
<1>2. CASE BeginMerge
  BY <1>2, BeginMergeStores
<1>3. CASE MergePair
  BY <1>3, MergePairStores
<1>4. CASE HandlePassThroughVertex
  BY <1>4, HandlePassThroughVertexStores
<1>5. CASE VisitAssignmentInstruction
  BY <1>5, VisitAssignmentInstructionStores
<1>6. CASE VisitIfInstruction
  BY <1>6, VisitIfInstructionStores
<1>7. CASE VisitCallInstruction
  BY <1>7, VisitCallInstructionStores
<1>8. CASE ApplyNextSummary
  BY <1>8, ApplyNextSummaryStores
<1>9. CASE HandleProgramExitVertex
  BY <1>9, HandleProgramExitVertexStores
<1>10. CASE HandleFunctionBlockExitVertex
  BY <1>10, HandleFunctionBlockExitVertexStores
<1>11. CASE Dispatch
  BY <1>11, DispatchStores
<1> QED BY <1>1, <1>2, <1>3, <1>4, <1>5, <1>6, <1>7, <1>8, <1>9, <1>10, <1>11
        DEF Next, EngineStep, Done

(* The first context has a good store, and is alone.                       *)
LEMMA InitStores == Init => StoresOK /\ NamesAgree
<1> SUFFICES ASSUME Init PROVE StoresOK /\ NamesAgree
  OBVIOUS
<1> DEFINE c == InitialContext(P)
<1>1. Live = {c}
  BY ShortSeq DEF Init, Live, InMerger
<1>2. version = [x \in FlattenedInterface(P) |-> 0]
  BY DEF Init
<1> HIDE DEF c
<1>3. StoreOK(P, version, c)
  BY <1>2, InitialStore DEF c
<1> QED BY <1>1, <1>3 DEF StoresOK, NamesAgree

(* The inductive invariant holds: where the contexts are, and what their   *)
(* stores know.                                                            *)
THEOREM InvHolds == Spec => []Inv
<1>1. Init => Inv
  BY InitOK, InitStores DEF Inv
<1>2. Inv /\ [Next]_vars => Inv'
  BY NextOK, NextStores DEF Inv, StoresKept
<1> QED BY <1>1, <1>2, PTL DEF Spec

(* The version after the executor's is a new one for every context that the*)
(* engine still has, so that State::setSymbolicValuation never finds a     *)
(* valuation for the name that it is given.                                *)
THEOREM FreshVersions == Spec => []VersionsAreFresh
<1>1. Inv => VersionsAreFresh
  BY DEF Inv, StoresOK, StoreOK, NameOK, VersionsAreFresh
<1> QED BY <1>1, InvHolds, PTL

(* The assertion of Merger::merge: what two contexts both have a name for, *)
(* they give the same value.                                               *)
THEOREM NamesAlwaysAgree == Spec => []NamesAgree
<1>1. Inv => NamesAgree
  BY DEF Inv
<1> QED BY <1>1, InvHolds, PTL

(* The look-ups of State::_symbolic_valuations find what they look for, and*)
(* no term that is given to the solver has a name that it knows nothing of.*)
THEOREM StoresAreClosed == Spec => [](\A c \in Live : StoreIsClosed(P, c))
<1>1. Inv => \A c \in Live : StoreIsClosed(P, c)
  BY DEF Inv, StoresOK, StoreOK
<1> QED BY <1>1, InvHolds, PTL

(* A valuation is never overwritten: what a name means in one context is   *)
(* what it means in all contexts of all later states that have it.         *)
THEOREM MeaningsArePermanent == Spec => NamesKeepTheirMeaning
<1>1. Inv /\ [Next]_vars => [MeaningsAreKept]_vars
  BY NextStores DEF StoresKept
<1> QED BY <1>1, InvHolds, PTL DEF Spec, NamesKeepTheirMeaning
==========================================================================
