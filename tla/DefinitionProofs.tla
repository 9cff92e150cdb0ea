-------------------------- MODULE DefinitionProofs --------------------------
(***************************************************************************)
(* The definition pipeline, for every set of structurally valid documents, *)
(* whatever the size of their graphs and in whatever order sets are        *)
(* iterated.  Inductions over data are arguments about a least             *)
(* counterexample (Least).                                                 *)
(***************************************************************************)
EXTENDS DefinitionPipeline, FiniteSetTheorems, SequenceTheorems, TLAPS

-----------------------------------------------------------------------------
(***************************************************************************)
(* Numbers, and the concatenation of the errors.                           *)
(***************************************************************************)
\* A set of natural numbers that is not empty has a least element.
LEMMA Least ==
    ASSUME NEW T, T \subseteq Nat, T # {}
    PROVE  \E n \in T : \A m \in T : n <= m
<1>. DEFINE R == OpToRel(<, Nat)
<1>1. IsWellFoundedOn(R, Nat)
  BY NatLessThanWellFounded
<1>2. \A x, y \in T : <<y, x>> \in R <=> y < x
  BY DEF OpToRel
<1>. HIDE DEF R
<1>3. PICK n \in T : \A m \in T : ~ (<<m, n>> \in R)
  BY <1>1, WFMin
<1>4. ASSUME NEW m \in T PROVE n <= m
  <2>1. ~(m < n) /\ m \in Nat /\ n \in Nat
    BY <1>2, <1>3
  <2>. QED
    BY <2>1
<1>. QED
  BY <1>4

\* Infinite descent.
LEMMA Descent ==
    ASSUME NEW T, T \subseteq Nat, \A n \in T : \E m \in T : m < n
    PROVE  T = {}
<1>. SUFFICES ASSUME T # {} PROVE FALSE
  OBVIOUS
<1>1. PICK n \in T : \A m \in T : n <= m
  BY Least
<1>2. PICK m \in T : m < n
  OBVIOUS
<1>3. n <= m /\ m \in Nat /\ n \in Nat
  BY <1>1
<1>. QED
  BY <1>2, <1>3

\* The recursion of FlattenSeq: f[i] concatenates the first i sequences.
Unfolds(ss, n, f) ==
    \A i \in 1..n : f[i] = IF i = 1 THEN ss[i] ELSE f[i - 1] \o ss[i]

\* There is such a function.
LEMMA UnfoldingExists ==
    ASSUME NEW E, NEW ss \in Seq(Seq(E)), Len(ss) # 0
    PROVE  \E f \in [1..Len(ss) -> Seq(E)] : Unfolds(ss, Len(ss), f)
<1>. DEFINE Done(n) == \E f \in [1..n -> Seq(E)] : Unfolds(ss, n, f)
            Bad == {n \in 1..Len(ss) : ~Done(n)}
<1>. SUFFICES ASSUME ~Done(Len(ss)) PROVE FALSE
  OBVIOUS
<1>1. Len(ss) \in Nat /\ \A i \in 1..Len(ss) : ss[i] \in Seq(E)
  BY LenProperties, ElementOfSeq
<1>2. Len(ss) \in Bad
  BY <1>1
<1>3. PICK n \in Bad : \A m \in Bad : n <= m
  <2>. HIDE DEF Bad
  <2>1. Bad \subseteq Nat
    BY <1>1 DEF Bad
  <2>. QED
    BY <1>2, <2>1, Least
<1>4. n \in 1..Len(ss) /\ ~Done(n)
  BY <1>3
<1>5. CASE n = 1
  <2>. DEFINE f == [i \in 1..1 |-> ss[1]]
  <2>1. f \in [1..1 -> Seq(E)] /\ Unfolds(ss, 1, f)
    BY <1>1, <1>4, <1>5 DEF Unfolds
  <2>. QED
    BY <2>1, <1>4, <1>5
<1>6. CASE n # 1
  <2>1. n - 1 \in 1..Len(ss) /\ Done(n - 1)
    <3>1. n - 1 \in 1..Len(ss) /\ ~(n <= n - 1)
      BY <1>1, <1>4, <1>6
    <3>. QED
      BY <1>3, <3>1
  <2>2. PICK f \in [1..n - 1 -> Seq(E)] : Unfolds(ss, n - 1, f)
    BY <2>1
  <2>. DEFINE g == [i \in 1..n |-> IF i = n THEN f[n - 1] \o ss[n] ELSE f[i]]
  <2>3. f[n - 1] \o ss[n] \in Seq(E)
    BY <1>1, <1>4, <2>1, <2>2, ConcatProperties
  <2>4. g \in [1..n -> Seq(E)]
    BY <1>1, <1>4, <2>2, <2>3
  <2>5. g[n] = f[n - 1] \o ss[n] /\ \A i \in 1..n - 1 : g[i] = f[i]
    <3>1. n \in 1..n /\ \A i \in 1..n - 1 : i \in 1..n /\ i # n
      BY <1>1, <1>4
    <3>. QED
      BY <3>1
  <2>. HIDE DEF g
  <2>6. Unfolds(ss, n, g)
    <3>. SUFFICES ASSUME NEW i \in 1..n
                  PROVE  g[i] = IF i = 1 THEN ss[i] ELSE g[i - 1] \o ss[i]
      BY DEF Unfolds
    <3>1. CASE i = n
      <4>1. n - 1 \in 1..n - 1
        BY <1>1, <1>4, <1>6
      <4>. QED
        BY <1>6, <2>5, <3>1, <4>1
    <3>2. CASE i # n
      <4>1. i \in 1..n - 1 /\ (i # 1 => i - 1 \in 1..n - 1)
        BY <1>1, <1>4, <3>2
      <4>. QED
        BY <2>2, <2>5, <4>1 DEF Unfolds
    <3>. QED
      BY <3>1, <3>2
  <2>. QED
    BY <1>4, <2>4, <2>6
<1>. QED
  BY <1>5, <1>6

\* FlattenSeq is the last value of that function.
LEMMA FlattenUnfolds ==
    ASSUME NEW E, NEW ss \in Seq(Seq(E)), Len(ss) # 0
    PROVE  \E f : Unfolds(ss, Len(ss), f) /\ FlattenSeq(ss) = f[Len(ss)]
<1>. DEFINE Is(f) == f = [i \in 1..Len(ss) |-> IF i = 1 THEN ss[i] ELSE f[i - 1] \o ss[i]]
            F == CHOOSE f : Is(f)
<1>1. \E f : Is(f)
  <2>1. PICK f \in [1..Len(ss) -> Seq(E)] : Unfolds(ss, Len(ss), f)
    BY UnfoldingExists
  <2>2. Is(f)
    BY <2>1 DEF Unfolds
  <2>. QED
    BY <2>2
<1>2. Is(F)
  <2>. HIDE DEF Is
  <2>. QED
    BY <1>1
<1>3. FlattenSeq(ss) = F[Len(ss)]
  BY DEF FlattenSeq
<1>4. Unfolds(ss, Len(ss), F)
  <2>. HIDE DEF F
  <2>. QED
    BY <1>2 DEF Unfolds
<1>. QED
  BY <1>3, <1>4

\* Concatenation keeps the type, and is empty when all that it joins is.
LEMMA FlattenFacts ==
    ASSUME NEW E, NEW ss \in Seq(Seq(E))
    PROVE  /\ FlattenSeq(ss) \in Seq(E)
           /\ FlattenSeq(ss) = <<>> <=> \A i \in 1..Len(ss) : ss[i] = <<>>
<1>1. Len(ss) \in Nat /\ \A i \in 1..Len(ss) : ss[i] \in Seq(E)
  BY LenProperties, ElementOfSeq
<1>2. CASE Len(ss) = 0
  <2>1. ss = <<>>
    BY <1>2, EmptySeq
  <2>2. FlattenSeq(ss) = ss
    BY <1>2 DEF FlattenSeq
  <2>3. FlattenSeq(ss) \in Seq(E)
    BY <2>1, <2>2, EmptySeq
  <2>4. 1..Len(ss) = {}
    BY <1>2
  <2>. QED
    BY <2>1, <2>2, <2>3, <2>4
<1>3. CASE Len(ss) # 0
  <2>1. PICK f : Unfolds(ss, Len(ss), f) /\ FlattenSeq(ss) = f[Len(ss)]
    BY <1>3, FlattenUnfolds
  <2>. DEFINE Good(n) == /\ f[n] \in Seq(E)
                         /\ f[n] = <<>> <=> \A i \in 1..n : ss[i] = <<>>
              Bad == {n \in 1..Len(ss) : ~Good(n)}
  <2>2. ASSUME NEW n \in Bad PROVE \E m \in Bad : m < n
    <3>1. n \in 1..Len(ss) /\ ~Good(n)
      BY <2>2
    <3>2. n # 1
      BY <1>1, <2>1, <3>1 DEF Unfolds
    <3>3. n - 1 \in 1..Len(ss) /\ n - 1 < n
      BY <1>1, <3>1, <3>2
    <3>4. f[n] = f[n - 1] \o ss[n]
      BY <2>1, <3>1, <3>2 DEF Unfolds
    <3>5. SUFFICES ASSUME Good(n - 1) PROVE FALSE
      BY <3>3
    <3>6. f[n] \in Seq(E) /\ (f[n] = <<>> <=> f[n - 1] = <<>> /\ ss[n] = <<>>)
      BY <1>1, <3>1, <3>4, <3>5, ConcatProperties, ConcatEqualIffEmpty
    <3>7. \A i \in 1..n : i = n \/ i \in 1..n - 1
      BY <1>1, <3>1
    <3>8. n \in 1..n /\ \A i \in 1..n - 1 : i \in 1..n
      BY <1>1, <3>1
    <3>. QED
      BY <3>1, <3>5, <3>6, <3>7, <3>8
  <2>3. Bad = {}
    <3>1. Bad \subseteq Nat
      BY <1>1
    <3>. HIDE DEF Bad
    <3>. QED
      BY <2>2, <3>1, Descent
  <2>4. Good(Len(ss))
    <3>1. Len(ss) \in 1..Len(ss)
      BY <1>1, <1>3
    <3>2. Len(ss) \notin Bad
      BY <2>3
    <3>. HIDE DEF Good
    <3>. QED
      BY <3>1, <3>2
  <2>. QED
    BY <2>1, <2>4
<1>. QED
  BY <1>2, <1>3

-----------------------------------------------------------------------------
(***************************************************************************)
(* The errors of the validator.                                            *)
(***************************************************************************)
\* A structurally valid document.
Document(d) ==
    /\ d \in [tasks : Seq(TaskDocument), outputs : Seq(Int)]
    /\ \A i, j \in DOMAIN d.tasks : d.tasks[i].id = d.tasks[j].id => i = j

\* The references of a task mean something.
TaskRefers(d, t) ==
    /\ \A i, j \in DOMAIN t.dependencies :
         t.dependencies[i] = t.dependencies[j] => i = j
    /\ \A i \in DOMAIN t.dependencies : t.dependencies[i] \in Ids(d) \ {t.id}
    /\ \A i \in DOMAIN t.sources :
         \E j \in DOMAIN t.dependencies : t.sources[i] = t.dependencies[j]

\* What the validator checks before it looks for cycles.
References(d) ==
    /\ d.tasks # <<>>
    /\ \A t \in ToSet(d.tasks) : TaskRefers(d, t)
    /\ \A i \in DOMAIN d.outputs : d.outputs[i] \in Ids(d)

Codes == {"EMPTY_WORKFLOW", "DUPLICATE_DEPENDENCY", "SELF_DEPENDENCY",
          "UNKNOWN_DEPENDENCY", "UNKNOWN_TASK_OUTPUT_SOURCE",
          "TASK_OUTPUT_SOURCE_NOT_DEPENDENCY", "UNKNOWN_WORKFLOW_OUTPUT_SOURCE",
          "ATTEMPTS_EXCEEDED_LIMIT"}

Fault == [code : Codes, task : Int]

\* Sound is what the validator checks, cycles included.
LEMMA SoundParts ==
    ASSUME NEW d
    PROVE  Sound(d) <=> References(d) /\ Constructible(d) /\ Schedulable(d)
BY DEF Sound, References, TaskRefers

\* The elements of a sequence.
LEMMA ToSetFacts ==
    ASSUME NEW S, NEW s \in Seq(S)
    PROVE  /\ Len(s) \in Nat
           /\ DOMAIN s = 1..Len(s)
           /\ ToSet(s) \subseteq S
           /\ \A x : x \in ToSet(s) <=> \E i \in 1..Len(s) : s[i] = x
BY LenProperties, ElementOfSeq DEF ToSet

\* The elements before a position.
LEMMA EarlierFacts ==
    ASSUME NEW S, NEW s \in Seq(S), NEW i \in 1..Len(s)
    PROVE  \A x : x \in ToSet(SubSeq(s, 1, i - 1)) <=> \E j \in 1..i - 1 : s[j] = x
<1>. DEFINE earlier == SubSeq(s, 1, i - 1)
<1>1. Len(s) \in Nat /\ \A j \in 1..Len(s) : s[j] \in S
  BY LenProperties, ElementOfSeq
<1>2. 1 \in Int /\ i - 1 \in Int /\ \A j \in 1..i - 1 : s[j] \in S
  BY <1>1
<1>3. /\ earlier \in Seq(S)
      /\ Len(earlier) = IF 1 <= i - 1 THEN i - 1 - 1 + 1 ELSE 0
      /\ \A j \in 1..i - 1 - 1 + 1 : earlier[j] = s[1 + j - 1]
  BY <1>2, SubSeqProperties
<1>4. i - 1 - 1 + 1 = i - 1 /\ \A j \in 1..i - 1 : 1 + j - 1 = j
  BY <1>1
<1>. HIDE DEF earlier
<1>5. Len(earlier) = i - 1 /\ \A j \in 1..i - 1 : earlier[j] = s[j]
  BY <1>1, <1>3, <1>4
<1>6. \A x : x \in ToSet(earlier) <=> \E j \in 1..i - 1 : s[j] = x
  BY <1>3, <1>5, ToSetFacts
<1>. QED
  BY <1>6 DEF earlier

\* A sequence over a set is one over a larger set.
LEMMA WiderSeq ==
    ASSUME NEW S, NEW T, S \subseteq T, NEW s \in Seq(S)
    PROVE  s \in Seq(T)
<1>1. Len(s) \in Nat /\ s \in [1..Len(s) -> S]
  BY LenProperties
<1>2. s \in [1..Len(s) -> T]
  BY <1>1
<1>. QED
  BY <1>1, <1>2, SeqDef

\* A report is empty unless there is something to report.
LEMMA ReportFacts ==
    ASSUME NEW bad \in BOOLEAN, NEW code \in Codes, NEW x \in Int
    PROVE  /\ Report(bad, code, x) \in Seq(Fault)
           /\ Report(bad, code, x) = <<>> <=> ~bad
<1>1. [code |-> code, task |-> x] \in Fault
  BY DEF Fault
<1>2. <<[code |-> code, task |-> x]>> \in Seq(Fault) /\ <<[code |-> code, task |-> x]>> # <<>>
  BY <1>1
<1>3. <<>> \in Seq(Fault)
  BY EmptySeq
<1>. QED
  BY <1>2, <1>3 DEF Report

\* The errors of one declared dependency.
LEMMA DependencyErrorsFacts ==
    ASSUME NEW t \in TaskDocument, NEW i \in 1..Len(t.dependencies)
    PROVE  /\ DependencyErrors(t, i) \in Seq(Fault)
           /\ DependencyErrors(t, i) = <<>> <=>
                /\ \A j \in 1..i - 1 : t.dependencies[j] # t.dependencies[i]
                /\ t.dependencies[i] \in Ids(doc) \ {t.id}
<1>. DEFINE d == t.dependencies[i]
            earlier == SubSeq(t.dependencies, 1, i - 1)
            A == Report(d \in ToSet(earlier), "DUPLICATE_DEPENDENCY", t.id)
            B == Report(d = t.id, "SELF_DEPENDENCY", t.id)
            C == Report(d \notin Ids(doc), "UNKNOWN_DEPENDENCY", t.id)
<1>1. t.dependencies \in Seq(Int) /\ t.id \in Int /\ Len(t.dependencies) \in Nat
  BY LenProperties DEF TaskDocument
<1>2. /\ {"DUPLICATE_DEPENDENCY", "SELF_DEPENDENCY", "UNKNOWN_DEPENDENCY"} \subseteq Codes
      /\ (d \in ToSet(earlier)) \in BOOLEAN /\ (d = t.id) \in BOOLEAN
      /\ (d \notin Ids(doc)) \in BOOLEAN
  BY DEF Codes
<1>3. d \in ToSet(earlier) <=> \E j \in 1..i - 1 : t.dependencies[j] = d
  BY <1>1, EarlierFacts
<1>. HIDE DEF earlier
<1>4. /\ A \in Seq(Fault) /\ B \in Seq(Fault) /\ C \in Seq(Fault)
      /\ A = <<>> <=> d \notin ToSet(earlier)
      /\ B = <<>> <=> d # t.id
      /\ C = <<>> <=> d \in Ids(doc)
  BY <1>1, <1>2, ReportFacts
<1>5. DependencyErrors(t, i) = A \o B \o C
  BY DEF DependencyErrors, earlier
<1>. HIDE DEF A, B, C
<1>6. /\ A \o B \in Seq(Fault) /\ A \o B \o C \in Seq(Fault)
      /\ A \o B = <<>> <=> A = <<>> /\ B = <<>>
      /\ A \o B \o C = <<>> <=> A \o B = <<>> /\ C = <<>>
  BY <1>4, ConcatProperties, ConcatEqualIffEmpty
<1>. QED
  BY <1>3, <1>4, <1>5, <1>6

\* The errors of one binding.
LEMMA BindingErrorsFacts ==
    ASSUME NEW t \in TaskDocument, NEW i \in 1..Len(t.sources)
    PROVE  /\ BindingErrors(t, i) \in Seq(Fault)
           /\ BindingErrors(t, i) = <<>> <=>
                t.sources[i] \in Ids(doc) /\ t.sources[i] \in ToSet(t.dependencies)
<1>1. /\ {"UNKNOWN_TASK_OUTPUT_SOURCE", "TASK_OUTPUT_SOURCE_NOT_DEPENDENCY"} \subseteq Codes
      /\ t.id \in Int /\ TRUE \in BOOLEAN
      /\ (t.sources[i] \notin ToSet(t.dependencies)) \in BOOLEAN
  BY DEF Codes, TaskDocument
<1>. QED
  BY <1>1, ReportFacts DEF BindingErrors

\* The concatenation of a family of sequences is empty when each of them is.
LEMMA JoinFacts ==
    ASSUME NEW E, NEW n \in Nat, NEW ss \in [1..n -> Seq(E)]
    PROVE  /\ FlattenSeq(ss) \in Seq(E)
           /\ FlattenSeq(ss) = <<>> <=> \A i \in 1..n : ss[i] = <<>>
<1>1. ss \in Seq(Seq(E)) /\ Len(ss) = n
  OBVIOUS
<1>. QED
  BY <1>1, FlattenFacts

\* The errors of one task.
LEMMA TaskErrorsFacts ==
    ASSUME NEW t \in TaskDocument
    PROVE  /\ TaskErrors(t) \in Seq(Fault)
           /\ TaskErrors(t) = <<>> <=> TaskRefers(doc, t) /\ t.max_attempts <= AttemptLimit
<1>. DEFINE n == Len(t.dependencies)
            m == Len(t.sources)
            A == Report(t.max_attempts > AttemptLimit, "ATTEMPTS_EXCEEDED_LIMIT", t.id)
            bs == [i \in 1..n |-> DependencyErrors(t, i)]
            cs == [i \in 1..m |-> BindingErrors(t, i)]
            B == FlattenSeq(bs)
            C == FlattenSeq(cs)
<1>1. /\ t.dependencies \in Seq(Int) /\ t.sources \in Seq(Int) /\ t.id \in Int
      /\ t.max_attempts \in Int /\ AttemptLimit \in Int
      /\ n \in Nat /\ m \in Nat /\ DOMAIN t.dependencies = 1..n /\ DOMAIN t.sources = 1..m
  BY LenProperties, PipelineAssumption DEF TaskDocument
<1>2. A \in Seq(Fault) /\ (A = <<>> <=> t.max_attempts <= AttemptLimit)
  <2>1. "ATTEMPTS_EXCEEDED_LIMIT" \in Codes /\ (t.max_attempts > AttemptLimit) \in BOOLEAN
    BY DEF Codes
  <2>2. A \in Seq(Fault) /\ (A = <<>> <=> ~(t.max_attempts > AttemptLimit))
    BY <1>1, <2>1, ReportFacts
  <2>. QED
    BY <1>1, <2>2
<1>3. B \in Seq(Fault) /\ (B = <<>> <=> \A i \in 1..n : DependencyErrors(t, i) = <<>>)
  <2>1. bs \in [1..n -> Seq(Fault)] /\ \A i \in 1..n : bs[i] = DependencyErrors(t, i)
    BY DependencyErrorsFacts
  <2>. HIDE DEF bs
  <2>. QED
    BY <1>1, <2>1, JoinFacts
<1>4. C \in Seq(Fault) /\ (C = <<>> <=> \A i \in 1..m : BindingErrors(t, i) = <<>>)
  <2>1. cs \in [1..m -> Seq(Fault)] /\ \A i \in 1..m : cs[i] = BindingErrors(t, i)
    BY BindingErrorsFacts
  <2>. HIDE DEF cs
  <2>. QED
    BY <1>1, <2>1, JoinFacts
<1>5. TaskErrors(t) = A \o B \o C
  BY DEF TaskErrors
<1>. HIDE DEF A, B, C, bs, cs
<1>6. /\ A \o B \in Seq(Fault) /\ A \o B \o C \in Seq(Fault)
      /\ A \o B = <<>> <=> A = <<>> /\ B = <<>>
      /\ A \o B \o C = <<>> <=> A \o B = <<>> /\ C = <<>>
  BY <1>2, <1>3, <1>4, ConcatProperties, ConcatEqualIffEmpty
<1>7. B = <<>> <=> /\ \A i, j \in 1..n : t.dependencies[i] = t.dependencies[j] => i = j
                   /\ \A i \in 1..n : t.dependencies[i] \in Ids(doc) \ {t.id}
  <2>1. B = <<>> <=> \A i \in 1..n :
                       /\ \A j \in 1..i - 1 : t.dependencies[j] # t.dependencies[i]
                       /\ t.dependencies[i] \in Ids(doc) \ {t.id}
    BY <1>3, DependencyErrorsFacts
  <2>2. (\A i \in 1..n : \A j \in 1..i - 1 : t.dependencies[j] # t.dependencies[i])
        <=> \A i, j \in 1..n : t.dependencies[i] = t.dependencies[j] => i = j
    <3>1. \A i \in 1..n : \A j \in 1..i - 1 : j \in 1..n /\ j # i
      BY <1>1
    <3>2. \A i, j \in 1..n : i = j \/ i \in 1..j - 1 \/ j \in 1..i - 1
      BY <1>1
    <3>. QED
      BY <3>1, <3>2
  <2>. QED
    BY <2>1, <2>2
<1>8. ASSUME B = <<>>
      PROVE  C = <<>> <=> \A i \in 1..m : \E j \in 1..n : t.sources[i] = t.dependencies[j]
  <2>1. C = <<>> <=> \A i \in 1..m : t.sources[i] \in Ids(doc) /\ t.sources[i] \in ToSet(t.dependencies)
    BY <1>4, BindingErrorsFacts
  <2>2. \A x : x \in ToSet(t.dependencies) <=> \E j \in 1..n : t.dependencies[j] = x
    BY <1>1, ToSetFacts
  <2>3. \A x \in ToSet(t.dependencies) : x \in Ids(doc)
    BY <1>7, <1>8, <2>2
  <2>. QED
    BY <2>1, <2>2, <2>3
<1>9. TaskRefers(doc, t) <=>
        /\ B = <<>>
        /\ \A i \in 1..m : \E j \in 1..n : t.sources[i] = t.dependencies[j]
  BY <1>1, <1>7 DEF TaskRefers
<1>. QED
  BY <1>2, <1>5, <1>6, <1>8, <1>9

\* The errors of a document: none, when its references resolve and the
\* attempts are within the limit.
LEMMA AllErrorsFacts ==
    ASSUME Document(doc)
    PROVE  /\ AllErrors \in Seq(Fault)
           /\ AllErrors = <<>> <=> References(doc) /\ Admissible(doc)
<1>1. /\ doc.tasks \in Seq(TaskDocument) /\ doc.outputs \in Seq(Int)
      /\ Len(doc.tasks) \in Nat /\ Len(doc.outputs) \in Nat
      /\ DOMAIN doc.outputs = 1..Len(doc.outputs)
  BY LenProperties DEF Document
<1>2. CASE doc.tasks = <<>>
  <2>1. "EMPTY_WORKFLOW" \in Codes /\ TRUE \in BOOLEAN /\ 0 \in Int
    BY DEF Codes
  <2>. QED
    BY <1>2, <2>1, ReportFacts DEF AllErrors, References
<1>3. CASE doc.tasks # <<>>
  <2>. DEFINE n == Len(doc.tasks)
              m == Len(doc.outputs)
              F(i) == Report(doc.outputs[i] \notin Ids(doc),
                             "UNKNOWN_WORKFLOW_OUTPUT_SOURCE", doc.outputs[i])
              as == [i \in 1..n |-> TaskErrors(doc.tasks[i])]
              bs == [i \in 1..m |-> F(i)]
              A == FlattenSeq(as)
              B == FlattenSeq(bs)
  <2>1. \A i \in 1..n : doc.tasks[i] \in TaskDocument
    BY <1>1, ElementOfSeq
  <2>2. A \in Seq(Fault) /\ (A = <<>> <=> \A i \in 1..n : TaskErrors(doc.tasks[i]) = <<>>)
    <3>1. as \in [1..n -> Seq(Fault)] /\ \A i \in 1..n : as[i] = TaskErrors(doc.tasks[i])
      BY <2>1, TaskErrorsFacts
    <3>. HIDE DEF as
    <3>. QED
      BY <1>1, <3>1, JoinFacts
  <2>3. \A i \in 1..m : F(i) \in Seq(Fault) /\ (F(i) = <<>> <=> doc.outputs[i] \in Ids(doc))
    <3>1. "UNKNOWN_WORKFLOW_OUTPUT_SOURCE" \in Codes
      BY DEF Codes
    <3>2. \A i \in 1..m : doc.outputs[i] \in Int /\ (doc.outputs[i] \notin Ids(doc)) \in BOOLEAN
      BY <1>1, ElementOfSeq
    <3>. QED
      BY <3>1, <3>2, ReportFacts
  <2>4. OutputErrors = B
    BY DEF OutputErrors
  <2>. HIDE DEF F
  <2>5. B \in Seq(Fault) /\ (B = <<>> <=> \A i \in 1..m : F(i) = <<>>)
    <3>1. bs \in [1..m -> Seq(Fault)] /\ \A i \in 1..m : bs[i] = F(i)
      BY <2>3
    <3>. HIDE DEF bs
    <3>. QED
      BY <1>1, <3>1, JoinFacts
  <2>6. AllErrors = A \o B
    BY <1>3, <2>4 DEF AllErrors
  <2>. HIDE DEF A, B
  <2>7. A \o B \in Seq(Fault) /\ (A \o B = <<>> <=> A = <<>> /\ B = <<>>)
    BY <2>2, <2>5, ConcatProperties, ConcatEqualIffEmpty
  <2>8. A = <<>> <=> \A t \in ToSet(doc.tasks) : TaskRefers(doc, t) /\ t.max_attempts <= AttemptLimit
    <3>1. \A t : t \in ToSet(doc.tasks) <=> \E i \in 1..n : doc.tasks[i] = t
      BY <1>1, ToSetFacts
    <3>2. A = <<>> <=> \A i \in 1..n : /\ TaskRefers(doc, doc.tasks[i])
                                       /\ doc.tasks[i].max_attempts <= AttemptLimit
      BY <2>1, <2>2, TaskErrorsFacts
    <3>. QED
      BY <3>1, <3>2
  <2>9. B = <<>> <=> \A i \in DOMAIN doc.outputs : doc.outputs[i] \in Ids(doc)
    BY <1>1, <2>3, <2>5
  <2>. QED
    BY <1>3, <2>6, <2>7, <2>8, <2>9 DEF References, Admissible
<1>. QED
  BY <1>2, <1>3

\* The errors reported are the first of them, at most max_errors.
LEMMA CutOffFacts ==
    ASSUME NEW s \in Seq(Fault)
    PROVE  /\ CutOff(s) \in Seq(Fault)
           /\ CutOff(s) = <<>> <=> s = <<>>
           /\ s # <<>> => Len(CutOff(s)) \in 1..MaxErrors
           /\ \A i \in DOMAIN CutOff(s) : CutOff(s)[i].code # "CYCLE_DETECTED"
<1>. DEFINE n == IF Len(s) > MaxErrors THEN MaxErrors ELSE Len(s)
            c == SubSeq(s, 1, n)
<1>1. Len(s) \in Nat /\ MaxErrors \in Nat \ {0} /\ (Len(s) = 0 <=> s = <<>>)
  BY LenProperties, EmptySeq, PipelineAssumption
<1>2. n \in Nat /\ n \in 0..Len(s) /\ n \in 0..MaxErrors /\ (n = 0 <=> s = <<>>)
  BY <1>1
<1>. HIDE DEF n
<1>3. c \in Seq(Fault) /\ Len(c) = n
  <2>1. \A j \in 1..n : s[j] \in Fault
    BY <1>1, <1>2, ElementOfSeq
  <2>2. c \in Seq(Fault) /\ Len(c) = IF 1 <= n THEN n - 1 + 1 ELSE 0
    BY <1>2, <2>1, SubSeqProperties
  <2>. QED
    BY <1>2, <2>2
<1>. HIDE DEF c
<1>4. c = <<>> <=> n = 0
  BY <1>2, <1>3, EmptySeq
<1>5. \A i \in DOMAIN c : c[i] \in Fault
  BY <1>3, LenProperties, ElementOfSeq
<1>6. \A f \in Fault : f.code # "CYCLE_DETECTED"
  BY DEF Fault, Codes
<1>7. CutOff(s) = c
  BY DEF CutOff, c, n
<1>. QED
  BY <1>2, <1>3, <1>4, <1>5, <1>6, <1>7

-----------------------------------------------------------------------------
(***************************************************************************)
(* Sequences without repetition, and sorting.                              *)
(***************************************************************************)
\* The elements of a sequence are finitely many: as many as it is long when
\* none is repeated.
LEMMA ToSetCount ==
    ASSUME NEW S, NEW s \in Seq(S)
    PROVE  /\ IsFiniteSet(ToSet(s))
           /\ Cardinality(ToSet(s)) <= Len(s)
           /\ Cardinality(ToSet(s)) = Len(s) <=>
                \A i, j \in DOMAIN s : s[i] = s[j] => i = j
<1>1. /\ Len(s) \in Nat /\ DOMAIN s = 1..Len(s)
      /\ \A x : x \in ToSet(s) <=> \E i \in 1..Len(s) : s[i] = x
  BY ToSetFacts
<1>2. s \in [1..Len(s) -> ToSet(s)]
  BY <1>1, LenProperties
<1>3. s \in Surjection(1..Len(s), ToSet(s))
  BY <1>1, <1>2 DEF Surjection
<1>4. IsFiniteSet(1..Len(s)) /\ Cardinality(1..Len(s)) = Len(s)
  <2>1. 1 \in Int /\ Len(s) \in Int /\ Len(s) >= 0
    BY <1>1
  <2>2. /\ IsFiniteSet(1..Len(s))
        /\ Cardinality(1..Len(s)) = IF 1 > Len(s) THEN 0 ELSE Len(s) - 1 + 1
    BY <2>1, FS_Interval
  <2>. QED
    BY <2>1, <2>2
<1>5. s \in Injection(1..Len(s), ToSet(s)) <=> \A i, j \in DOMAIN s : s[i] = s[j] => i = j
  BY <1>2 DEF Injection, IsInjective
<1>. QED
  BY <1>3, <1>4, <1>5, FS_Surjection

\* The orders in which a finite set can be iterated.
LEMMA SetToSeqsFacts ==
    ASSUME NEW S, IsFiniteSet(S), NEW s
    PROVE  s \in SetToSeqs(S) <=>
             /\ s \in Seq(S)
             /\ ToSet(s) = S
             /\ \A i, j \in DOMAIN s : s[i] = s[j] => i = j
<1>1. Cardinality(S) \in Nat
  BY FS_CardinalityType
<1>. DEFINE n == Cardinality(S)
<1>2. s \in SetToSeqs(S) <=> s \in [1..n -> S] /\ \A i, j \in 1..n : s[i] = s[j] => i = j
  BY DEF SetToSeqs
<1>3. ASSUME s \in [1..n -> S], \A i, j \in 1..n : s[i] = s[j] => i = j
      PROVE  /\ s \in Seq(S)
             /\ ToSet(s) = S
             /\ \A i, j \in DOMAIN s : s[i] = s[j] => i = j
  <2>1. s \in Seq(S) /\ Len(s) = n /\ DOMAIN s = 1..n
    BY <1>1, <1>3
  <2>2. Cardinality(ToSet(s)) = n /\ ToSet(s) \subseteq S
    BY <1>3, <2>1, ToSetCount, ToSetFacts
  <2>3. ToSet(s) = S
    BY <2>2, FS_Subset
  <2>. QED
    BY <1>3, <2>1, <2>3
<1>4. ASSUME s \in Seq(S), ToSet(s) = S, \A i, j \in DOMAIN s : s[i] = s[j] => i = j
      PROVE  s \in [1..n -> S] /\ \A i, j \in 1..n : s[i] = s[j] => i = j
  <2>1. Len(s) = n
    BY <1>4, ToSetCount
  <2>. QED
    BY <1>4, <2>1, LenProperties
<1>. QED
  BY <1>2, <1>3, <1>4

\* A finite set of numbers has a greatest one.
LEMMA GreatestExists ==
    ASSUME NEW S, S \subseteq Int, IsFiniteSet(S), S # {}
    PROVE  \E x \in S : \A y \in S : y <= x
<1>. DEFINE HasOne(T) == \E x \in T : \A y \in T : y <= x
            Lacks(T) == T # {} /\ IsFiniteSet(T) /\ ~HasOne(T)
            Bad == {n \in Nat : \E T \in SUBSET Int : Lacks(T) /\ Cardinality(T) = n}
<1>. SUFFICES ASSUME ~HasOne(S) PROVE FALSE
  OBVIOUS
<1>1. ASSUME NEW n \in Bad PROVE \E m \in Bad : m < n
  <2>1. PICK T \in SUBSET Int : Lacks(T) /\ Cardinality(T) = n
    BY <1>1
  <2>2. PICK x \in T : TRUE
    BY <2>1
  <2>. DEFINE U == T \ {x}
  <2>3. IsFiniteSet(U) /\ Cardinality(U) = n - 1 /\ Cardinality(U) \in Nat
    BY <2>1, <2>2, FS_RemoveElement, FS_CardinalityType
  <2>4. U # {}
    <3>. SUFFICES ASSUME U = {} PROVE FALSE
      OBVIOUS
    <3>1. x \in Int /\ \A y \in T : y = x
      BY <2>2
    <3>2. \A y \in T : y <= x
      BY <3>1
    <3>. QED
      BY <2>1, <2>2, <3>2
  <2>5. ~HasOne(U)
    <3>. SUFFICES ASSUME NEW z \in U, \A y \in U : y <= z PROVE FALSE
      OBVIOUS
    <3>1. z \in Int /\ x \in Int /\ z \in T
      BY <2>2
    <3>2. CASE x <= z
      <4>1. \A y \in T : y <= z
        BY <3>2
      <4>. QED
        BY <2>1, <3>1, <4>1
    <3>3. CASE z <= x
      <4>1. ASSUME NEW y \in T PROVE y <= x
        <5>1. y \in Int /\ (y = x \/ y <= z)
          OBVIOUS
        <5>. QED
          BY <3>1, <3>3, <5>1
      <4>. QED
        BY <2>1, <2>2, <4>1
    <3>. QED
      BY <3>1, <3>2, <3>3
  <2>. HIDE DEF HasOne
  <2>6. U \in SUBSET Int /\ Lacks(U)
    BY <2>3, <2>4, <2>5
  <2>7. n - 1 \in Bad
    BY <2>3, <2>6
  <2>8. n - 1 < n
    BY <1>1
  <2>. QED
    BY <2>7, <2>8
<1>2. Cardinality(S) \in Bad
  <2>. HIDE DEF HasOne
  <2>. QED
    BY FS_CardinalityType
<1>3. Bad \subseteq Nat
  OBVIOUS
<1>. HIDE DEF Bad
<1>. QED
  BY <1>1, <1>2, <1>3, Descent

\* A number is added to an ascending sequence of smaller ones.
LEMMA AppendAscending ==
    ASSUME NEW s \in Seq(Int), Ascending(s), NEW x \in Int, \A y \in ToSet(s) : y < x
    PROVE  /\ Append(s, x) \in Seq(Int)
           /\ Ascending(Append(s, x))
           /\ ToSet(Append(s, x)) = ToSet(s) \cup {x}
<1>. DEFINE a == Append(s, x)
<1>1. /\ Len(s) \in Nat /\ DOMAIN s = 1..Len(s)
      /\ \A i \in 1..Len(s) : s[i] \in Int
      /\ \A y : y \in ToSet(s) <=> \E i \in 1..Len(s) : s[i] = y
  BY ToSetFacts, ElementOfSeq
<1>2. /\ a \in Seq(Int) /\ Len(a) = Len(s) + 1 /\ DOMAIN a = 1..Len(s) + 1
      /\ \A i \in 1..Len(s) : a[i] = s[i]
      /\ a[Len(s) + 1] = x
  BY <1>1, AppendProperties, LenProperties
<1>. HIDE DEF a
<1>3. \A i \in 1..Len(s) + 1 : i \in 1..Len(s) \/ i = Len(s) + 1
  BY <1>1
<1>4. Len(s) + 1 \in 1..Len(s) + 1 /\ \A i \in 1..Len(s) : i \in 1..Len(s) + 1
  BY <1>1
<1>5. ToSet(a) = ToSet(s) \cup {x}
  <2>1. \A y : y \in ToSet(a) <=> \E i \in 1..Len(s) + 1 : a[i] = y
    BY <1>2, ToSetFacts
  <2>. QED
    BY <1>1, <1>2, <1>3, <1>4, <2>1
<1>6. ASSUME NEW i \in 1..Len(s) + 1, NEW j \in 1..Len(s) + 1, i < j PROVE a[i] < a[j]
  <2>1. i \in 1..Len(s)
    BY <1>1, <1>6
  <2>2. a[i] = s[i]
    BY <1>2, <2>1
  <2>3. CASE j = Len(s) + 1
    <3>1. s[i] \in ToSet(s)
      BY <1>1, <2>1
    <3>. QED
      BY <1>2, <2>2, <2>3, <3>1
  <2>4. CASE j \in 1..Len(s)
    <3>1. s[i] < s[j]
      BY <1>1, <1>6, <2>1, <2>4 DEF Ascending
    <3>. QED
      BY <1>2, <2>2, <2>4, <3>1
  <2>. QED
    BY <1>3, <2>3, <2>4
<1>7. Ascending(a)
  BY <1>2, <1>6 DEF Ascending
<1>. QED
  BY <1>2, <1>5, <1>7 DEF a

\* A finite set of numbers can be sorted.
LEMMA SortedExists ==
    ASSUME NEW S, S \subseteq Int, IsFiniteSet(S)
    PROVE  \E s \in Seq(Int) : Ascending(s) /\ ToSet(s) = S
<1>. DEFINE Has(T) == \E s \in Seq(Int) : Ascending(s) /\ ToSet(s) = T
            Bad == {n \in Nat : \E T \in SUBSET Int :
                                  IsFiniteSet(T) /\ ~Has(T) /\ Cardinality(T) = n}
<1>. SUFFICES ASSUME ~Has(S) PROVE FALSE
  OBVIOUS
<1>1. ASSUME NEW n \in Bad PROVE \E m \in Bad : m < n
  <2>1. PICK T \in SUBSET Int : IsFiniteSet(T) /\ ~Has(T) /\ Cardinality(T) = n
    BY <1>1
  <2>2. T # {}
    <3>1. <<>> \in Seq(Int) /\ DOMAIN <<>> = {}
      BY EmptySeq
    <3>2. Ascending(<<>>) /\ ToSet(<<>>) = {}
      BY <3>1 DEF Ascending, ToSet
    <3>. QED
      BY <2>1, <3>1, <3>2
  <2>3. PICK x \in T : \A y \in T : y <= x
    BY <2>1, <2>2, GreatestExists
  <2>. DEFINE U == T \ {x}
  <2>4. IsFiniteSet(U) /\ Cardinality(U) = n - 1 /\ Cardinality(U) \in Nat
    BY <2>1, <2>3, FS_RemoveElement, FS_CardinalityType
  <2>5. ~Has(U)
    <3>. SUFFICES ASSUME NEW s \in Seq(Int), Ascending(s), ToSet(s) = U PROVE FALSE
      OBVIOUS
    <3>1. x \in Int /\ \A y \in U : y < x
      <4>1. \A y \in U : y \in Int /\ y <= x /\ y # x
        BY <2>3
      <4>2. x \in Int
        BY <2>3
      <4>. QED
        BY <4>1, <4>2
    <3>2. Append(s, x) \in Seq(Int) /\ Ascending(Append(s, x)) /\ ToSet(Append(s, x)) = U \cup {x}
      BY <3>1, AppendAscending
    <3>3. U \cup {x} = T
      BY <2>3
    <3>. QED
      BY <2>1, <3>2, <3>3
  <2>. HIDE DEF Has
  <2>6. U \in SUBSET Int
    OBVIOUS
  <2>7. n - 1 \in Bad
    BY <2>4, <2>5, <2>6
  <2>8. n - 1 < n
    BY <1>1
  <2>. QED
    BY <2>7, <2>8
<1>2. Cardinality(S) \in Bad
  <2>. HIDE DEF Has
  <2>. QED
    BY FS_CardinalityType
<1>3. Bad \subseteq Nat
  OBVIOUS
<1>. HIDE DEF Bad
<1>. QED
  BY <1>1, <1>2, <1>3, Descent

\* What sorted returns has the elements of the set, each once.
LEMMA SortedFacts ==
    ASSUME NEW S, S \subseteq Int, IsFiniteSet(S)
    PROVE  /\ sorted(S) \in Seq(S)
           /\ ToSet(sorted(S)) = S
           /\ \A i, j \in DOMAIN sorted(S) : sorted(S)[i] = sorted(S)[j] => i = j
<1>1. PICK s \in Seq(Int) : Ascending(s) /\ ToSet(s) = S
  BY SortedExists
<1>2. s \in SetToSeqs(S)
  <2>1. Len(s) \in Nat /\ DOMAIN s = 1..Len(s) /\ \A i \in 1..Len(s) : s[i] \in Int /\ s[i] \in S
    BY <1>1, ToSetFacts, ElementOfSeq
  <2>2. s \in Seq(S)
    BY <2>1
  <2>3. ASSUME NEW i \in DOMAIN s, NEW j \in DOMAIN s, s[i] = s[j] PROVE i = j
    <3>1. i \in Int /\ j \in Int /\ s[i] \in Int /\ s[j] \in Int
      BY <2>1
    <3>2. (i < j => s[i] < s[j]) /\ (j < i => s[j] < s[i])
      BY <1>1 DEF Ascending
    <3>. QED
      BY <2>3, <3>1, <3>2
  <2>. QED
    BY <1>1, <2>2, <2>3, SetToSeqsFacts
<1>3. sorted(S) \in SetToSeqs(S)
  BY <1>1, <1>2 DEF sorted
<1>. QED
  BY <1>3, SetToSeqsFacts

-----------------------------------------------------------------------------
(***************************************************************************)
(* Documents, and what the codec makes of them.                            *)
(***************************************************************************)
\* A document has finitely many tasks, told apart by their names, and each
\* has finitely many dependencies.
LEMMA DocumentFacts ==
    ASSUME NEW d, Document(d)
    PROVE  /\ Ids(d) \subseteq Int /\ IsFiniteSet(Ids(d))
           /\ \A t \in ToSet(d.tasks) : t \in TaskDocument /\ t.id \in Ids(d)
           /\ \A t, u \in ToSet(d.tasks) : t.id = u.id => t = u
           /\ DOMAIN Deps(d) = Ids(d)
           /\ \A t \in ToSet(d.tasks) : Deps(d)[t.id] = ToSet(t.dependencies)
           /\ \A x \in Ids(d) : IsFiniteSet(Deps(d)[x]) /\ Deps(d)[x] \subseteq Int
           /\ \A x \in Ids(d) : \E t \in ToSet(d.tasks) : t.id = x
<1>1. /\ d.tasks \in Seq(TaskDocument) /\ Len(d.tasks) \in Nat /\ DOMAIN d.tasks = 1..Len(d.tasks)
      /\ ToSet(d.tasks) \subseteq TaskDocument
      /\ \A t : t \in ToSet(d.tasks) <=> \E i \in 1..Len(d.tasks) : d.tasks[i] = t
  BY ToSetFacts DEF Document
<1>2. \A t \in ToSet(d.tasks) : t \in TaskDocument /\ t.id \in Ids(d)
  BY <1>1 DEF Ids
<1>3. \A x \in Ids(d) : \E t \in ToSet(d.tasks) : t.id = x
  BY DEF Ids
<1>4. Ids(d) \subseteq Int
  BY <1>1, <1>3 DEF TaskDocument
<1>5. IsFiniteSet(Ids(d))
  <2>. DEFINE names == [i \in 1..Len(d.tasks) |-> d.tasks[i].id]
  <2>1. names \in Seq(Int) /\ Len(names) = Len(d.tasks)
    <3>1. \A i \in 1..Len(d.tasks) : d.tasks[i].id \in Int
      BY <1>1, <1>2, <1>4
    <3>. QED
      BY <1>1, <3>1
  <2>2. \A i \in 1..Len(d.tasks) : names[i] = d.tasks[i].id
    OBVIOUS
  <2>. HIDE DEF names
  <2>3. \A x : x \in ToSet(names) <=> \E i \in 1..Len(d.tasks) : d.tasks[i].id = x
    BY <2>1, <2>2, ToSetFacts
  <2>4. ToSet(names) = Ids(d)
    BY <1>1, <1>2, <1>3, <2>3
  <2>. QED
    BY <2>1, <2>4, ToSetCount
<1>6. ASSUME NEW t \in ToSet(d.tasks), NEW u \in ToSet(d.tasks), t.id = u.id PROVE t = u
  <2>1. PICK i \in 1..Len(d.tasks) : d.tasks[i] = t
    BY <1>1
  <2>2. PICK j \in 1..Len(d.tasks) : d.tasks[j] = u
    BY <1>1
  <2>3. \A k, l \in DOMAIN d.tasks : d.tasks[k].id = d.tasks[l].id => k = l
    BY DEF Document
  <2>4. i = j
    BY <1>1, <1>6, <2>1, <2>2, <2>3
  <2>. QED
    BY <2>1, <2>2, <2>4
<1>7. ASSUME NEW t \in ToSet(d.tasks) PROVE Deps(d)[t.id] = ToSet(t.dependencies)
  <2>1. {u \in ToSet(d.tasks) : u.id = t.id} = {t}
    BY <1>6
  <2>2. Deps(d)[t.id] = UNION {ToSet(u.dependencies) : u \in {t}}
    BY <1>2, <2>1 DEF Deps
  <2>. QED
    BY <2>2
<1>8. DOMAIN Deps(d) = Ids(d)
  BY DEF Deps
<1>9. ASSUME NEW x \in Ids(d) PROVE IsFiniteSet(Deps(d)[x]) /\ Deps(d)[x] \subseteq Int
  <2>1. PICK t \in ToSet(d.tasks) : t.id = x
    BY <1>3
  <2>2. t.dependencies \in Seq(Int)
    BY <1>2 DEF TaskDocument
  <2>3. Deps(d)[x] = ToSet(t.dependencies)
    BY <1>7, <2>1
  <2>. QED
    BY <2>2, <2>3, ToSetCount, ToSetFacts
<1>. QED
  BY <1>2, <1>3, <1>4, <1>5, <1>6, <1>7, <1>8, <1>9

\* Where references resolve, the dependencies of a task are other tasks.
LEMMA DependenciesAreTasks ==
    ASSUME NEW d, Document(d), References(d), NEW x \in Ids(d)
    PROVE  Deps(d)[x] \subseteq Ids(d) \ {x}
<1>1. PICK t \in ToSet(d.tasks) : t.id = x
  BY DocumentFacts
<1>2. t.dependencies \in Seq(Int) /\ Deps(d)[x] = ToSet(t.dependencies)
  BY <1>1, DocumentFacts DEF TaskDocument
<1>3. \A i \in DOMAIN t.dependencies : t.dependencies[i] \in Ids(d) \ {x}
  BY <1>1 DEF References, TaskRefers
<1>. QED
  BY <1>2, <1>3 DEF ToSet

\* A task as the specification holds it, and as the row does.
SpecTask(t) ==
    [id |-> t.id, dependencies |-> ToSet(t.dependencies),
     sources |-> t.sources, max_attempts |-> t.max_attempts]

StoredTask(t) ==
    [id |-> t.id, dependencies |-> sorted(ToSet(t.dependencies)),
     sources |-> t.sources, max_attempts |-> t.max_attempts]

\* A stored task has the dependencies of the document's, each once.
LEMMA StoredTaskFacts ==
    ASSUME NEW t \in TaskDocument
    PROVE  /\ StoredTask(t) \in TaskDocument
           /\ StoredTask(t).id = t.id
           /\ ToSet(StoredTask(t).dependencies) = ToSet(t.dependencies)
           /\ StoredTask(t).sources = t.sources
           /\ StoredTask(t).max_attempts = t.max_attempts
           /\ \A i, j \in DOMAIN StoredTask(t).dependencies :
                StoredTask(t).dependencies[i] = StoredTask(t).dependencies[j] => i = j
           /\ SpecTask(StoredTask(t)) = SpecTask(t)
           /\ SerializedTask(SpecTask(t)) = StoredTask(t)
<1>. DEFINE D == ToSet(t.dependencies)
<1>1. /\ t.id \in Int /\ t.dependencies \in Seq(Int) /\ t.sources \in Seq(Int)
      /\ t.max_attempts \in Int
  BY DEF TaskDocument
<1>2. D \subseteq Int /\ IsFiniteSet(D)
  BY <1>1, ToSetFacts, ToSetCount
<1>. HIDE DEF D
<1>3. /\ sorted(D) \in Seq(D) /\ ToSet(sorted(D)) = D
      /\ \A i, j \in DOMAIN sorted(D) : sorted(D)[i] = sorted(D)[j] => i = j
  BY <1>2, SortedFacts
<1>4. sorted(D) \in Seq(Int)
  BY <1>2, <1>3, WiderSeq
<1>5. StoredTask(t) = [id |-> t.id, dependencies |-> sorted(D),
                       sources |-> t.sources, max_attempts |-> t.max_attempts]
  BY DEF StoredTask, D
<1>6. SpecTask(t) = [id |-> t.id, dependencies |-> D,
                     sources |-> t.sources, max_attempts |-> t.max_attempts]
  BY DEF SpecTask, D
<1>7. SerializedTask(SpecTask(t)) = StoredTask(t)
  BY <1>5, <1>6 DEF SerializedTask
<1>8. SpecTask(StoredTask(t)) = SpecTask(t)
  BY <1>3, <1>5, <1>6 DEF SpecTask
<1>9. StoredTask(t) \in TaskDocument
  BY <1>1, <1>4, <1>5 DEF TaskDocument
<1>. QED
  BY <1>3, <1>5, <1>7, <1>8, <1>9 DEF D

\* The row is a structurally valid document of the stored tasks.
LEMMA SerializeFacts ==
    ASSUME NEW d, Document(d)
    PROVE  LET s == serialize_validated_spec(SpecOf(d))
           IN  /\ Document(s)
               /\ ToSet(s.tasks) = {StoredTask(t) : t \in ToSet(d.tasks)}
               /\ s.outputs = d.outputs
<1>. DEFINE tasks == {SpecTask(t) : t \in ToSet(d.tasks)}
            ids == sorted(Ids(d))
            rows == [i \in DOMAIN ids |-> SerializedTask(TaskNamed(tasks, ids[i]))]
            s == serialize_validated_spec(SpecOf(d))
<1>1. SpecOf(d).tasks = tasks /\ SpecOf(d).outputs = d.outputs
  BY DEF SpecOf, SpecTask
<1>2. {t.id : t \in tasks} = Ids(d)
  <2>1. \A t : SpecTask(t).id = t.id
    BY DEF SpecTask
  <2>. QED
    BY <2>1 DEF Ids
<1>3. s = [tasks |-> rows, outputs |-> d.outputs]
  BY <1>1, <1>2 DEF serialize_validated_spec
<1>4. /\ ids \in Seq(Ids(d)) /\ ToSet(ids) = Ids(d)
      /\ \A i, j \in DOMAIN ids : ids[i] = ids[j] => i = j
  BY DocumentFacts, SortedFacts
<1>5. /\ Len(ids) \in Nat /\ DOMAIN ids = 1..Len(ids) /\ \A i \in DOMAIN ids : ids[i] \in Ids(d)
      /\ \A x : x \in ToSet(ids) <=> \E i \in 1..Len(ids) : ids[i] = x
  BY <1>4, ToSetFacts, ElementOfSeq
<1>6. ASSUME NEW t \in ToSet(d.tasks) PROVE SerializedTask(TaskNamed(tasks, t.id)) = StoredTask(t)
  <2>1. \A u \in ToSet(d.tasks) : SpecTask(u).id = u.id
    BY DEF SpecTask
  <2>2. SpecTask(t) \in tasks /\ \A v \in tasks : v.id = t.id <=> v = SpecTask(t)
    BY <2>1, DocumentFacts
  <2>. HIDE DEF tasks
  <2>3. TaskNamed(tasks, t.id) = SpecTask(t)
    BY <2>2 DEF TaskNamed
  <2>4. t \in TaskDocument
    BY DocumentFacts
  <2>. QED
    BY <2>3, <2>4, StoredTaskFacts
<1>. HIDE DEF ids, tasks
<1>7. \A i \in 1..Len(ids) : \E t \in ToSet(d.tasks) : t.id = ids[i] /\ rows[i] = StoredTask(t)
  <2>. SUFFICES ASSUME NEW i \in 1..Len(ids)
                PROVE  \E t \in ToSet(d.tasks) : t.id = ids[i] /\ rows[i] = StoredTask(t)
    OBVIOUS
  <2>1. PICK t \in ToSet(d.tasks) : t.id = ids[i]
    BY <1>5, DocumentFacts
  <2>2. rows[i] = SerializedTask(TaskNamed(tasks, ids[i]))
    BY <1>5
  <2>. QED
    BY <1>6, <2>1, <2>2
<1>8. DOMAIN rows = 1..Len(ids)
  BY <1>5
<1>9. rows = [i \in 1..Len(ids) |-> rows[i]]
  BY <1>5
<1>. HIDE DEF rows
<1>10. \A t \in ToSet(d.tasks) : t \in TaskDocument /\ StoredTask(t) \in TaskDocument
                                  /\ StoredTask(t).id = t.id
  BY DocumentFacts, StoredTaskFacts
<1>11. rows \in Seq(TaskDocument) /\ Len(rows) = Len(ids)
  <2>1. \A i \in 1..Len(ids) : rows[i] \in TaskDocument
    BY <1>7, <1>10
  <2>. QED
    BY <1>5, <1>9, <2>1
<1>12. \A i, j \in 1..Len(ids) : rows[i].id = rows[j].id => i = j
  <2>1. \A i \in 1..Len(ids) : rows[i].id = ids[i]
    BY <1>7, <1>10
  <2>. QED
    BY <1>4, <1>5, <2>1
<1>13. ToSet(rows) = {StoredTask(t) : t \in ToSet(d.tasks)}
  <2>1. \A v : v \in ToSet(rows) <=> \E i \in 1..Len(ids) : rows[i] = v
    BY <1>11, ToSetFacts
  <2>2. ASSUME NEW t \in ToSet(d.tasks) PROVE \E i \in 1..Len(ids) : rows[i] = StoredTask(t)
    <3>1. PICK i \in 1..Len(ids) : ids[i] = t.id
      BY <1>4, <1>5, DocumentFacts
    <3>2. PICK u \in ToSet(d.tasks) : u.id = ids[i] /\ rows[i] = StoredTask(u)
      BY <1>7
    <3>. QED
      BY <3>1, <3>2, DocumentFacts
  <2>. QED
    BY <1>7, <2>1, <2>2
<1>14. s.tasks = rows /\ s.outputs = d.outputs
  BY <1>3
<1>15. d.outputs \in Seq(Int)
  BY DEF Document
<1>16. s \in [tasks : Seq(TaskDocument), outputs : Seq(Int)]
  BY <1>3, <1>11, <1>15
<1>17. Document(s)
  BY <1>8, <1>12, <1>14, <1>16 DEF Document
<1>. QED
  BY <1>13, <1>14, <1>17

\* The row describes the same workflow, and passes the same checks.
LEMMA StoredMeansTheSame ==
    ASSUME NEW d, Document(d)
    PROVE  LET s == serialize_validated_spec(SpecOf(d))
           IN  /\ Ids(s) = Ids(d)
               /\ Deps(s) = Deps(d)
               /\ SpecOf(s) = SpecOf(d)
               /\ Constructible(d) => Constructible(s)
               /\ References(d) => References(s)
<1>. DEFINE s == serialize_validated_spec(SpecOf(d))
<1>1. /\ Document(s) /\ s.outputs = d.outputs
      /\ ToSet(s.tasks) = {StoredTask(t) : t \in ToSet(d.tasks)}
  BY SerializeFacts
<1>. HIDE DEF s
<1>2. \A t \in ToSet(d.tasks) : t \in TaskDocument
  BY DocumentFacts
<1>3. Ids(s) = Ids(d)
  <2>1. \A t \in ToSet(d.tasks) : StoredTask(t).id = t.id
    BY <1>2, StoredTaskFacts
  <2>. QED
    BY <1>1, <2>1 DEF Ids
<1>4. Deps(s) = Deps(d)
  <2>1. ASSUME NEW x \in Ids(d) PROVE Deps(s)[x] = Deps(d)[x]
    <3>1. PICK t \in ToSet(d.tasks) : t.id = x
      BY DocumentFacts
    <3>2. Deps(d)[x] = ToSet(t.dependencies)
      BY <3>1, DocumentFacts
    <3>3. StoredTask(t) \in ToSet(s.tasks) /\ StoredTask(t).id = x
      BY <1>1, <1>2, <3>1, StoredTaskFacts
    <3>4. Deps(s)[x] = ToSet(StoredTask(t).dependencies)
      BY <1>1, <3>3, DocumentFacts
    <3>. QED
      BY <1>2, <3>2, <3>4, StoredTaskFacts
  <2>2. DOMAIN Deps(s) = Ids(d) /\ DOMAIN Deps(d) = Ids(d)
    BY <1>1, <1>3, DocumentFacts
  <2>3. /\ Deps(s) = [x \in Ids(d) |-> Deps(s)[x]]
        /\ Deps(d) = [x \in Ids(d) |-> Deps(d)[x]]
    BY <1>3 DEF Deps
  <2>. QED
    BY <2>1, <2>3
<1>5. SpecOf(s) = SpecOf(d)
  <2>1. \A t \in ToSet(d.tasks) : SpecTask(StoredTask(t)) = SpecTask(t)
    BY <1>2, StoredTaskFacts
  <2>2. {SpecTask(t) : t \in ToSet(s.tasks)} = {SpecTask(t) : t \in ToSet(d.tasks)}
    BY <1>1, <2>1
  <2>3. \A e : SpecOf(e) = [tasks |-> {SpecTask(t) : t \in ToSet(e.tasks)}, outputs |-> e.outputs]
    BY DEF SpecOf, SpecTask
  <2>. QED
    BY <1>1, <2>2, <2>3
<1>6. ASSUME Constructible(d) PROVE Constructible(s)
  <2>. DEFINE Builds(t) ==
         /\ ({t.id} \cup ToSet(t.dependencies) \cup ToSet(t.sources)) \cap Invalid = {}
         /\ t.max_attempts >= 1
  <2>1. \A t \in ToSet(d.tasks) : Builds(t)
    BY <1>6 DEF Constructible
  <2>2. \A t \in ToSet(d.tasks) : Builds(StoredTask(t))
    BY <1>2, <2>1, StoredTaskFacts
  <2>. HIDE DEF Builds
  <2>3. \A t \in ToSet(s.tasks) : Builds(t)
    BY <1>1, <2>2
  <2>4. ToSet(s.outputs) \cap Invalid = {}
    BY <1>1, <1>6 DEF Constructible
  <2>. QED
    BY <2>3, <2>4 DEF Constructible, Builds
<1>7. ASSUME References(d) PROVE References(s)
  <2>1. ASSUME NEW t \in ToSet(d.tasks) PROVE TaskRefers(s, StoredTask(t))
    <3>. DEFINE u == StoredTask(t)
    <3>1. t \in TaskDocument
      BY <1>2
    <3>2. /\ u \in TaskDocument /\ u.id = t.id /\ u.sources = t.sources
          /\ ToSet(u.dependencies) = ToSet(t.dependencies)
          /\ \A i, j \in DOMAIN u.dependencies : u.dependencies[i] = u.dependencies[j] => i = j
      BY <3>1, StoredTaskFacts
    <3>. HIDE DEF u
    <3>3. TaskRefers(d, t)
      BY <1>7 DEF References
    <3>4. \A v : v \in ToSet(t.dependencies) => v \in Ids(d) \ {t.id}
      BY <3>3 DEF TaskRefers, ToSet
    <3>5. \A i \in DOMAIN u.dependencies : u.dependencies[i] \in ToSet(u.dependencies)
      BY DEF ToSet
    <3>6. \A i \in DOMAIN t.sources : t.sources[i] \in ToSet(t.dependencies)
      BY <3>3 DEF TaskRefers, ToSet
    <3>7. \A i \in DOMAIN u.sources : \E j \in DOMAIN u.dependencies : u.sources[i] = u.dependencies[j]
      <4>1. \A i \in DOMAIN u.sources : u.sources[i] \in ToSet(u.dependencies)
        BY <3>2, <3>6
      <4>. QED
        BY <4>1 DEF ToSet
    <3>8. TaskRefers(s, u)
      BY <1>3, <3>2, <3>4, <3>5, <3>7 DEF TaskRefers
    <3>. QED
      BY <3>8 DEF u
  <2>2. \A t \in ToSet(s.tasks) : TaskRefers(s, t)
    BY <1>1, <2>1
  <2>3. s.tasks # <<>>
    <3>1. d.tasks \in Seq(TaskDocument) /\ d.tasks # <<>>
      BY <1>7 DEF Document, References
    <3>2. 1 \in DOMAIN d.tasks
      BY <3>1
    <3>3. d.tasks[1] \in ToSet(d.tasks)
      BY <3>2 DEF ToSet
    <3>4. ToSet(s.tasks) # {}
      BY <1>1, <3>3
    <3>5. DOMAIN <<>> = {}
      OBVIOUS
    <3>. QED
      BY <3>4, <3>5 DEF ToSet
  <2>4. \A i \in DOMAIN s.outputs : s.outputs[i] \in Ids(s)
    BY <1>1, <1>3, <1>7 DEF References
  <2>. QED
    BY <2>2, <2>3, <2>4 DEF References
<1>. QED
  BY <1>3, <1>4, <1>5, <1>6, <1>7 DEF s

\* deserialize_validated_spec checks what the validator does.
LEMMA LoadChecksAreTheValidators ==
    ASSUME Document(stored), Constructible(stored)
    PROVE  /\ stored.tasks # <<>>
           /\ \A t \in ToSet(stored.tasks) : StoredTaskIsSound(t)
           /\ ToSet(stored.outputs) \subseteq Ids(stored)
           <=> References(stored)
<1>1. \A t \in ToSet(stored.tasks) : t \in TaskDocument /\ t.max_attempts >= 1
  BY DocumentFacts DEF Constructible
<1>2. ASSUME NEW t \in ToSet(stored.tasks) PROVE StoredTaskIsSound(t) <=> TaskRefers(stored, t)
  <2>1. t.dependencies \in Seq(Int) /\ t.sources \in Seq(Int)
    BY <1>1 DEF TaskDocument
  <2>2. Cardinality(ToSet(t.dependencies)) = Len(t.dependencies) <=>
          \A i, j \in DOMAIN t.dependencies : t.dependencies[i] = t.dependencies[j] => i = j
    BY <2>1, ToSetCount
  <2>3. t.id \notin ToSet(t.dependencies) /\ ToSet(t.dependencies) \subseteq Ids(stored) <=>
          \A i \in DOMAIN t.dependencies : t.dependencies[i] \in Ids(stored) \ {t.id}
    BY DEF ToSet
  <2>4. ToSet(t.sources) \subseteq ToSet(t.dependencies) <=>
          \A i \in DOMAIN t.sources : \E j \in DOMAIN t.dependencies : t.sources[i] = t.dependencies[j]
    BY DEF ToSet
  <2>. QED
    BY <1>1, <2>2, <2>3, <2>4 DEF StoredTaskIsSound, TaskRefers
<1>3. ToSet(stored.outputs) \subseteq Ids(stored) <=>
        \A i \in DOMAIN stored.outputs : stored.outputs[i] \in Ids(stored)
  BY DEF ToSet
<1>. QED
  BY <1>2, <1>3 DEF References

-----------------------------------------------------------------------------
(***************************************************************************)
(* Kahn's reduction.                                                       *)
(***************************************************************************)
Distinct(s) == \A i, j \in DOMAIN s : s[i] = s[j] => i = j

(***************************************************************************)
(* What a step of the reduction keeps: the in-degree of a task counts the  *)
(* dependencies that have not been popped, a task is in the queue or       *)
(* popped when all of its dependencies have been popped, never twice, and  *)
(* the tasks are popped after their dependencies.                          *)
(***************************************************************************)
Reducing(d, degree, q, v) ==
    /\ v \in Seq(Ids(d)) /\ q \in Seq(Ids(d))
    /\ Distinct(v) /\ Distinct(q)
    /\ ToSet(v) \cap ToSet(q) = {}
    /\ degree \in [Ids(d) -> Nat]
    /\ \A x \in Ids(d) : degree[x] = Cardinality(Deps(d)[x] \ ToSet(v))
    /\ \A x \in Ids(d) : Deps(d)[x] \subseteq ToSet(v) <=> x \in ToSet(v) \cup ToSet(q)
    /\ \A i \in 1..Len(v) : \A y \in Deps(d)[v[i]] : \E j \in 1..i - 1 : v[j] = y

\* A task that is not in the sequence is appended.
LEMMA AppendDistinct ==
    ASSUME NEW S, NEW s \in Seq(S), Distinct(s), NEW x \in S, x \notin ToSet(s)
    PROVE  /\ Append(s, x) \in Seq(S)
           /\ Len(Append(s, x)) = Len(s) + 1
           /\ Append(s, x)[Len(s) + 1] = x
           /\ \A i \in 1..Len(s) : Append(s, x)[i] = s[i]
           /\ Distinct(Append(s, x))
           /\ ToSet(Append(s, x)) = ToSet(s) \cup {x}
<1>. DEFINE a == Append(s, x)
<1>1. /\ Len(s) \in Nat /\ DOMAIN s = 1..Len(s)
      /\ \A y : y \in ToSet(s) <=> \E i \in 1..Len(s) : s[i] = y
  BY ToSetFacts
<1>2. /\ a \in Seq(S) /\ Len(a) = Len(s) + 1 /\ DOMAIN a = 1..Len(s) + 1
      /\ \A i \in 1..Len(s) : a[i] = s[i]
      /\ a[Len(s) + 1] = x
  BY <1>1, AppendProperties, LenProperties
<1>. HIDE DEF a
<1>3. \A i \in 1..Len(s) + 1 : i \in 1..Len(s) \/ i = Len(s) + 1
  BY <1>1
<1>4. Len(s) + 1 \in 1..Len(s) + 1 /\ \A i \in 1..Len(s) : i \in 1..Len(s) + 1
  BY <1>1
<1>5. ToSet(a) = ToSet(s) \cup {x}
  <2>1. \A y : y \in ToSet(a) <=> \E i \in 1..Len(s) + 1 : a[i] = y
    BY <1>2, ToSetFacts
  <2>. QED
    BY <1>1, <1>2, <1>3, <1>4, <2>1
<1>6. Distinct(a)
  <2>1. \A i \in 1..Len(s) : s[i] # x
    BY <1>1
  <2>. QED
    BY <1>1, <1>2, <1>3, <2>1 DEF Distinct
<1>. QED
  BY <1>2, <1>5, <1>6 DEF a

\* The head of a queue without repetitions is not in its tail.
LEMMA TailDistinct ==
    ASSUME NEW S, NEW s \in Seq(S), s # <<>>, Distinct(s)
    PROVE  /\ Head(s) \in S
           /\ Tail(s) \in Seq(S)
           /\ Distinct(Tail(s))
           /\ ToSet(s) = ToSet(Tail(s)) \cup {Head(s)}
           /\ Head(s) \notin ToSet(Tail(s))
<1>. DEFINE u == Tail(s)
<1>1. /\ Len(s) \in Nat /\ Len(s) # 0 /\ DOMAIN s = 1..Len(s)
      /\ \A i \in 1..Len(s) : s[i] \in S
      /\ \A y : y \in ToSet(s) <=> \E i \in 1..Len(s) : s[i] = y
  BY ToSetFacts, ElementOfSeq, EmptySeq
<1>2. /\ u \in Seq(S) /\ Len(u) = Len(s) - 1 /\ DOMAIN u = 1..Len(s) - 1
      /\ \A i \in 1..Len(s) - 1 : u[i] = s[i + 1]
      /\ Head(s) = s[1]
  BY <1>1, HeadTailProperties, LenProperties
<1>. HIDE DEF u
<1>3. 1 \in 1..Len(s) /\ \A i \in 1..Len(s) - 1 : i + 1 \in 1..Len(s) /\ i + 1 # 1
  BY <1>1
<1>4. \A i \in 1..Len(s) : i = 1 \/ (i - 1 \in 1..Len(s) - 1 /\ i - 1 + 1 = i)
  BY <1>1
<1>5. \A y : y \in ToSet(u) <=> \E i \in 1..Len(s) - 1 : s[i + 1] = y
  BY <1>2, ToSetFacts
<1>6. ToSet(s) = ToSet(u) \cup {s[1]}
  <2>1. ASSUME NEW y \in ToSet(s) PROVE y \in ToSet(u) \cup {s[1]}
    <3>1. PICK i \in 1..Len(s) : s[i] = y
      BY <1>1
    <3>. QED
      BY <1>4, <1>5, <3>1
  <2>2. ASSUME NEW y \in ToSet(u) PROVE y \in ToSet(s)
    BY <1>1, <1>3, <1>5
  <2>3. s[1] \in ToSet(s)
    BY <1>1, <1>3
  <2>. QED
    BY <2>1, <2>2, <2>3
<1>7. s[1] \notin ToSet(u)
  BY <1>1, <1>3, <1>5 DEF Distinct
<1>8. Distinct(u)
  <2>. SUFFICES ASSUME NEW i \in 1..Len(s) - 1, NEW j \in 1..Len(s) - 1, u[i] = u[j] PROVE i = j
    BY <1>2 DEF Distinct
  <2>1. i + 1 = j + 1
    BY <1>1, <1>2, <1>3 DEF Distinct
  <2>. QED
    BY <1>1, <2>1
<1>. QED
  BY <1>1, <1>2, <1>3, <1>6, <1>7, <1>8 DEF u

\* Two disjoint sequences are joined.
LEMMA ConcatDistinct ==
    ASSUME NEW S, NEW s \in Seq(S), NEW u \in Seq(S), Distinct(s), Distinct(u),
           ToSet(s) \cap ToSet(u) = {}
    PROVE  /\ s \o u \in Seq(S)
           /\ Distinct(s \o u)
           /\ ToSet(s \o u) = ToSet(s) \cup ToSet(u)
<1>. DEFINE c == s \o u
            n == Len(s)
            m == Len(u)
<1>1. /\ n \in Nat /\ m \in Nat /\ DOMAIN s = 1..n /\ DOMAIN u = 1..m
      /\ \A y : y \in ToSet(s) <=> \E i \in 1..n : s[i] = y
      /\ \A y : y \in ToSet(u) <=> \E i \in 1..m : u[i] = y
  BY ToSetFacts
<1>2. /\ c \in Seq(S) /\ Len(c) = n + m /\ DOMAIN c = 1..n + m
      /\ \A i \in 1..n + m : c[i] = IF i <= n THEN s[i] ELSE u[i - n]
  BY <1>1, ConcatProperties, LenProperties
<1>. HIDE DEF c, n, m
<1>3. \A i \in 1..n + m : \/ i \in 1..n /\ c[i] = s[i]
                          \/ i - n \in 1..m /\ c[i] = u[i - n]
  BY <1>1, <1>2
<1>4. /\ \A i \in 1..n : i \in 1..n + m /\ c[i] = s[i]
      /\ \A i \in 1..m : i + n \in 1..n + m /\ c[i + n] = u[i]
  <2>1. \A i \in 1..n : i \in 1..n + m /\ i <= n
    BY <1>1
  <2>2. ASSUME NEW i \in 1..m PROVE i + n \in 1..n + m /\ c[i + n] = u[i]
    <3>. DEFINE k == i + n
    <3>1. k \in 1..n + m /\ ~(k <= n) /\ k - n = i
      BY <1>1
    <3>. HIDE DEF k
    <3>2. c[k] = u[k - n]
      BY <1>2, <3>1, Zenon
    <3>3. k \in 1..n + m /\ c[k] = u[i]
      BY <3>1, <3>2, Zenon
    <3>. QED
      BY <3>3 DEF k
  <2>3. \A i \in 1..n : c[i] = s[i]
    BY <1>2, <2>1, Zenon
  <2>. QED
    BY <2>1, <2>2, <2>3
<1>5. ToSet(c) = ToSet(s) \cup ToSet(u)
  <2>1. \A y : y \in ToSet(c) <=> \E i \in 1..n + m : c[i] = y
    BY <1>2, Zenon DEF ToSet
  <2>2. ASSUME NEW y \in ToSet(c) PROVE y \in ToSet(s) \cup ToSet(u)
    <3>1. PICK i \in 1..n + m : c[i] = y
      BY <2>1
    <3>. QED
      BY <1>1, <1>3, <3>1
  <2>3. ASSUME NEW y \in ToSet(s) \cup ToSet(u) PROVE y \in ToSet(c)
    BY <1>1, <1>4, <2>1
  <2>. QED
    BY <2>2, <2>3
<1>6. Distinct(c)
  <2>. SUFFICES ASSUME NEW i \in 1..n + m, NEW j \in 1..n + m, c[i] = c[j] PROVE i = j
    BY <1>2 DEF Distinct
  <2>1. CASE i \in 1..n /\ c[i] = s[i] /\ j \in 1..n /\ c[j] = s[j]
    BY <1>1, <2>1 DEF Distinct
  <2>2. CASE i - n \in 1..m /\ c[i] = u[i - n] /\ j - n \in 1..m /\ c[j] = u[j - n]
    <3>1. i - n = j - n
      BY <1>1, <2>2 DEF Distinct
    <3>. QED
      BY <1>1, <3>1
  <2>3. ~(c[i] \in ToSet(s) /\ c[j] \in ToSet(u)) /\ ~(c[i] \in ToSet(u) /\ c[j] \in ToSet(s))
    OBVIOUS
  <2>. QED
    BY <1>1, <1>3, <2>1, <2>2, <2>3
<1>. QED
  BY <1>2, <1>5, <1>6 DEF c

\* The reduction starts with the tasks without dependencies in the queue.
LEMMA ReductionStarts ==
    ASSUME NEW d, Document(d),
           NEW q \in SetToSeqs({x \in Ids(d) : Deps(d)[x] = {}})
    PROVE  Reducing(d, [x \in Ids(d) |-> Cardinality(Deps(d)[x])], q, <<>>)
<1>. DEFINE roots == {x \in Ids(d) : Deps(d)[x] = {}}
            degree == [x \in Ids(d) |-> Cardinality(Deps(d)[x])]
<1>1. /\ IsFiniteSet(Ids(d)) /\ \A x \in Ids(d) : IsFiniteSet(Deps(d)[x])
  BY DocumentFacts
<1>2. IsFiniteSet(roots)
  BY <1>1, FS_Subset
<1>3. q \in Seq(roots) /\ ToSet(q) = roots /\ Distinct(q)
  BY <1>2, SetToSeqsFacts DEF Distinct
<1>4. q \in Seq(Ids(d))
  BY <1>3, WiderSeq
<1>5. <<>> \in Seq(Ids(d)) /\ Distinct(<<>>) /\ ToSet(<<>>) = {} /\ Len(<<>>) = 0
  <2>1. DOMAIN <<>> = {}
    OBVIOUS
  <2>. QED
    BY <2>1, EmptySeq DEF Distinct, ToSet
<1>6. degree \in [Ids(d) -> Nat]
  BY <1>1, FS_CardinalityType
<1>7. \A x \in Ids(d) : degree[x] = Cardinality(Deps(d)[x] \ ToSet(<<>>))
  <2>1. \A x \in Ids(d) : Deps(d)[x] \ ToSet(<<>>) = Deps(d)[x]
    BY <1>5
  <2>. QED
    BY <2>1
<1>8. \A x \in Ids(d) : Deps(d)[x] \subseteq ToSet(<<>>) <=> x \in ToSet(<<>>) \cup ToSet(q)
  BY <1>3, <1>5
<1>9. \A i \in 1..Len(<<>>) : FALSE
  BY <1>5
<1>. HIDE DEF roots, degree
<1>10. Reducing(d, degree, q, <<>>)
  BY <1>3, <1>4, <1>5, <1>6, <1>7, <1>8, <1>9 DEF Reducing
<1>. QED
  BY <1>10 DEF degree

\* A task is popped: the tasks of which it was the last dependency are queued.
LEMMA ReductionContinues ==
    ASSUME NEW d, Document(d), NEW degree, NEW q, NEW v, Reducing(d, degree, q, v), q # <<>>,
           NEW more \in SetToSeqs({x \in Dependents(d, Head(q)) : degree[x] = 1})
    PROVE  Reducing(d, [x \in Ids(d) |->
                          IF x \in Dependents(d, Head(q)) THEN degree[x] - 1 ELSE degree[x]],
                    Tail(q) \o more, Append(v, Head(q)))
<1>. DEFINE h == Head(q)
            D(x) == Deps(d)[x]
            freed == {x \in Dependents(d, h) : degree[x] = 1}
            degreeN == [x \in Ids(d) |->
                          IF x \in Dependents(d, h) THEN degree[x] - 1 ELSE degree[x]]
            qN == Tail(q) \o more
            vN == Append(v, h)
<1>1. /\ v \in Seq(Ids(d)) /\ q \in Seq(Ids(d)) /\ Distinct(v) /\ Distinct(q)
      /\ ToSet(v) \cap ToSet(q) = {} /\ degree \in [Ids(d) -> Nat]
      /\ \A x \in Ids(d) : degree[x] = Cardinality(D(x) \ ToSet(v))
      /\ \A x \in Ids(d) : D(x) \subseteq ToSet(v) <=> x \in ToSet(v) \cup ToSet(q)
      /\ \A i \in 1..Len(v) : \A y \in D(v[i]) : \E j \in 1..i - 1 : v[j] = y
  BY DEF Reducing
<1>2. /\ h \in Ids(d) /\ Tail(q) \in Seq(Ids(d)) /\ Distinct(Tail(q))
      /\ ToSet(q) = ToSet(Tail(q)) \cup {h} /\ h \notin ToSet(Tail(q))
  BY <1>1, TailDistinct
<1>3. h \notin ToSet(v)
  BY <1>1, <1>2
<1>4. IsFiniteSet(Ids(d)) /\ \A x \in Ids(d) : IsFiniteSet(D(x))
  BY DocumentFacts
<1>5. freed \subseteq Ids(d) /\ IsFiniteSet(freed)
  <2>1. freed \subseteq Ids(d)
    BY DEF Dependents
  <2>. QED
    BY <1>4, <2>1, FS_Subset
<1>6. more \in Seq(freed) /\ ToSet(more) = freed /\ Distinct(more)
  BY <1>5, SetToSeqsFacts DEF Distinct
<1>7. more \in Seq(Ids(d))
  BY <1>5, <1>6, WiderSeq
<1>. HIDE DEF h, qN, vN
<1>8. /\ vN \in Seq(Ids(d)) /\ Len(vN) = Len(v) + 1 /\ vN[Len(v) + 1] = h
      /\ \A i \in 1..Len(v) : vN[i] = v[i]
      /\ Distinct(vN) /\ ToSet(vN) = ToSet(v) \cup {h}
  BY <1>1, <1>2, <1>3, AppendDistinct DEF vN
<1>9. ASSUME NEW x \in Ids(d)
      PROVE  /\ IsFiniteSet(D(x) \ ToSet(v))
             /\ x \in Dependents(d, h) <=> h \in D(x) \ ToSet(v)
             /\ D(x) \ ToSet(vN) = (D(x) \ ToSet(v)) \ {h}
  <2>1. IsFiniteSet(D(x) \ ToSet(v))
    BY <1>4, FS_Subset
  <2>2. x \in Dependents(d, h) <=> h \in D(x)
    BY DEF Dependents
  <2>. QED
    BY <1>3, <1>8, <2>1, <2>2
<1>10. ASSUME NEW x \in Ids(d) PROVE x \in freed <=> D(x) \ ToSet(v) = {h}
  <2>1. degree[x] = Cardinality(D(x) \ ToSet(v))
    BY <1>1
  <2>2. degree[x] = 1 <=> \E y : D(x) \ ToSet(v) = {y}
    BY <1>9, <2>1, FS_Singleton
  <2>3. h \in D(x) \ ToSet(v) /\ (\E y : D(x) \ ToSet(v) = {y}) <=> D(x) \ ToSet(v) = {h}
    OBVIOUS
  <2>4. x \in freed <=> x \in Dependents(d, h) /\ degree[x] = 1
    OBVIOUS
  <2>5. x \in Dependents(d, h) <=> h \in D(x) \ ToSet(v)
    BY <1>9
  <2>. QED
    BY <2>2, <2>3, <2>4, <2>5
<1>11. \A x \in freed : x \notin ToSet(v) /\ x \notin ToSet(q)
  <2>. SUFFICES ASSUME NEW x \in freed PROVE x \notin ToSet(v) /\ x \notin ToSet(q)
    OBVIOUS
  <2>1. x \in Ids(d) /\ D(x) \ ToSet(v) = {h}
    BY <1>5, <1>10
  <2>2. ~(D(x) \subseteq ToSet(v))
    BY <2>1
  <2>. QED
    BY <1>1, <2>1, <2>2
<1>. HIDE DEF freed
<1>12. qN \in Seq(Ids(d)) /\ Distinct(qN) /\ ToSet(qN) = ToSet(Tail(q)) \cup freed
  <2>1. ToSet(Tail(q)) \cap ToSet(more) = {}
    BY <1>2, <1>6, <1>11
  <2>. DEFINE rest == Tail(q)
  <2>2. rest \in Seq(Ids(d)) /\ Distinct(rest) /\ ToSet(rest) \cap ToSet(more) = {}
    BY <1>2, <2>1
  <2>. HIDE DEF rest
  <2>3. /\ rest \o more \in Seq(Ids(d)) /\ Distinct(rest \o more)
        /\ ToSet(rest \o more) = ToSet(rest) \cup ToSet(more)
    BY <1>6, <1>7, <2>2, ConcatDistinct
  <2>4. qN = rest \o more /\ ToSet(rest) = ToSet(Tail(q))
    BY DEF qN, rest
  <2>. QED
    BY <1>6, <2>3, <2>4
<1>13. ToSet(vN) \cap ToSet(qN) = {}
  BY <1>1, <1>2, <1>8, <1>11, <1>12
<1>14. ASSUME NEW x \in Ids(d)
       PROVE  degreeN[x] \in Nat /\ degreeN[x] = Cardinality(D(x) \ ToSet(vN))
  <2>1. degree[x] = Cardinality(D(x) \ ToSet(v))
    BY <1>1
  <2>. DEFINE W == D(x) \ ToSet(v)
  <2>2. IsFiniteSet(W) /\ (x \in Dependents(d, h) <=> h \in W) /\ D(x) \ ToSet(vN) = W \ {h}
    BY <1>9
  <2>3. degree[x] = Cardinality(W)
    BY <2>1
  <2>. HIDE DEF W
  <2>4. /\ Cardinality(W \ {h}) \in Nat
        /\ Cardinality(W \ {h}) = IF h \in W THEN Cardinality(W) - 1 ELSE Cardinality(W)
    BY <2>2, FS_RemoveElement, FS_CardinalityType
  <2>5. degreeN[x] = IF h \in W THEN degree[x] - 1 ELSE degree[x]
    BY <2>2
  <2>. QED
    BY <2>2, <2>3, <2>4, <2>5
<1>15. degreeN \in [Ids(d) -> Nat]
  BY <1>14
<1>. HIDE DEF degreeN
<1>16. ASSUME NEW x \in Ids(d)
       PROVE  D(x) \subseteq ToSet(vN) <=> x \in ToSet(vN) \cup ToSet(qN)
  <2>1. D(x) \subseteq ToSet(vN) <=> D(x) \subseteq ToSet(v) \/ D(x) \ ToSet(v) = {h}
    BY <1>8
  <2>2. x \in ToSet(vN) \cup ToSet(qN) <=> x \in ToSet(v) \cup ToSet(q) \/ x \in freed
    BY <1>2, <1>8, <1>12
  <2>. QED
    BY <1>1, <1>10, <2>1, <2>2
<1>17. \A i \in 1..Len(vN) : \A y \in D(vN[i]) : \E j \in 1..i - 1 : vN[j] = y
  <2>. SUFFICES ASSUME NEW i \in 1..Len(vN), NEW y \in D(vN[i])
                PROVE  \E j \in 1..i - 1 : vN[j] = y
    OBVIOUS
  <2>1. /\ Len(v) \in Nat
        /\ \A z : z \in ToSet(v) <=> \E j \in 1..Len(v) : v[j] = z
    BY <1>1, ToSetFacts
  <2>2. CASE i \in 1..Len(v)
    <3>1. PICK j \in 1..i - 1 : v[j] = y
      BY <1>1, <1>8, <2>2
    <3>2. j \in 1..Len(v)
      BY <2>1, <2>2
    <3>. QED
      BY <1>8, <3>1, <3>2
  <2>3. CASE i = Len(v) + 1
    <3>1. vN[i] = h /\ D(h) \subseteq ToSet(v)
      BY <1>1, <1>2, <1>8, <2>3
    <3>2. PICK j \in 1..Len(v) : v[j] = y
      BY <2>1, <3>1
    <3>3. j \in 1..i - 1
      BY <2>1, <2>3
    <3>. QED
      BY <1>8, <3>2, <3>3
  <2>4. i \in 1..Len(v) \/ i = Len(v) + 1
    BY <1>8, <2>1
  <2>. QED
    BY <2>2, <2>3, <2>4
<1>18. Reducing(d, degreeN, qN, vN)
  BY <1>8, <1>12, <1>13, <1>14, <1>15, <1>16, <1>17 DEF Reducing
<1>. QED
  BY <1>18 DEF degreeN, qN, vN, h

\* When the queue is empty, the tasks left wait for one another, and no others
\* do.
LEMMA ReductionEnds ==
    ASSUME NEW d, Document(d), References(d), NEW degree, NEW v, Reducing(d, degree, <<>>, v)
    PROVE  /\ {x \in DOMAIN degree : degree[x] > 0} = Ids(d) \ ToSet(v)
           /\ Ids(d) \ ToSet(v) = Stuck(d)
           /\ \A x \in Ids(d) \ ToSet(v) : \E y \in Ids(d) \ ToSet(v) : y \in Deps(d)[x]
           /\ Len(v) = Cardinality(Ids(d)) <=> ToSet(v) = Ids(d)
<1>. DEFINE left == Ids(d) \ ToSet(v)
            D(x) == Deps(d)[x]
<1>1. /\ v \in Seq(Ids(d)) /\ Distinct(v) /\ degree \in [Ids(d) -> Nat]
      /\ \A x \in Ids(d) : degree[x] = Cardinality(D(x) \ ToSet(v))
      /\ \A x \in Ids(d) : D(x) \subseteq ToSet(v) <=> x \in ToSet(v) \cup ToSet(<<>>)
      /\ \A i \in 1..Len(v) : \A y \in D(v[i]) : \E j \in 1..i - 1 : v[j] = y
  BY DEF Reducing
<1>2. ToSet(<<>>) = {}
  <2>1. DOMAIN <<>> = {}
    OBVIOUS
  <2>. QED
    BY <2>1 DEF ToSet
<1>3. \A x \in Ids(d) : D(x) \subseteq ToSet(v) <=> x \in ToSet(v)
  BY <1>1, <1>2
<1>4. /\ IsFiniteSet(Ids(d)) /\ \A x \in Ids(d) : IsFiniteSet(D(x))
      /\ \A x \in Ids(d) : D(x) \subseteq Ids(d)
  BY DocumentFacts, DependenciesAreTasks
<1>5. /\ Len(v) \in Nat /\ DOMAIN v = 1..Len(v) /\ ToSet(v) \subseteq Ids(d)
      /\ \A z : z \in ToSet(v) <=> \E j \in 1..Len(v) : v[j] = z
  BY <1>1, ToSetFacts
<1>6. \A x \in left : \E y \in left : y \in D(x)
  BY <1>3, <1>4
<1>7. {x \in DOMAIN degree : degree[x] > 0} = left
  <2>1. ASSUME NEW x \in Ids(d) PROVE degree[x] > 0 <=> x \notin ToSet(v)
    <3>1. IsFiniteSet(D(x) \ ToSet(v))
      BY <1>4, FS_Subset
    <3>2. Cardinality(D(x) \ ToSet(v)) \in Nat
          /\ (Cardinality(D(x) \ ToSet(v)) = 0 <=> D(x) \ ToSet(v) = {})
      BY <3>1, FS_EmptySet, FS_CardinalityType
    <3>3. degree[x] \in Nat /\ (degree[x] = 0 <=> D(x) \ ToSet(v) = {})
      BY <1>1, <3>2
    <3>4. D(x) \ ToSet(v) = {} <=> x \in ToSet(v)
      BY <1>3
    <3>. QED
      BY <3>3, <3>4
  <2>2. DOMAIN degree = Ids(d)
    BY <1>1
  <2>. QED
    BY <2>1, <2>2
<1>8. ASSUME NEW S \in SUBSET Ids(d), \A x \in S : D(x) \cap S # {}
      PROVE  S \subseteq left
  <2>. DEFINE At == {i \in 1..Len(v) : v[i] \in S}
  <2>1. ASSUME NEW i \in At PROVE \E j \in At : j < i
    <3>1. i \in 1..Len(v) /\ v[i] \in S
      BY <2>1
    <3>2. PICK y \in D(v[i]) : y \in S
      BY <1>8, <3>1
    <3>3. PICK j \in 1..i - 1 : v[j] = y
      BY <1>1, <3>1, <3>2
    <3>4. j \in 1..Len(v) /\ j < i
      BY <1>5, <3>1
    <3>. QED
      BY <3>2, <3>3, <3>4
  <2>2. At \subseteq Nat
    BY <1>5
  <2>3. At = {}
    <3>. HIDE DEF At
    <3>. QED
      BY <2>1, <2>2, Descent
  <2>. QED
    BY <1>5, <2>3
<1>9. left = Stuck(d)
  <2>. DEFINE Closed == {S \in SUBSET Ids(d) : \A x \in S : D(x) \cap S # {}}
  <2>1. Stuck(d) = UNION Closed
    BY DEF Stuck
  <2>2. left \in Closed
    BY <1>6
  <2>3. \A S \in Closed : S \subseteq left
    BY <1>8
  <2>. HIDE DEF Closed
  <2>. QED
    BY <2>1, <2>2, <2>3
<1>10. Len(v) = Cardinality(Ids(d)) <=> ToSet(v) = Ids(d)
  <2>1. Cardinality(ToSet(v)) = Len(v)
    BY <1>1, ToSetCount DEF Distinct
  <2>. QED
    BY <1>4, <1>5, <2>1, FS_Subset
<1>. QED
  BY <1>6, <1>7, <1>9, <1>10

\* The order in which all tasks were popped is a schedule.
LEMMA PoppedIsSchedulable ==
    ASSUME NEW d, Document(d), References(d), NEW degree, NEW v, Reducing(d, degree, <<>>, v),
           Len(v) = Cardinality(Ids(d))
    PROVE  Schedulable(d)
<1>. DEFINE rank == [x \in Ids(d) |-> CHOOSE i \in 1..Len(v) : v[i] = x]
<1>1. /\ v \in Seq(Ids(d)) /\ Distinct(v)
      /\ \A i \in 1..Len(v) : \A y \in Deps(d)[v[i]] : \E j \in 1..i - 1 : v[j] = y
  BY DEF Reducing
<1>2. /\ Len(v) \in Nat /\ DOMAIN v = 1..Len(v)
      /\ \A z : z \in ToSet(v) <=> \E j \in 1..Len(v) : v[j] = z
  BY <1>1, ToSetFacts
<1>3. ToSet(v) = Ids(d)
  BY ReductionEnds
<1>4. \A x \in Ids(d) : rank[x] \in 1..Len(v) /\ v[rank[x]] = x
  <2>. SUFFICES ASSUME NEW x \in Ids(d) PROVE rank[x] \in 1..Len(v) /\ v[rank[x]] = x
    OBVIOUS
  <2>1. \E i \in 1..Len(v) : v[i] = x
    BY <1>2, <1>3
  <2>2. rank[x] = CHOOSE i \in 1..Len(v) : v[i] = x
    OBVIOUS
  <2>. HIDE DEF rank
  <2>. QED
    BY <2>1, <2>2
<1>5. rank \in [Ids(d) -> 1..Cardinality(Ids(d))]
  BY <1>4
<1>. HIDE DEF rank
<1>6. ASSUME NEW x \in Ids(d), NEW y \in Deps(d)[x] PROVE rank[y] < rank[x]
  <2>1. PICK j \in 1..rank[x] - 1 : v[j] = y
    BY <1>1, <1>4, <1>6
  <2>2. j \in 1..Len(v) /\ j < rank[x]
    BY <1>2, <1>4
  <2>3. y \in Ids(d)
    BY <1>2, <1>3, <2>1, <2>2
  <2>4. rank[y] = j
    BY <1>1, <1>2, <1>4, <2>1, <2>2, <2>3 DEF Distinct
  <2>. QED
    BY <2>2, <2>4
<1>. QED
  BY <1>5, <1>6 DEF Schedulable

\* A task that was not popped lies on or behind a cycle: there is no schedule.
LEMMA LeftIsNotSchedulable ==
    ASSUME NEW d, Document(d), References(d), NEW degree, NEW v, Reducing(d, degree, <<>>, v),
           Len(v) # Cardinality(Ids(d))
    PROVE  ~Schedulable(d)
<1>. SUFFICES ASSUME NEW rank \in [Ids(d) -> 1..Cardinality(Ids(d))],
                     \A x \in Ids(d) : \A y \in Deps(d)[x] : rank[y] < rank[x]
              PROVE  FALSE
  BY DEF Schedulable
<1>. DEFINE left == Ids(d) \ ToSet(v)
            ranks == {rank[x] : x \in left}
<1>1. left # {} /\ \A x \in left : \E y \in left : y \in Deps(d)[x]
  <2>1. v \in Seq(Ids(d))
    BY DEF Reducing
  <2>2. ToSet(v) \subseteq Ids(d)
    BY <2>1, ToSetFacts
  <2>. QED
    BY <2>2, ReductionEnds
<1>2. ranks \subseteq Nat
  <2>1. Cardinality(Ids(d)) \in Nat
    BY DocumentFacts, FS_CardinalityType
  <2>. QED
    BY <2>1
<1>3. \A n \in ranks : \E m \in ranks : m < n
  BY <1>1
<1>4. ranks = {}
  <2>. HIDE DEF ranks
  <2>. QED
    BY <1>2, <1>3, Descent
<1>. QED
  BY <1>1, <1>4

-----------------------------------------------------------------------------
(***************************************************************************)
(* The pipeline.  What each stage remembers of the checks before it; the   *)
(* reduction keeps its books about the document, also when it runs over    *)
(* the row, which describes the same graph.                                *)
(***************************************************************************)
Checked(d) == References(d) /\ Constructible(d)

PipelineInv ==
    /\ Document(doc)
    /\ stage \in {"received", "raised", "candidate", "validating", "rejected", "registered",
                  "found", "loading", "corrupt", "loaded"}
    /\ stage = "candidate" => Constructible(doc)
    /\ stage = "validating" => Admissible(doc)
    /\ stage \in {"validating", "loading"} =>
         Checked(doc) /\ Reducing(doc, in_degree, queue, visited)
    /\ stage = "rejected" => /\ ~(Sound(doc) /\ Admissible(doc))
                             /\ RejectionIsExplained
    /\ stage = "registered" => /\ Sound(doc) /\ Admissible(doc)
                               /\ stored = serialize_validated_spec(SpecOf(doc))
    /\ stage = "found" => stored = doc
    /\ stage = "loading" => /\ SpecOf(stored) = SpecOf(doc)
                            /\ Ids(stored) = Ids(doc) /\ Deps(stored) = Deps(doc)
    /\ stage = "loaded" => Sound(doc) /\ spec = SpecOf(doc)
    /\ stage = "corrupt" => ~Sound(doc)

\* Every document of the model is structurally valid.
LEMMA PipelineInitially ==
    ASSUME PipelineInit
    PROVE  PipelineInv
<1>1. Document(doc)
  BY DocumentsAssumption DEF PipelineInit, Document
<1>. QED
  BY <1>1 DEF PipelineInit, PipelineInv

\* normalize_workflow_dto.
LEMMA NormalizeStep ==
    ASSUME PipelineInv, normalize_workflow_dto
    PROVE  PipelineInv'
<1>1. doc' = doc /\ stage' \in {"candidate", "raised"} /\ (stage' = "candidate" => Constructible(doc))
  BY DEF normalize_workflow_dto
<1>2. Document(doc)
  BY DEF PipelineInv
<1>. QED
  BY <1>1, <1>2 DEF PipelineInv

\* SemanticValidator.validate up to the cycle check.
LEMMA ValidateStep ==
    ASSUME PipelineInv, validate
    PROVE  PipelineInv'
<1>1. Document(doc) /\ Constructible(doc) /\ doc' = doc /\ errors' = CutOff(AllErrors)
  BY DEF PipelineInv, validate
<1>2. AllErrors \in Seq(Fault) /\ (AllErrors = <<>> <=> References(doc) /\ Admissible(doc))
  BY <1>1, AllErrorsFacts
<1>3. CASE AllErrors # <<>>
  <2>1. stage' = "rejected"
    BY <1>3 DEF validate
  <2>2. ~(Sound(doc) /\ Admissible(doc))
    BY <1>2, <1>3, SoundParts
  <2>3. /\ Len(errors') \in 1..MaxErrors
        /\ \A i \in DOMAIN errors' : errors'[i].code # "CYCLE_DETECTED"
    BY <1>1, <1>2, <1>3, CutOffFacts
  <2>4. RejectionIsExplained'
    BY <2>3 DEF RejectionIsExplained
  <2>. QED
    BY <1>1, <2>1, <2>2, <2>4 DEF PipelineInv
<1>4. CASE AllErrors = <<>>
  <2>1. /\ stage' = "validating"
        /\ in_degree' = [x \in Ids(doc) |-> Cardinality(Deps(doc)[x])]
        /\ queue' \in SetToSeqs({x \in Ids(doc) : Deps(doc)[x] = {}})
        /\ visited' = <<>>
    BY <1>4 DEF validate, StartReduction
  <2>2. Reducing(doc, in_degree', queue', visited')
    BY <1>1, <2>1, ReductionStarts
  <2>3. Checked(doc) /\ Admissible(doc)
    BY <1>1, <1>2, <1>4 DEF Checked
  <2>. QED
    BY <1>1, <2>1, <2>2, <2>3 DEF PipelineInv
<1>. QED
  BY <1>3, <1>4

\* The row that is loaded describes the graph of the document.
LEMMA GraphFacts ==
    ASSUME PipelineInv
    PROVE  Ids(graph) = Ids(doc) /\ Deps(graph) = Deps(doc)
BY DEF PipelineInv, graph

\* One iteration of the reduction.
LEMMA ReduceStep ==
    ASSUME PipelineInv, Reduce
    PROVE  PipelineInv'
<1>1. /\ Document(doc) /\ Checked(doc) /\ Reducing(doc, in_degree, queue, visited)
      /\ stage \in {"validating", "loading"} /\ doc' = doc /\ stage' = stage /\ stored' = stored
      /\ queue # <<>>
  BY DEF PipelineInv, Reduce
<1>2. DOMAIN in_degree = Ids(doc)
  BY <1>1 DEF Reducing
<1>2a. Dependents(graph, Head(queue)) = Dependents(doc, Head(queue))
  BY GraphFacts DEF Dependents
<1>3. PICK more \in SetToSeqs({x \in Dependents(doc, Head(queue)) : in_degree[x] = 1}) :
        queue' = Tail(queue) \o more
  BY <1>2a DEF Reduce, Freed
<1>4. /\ in_degree' = [x \in Ids(doc) |-> IF x \in Dependents(doc, Head(queue))
                                          THEN in_degree[x] - 1 ELSE in_degree[x]]
      /\ visited' = Append(visited, Head(queue))
  BY <1>2, <1>2a DEF Reduce
<1>5. Reducing(doc, in_degree', queue', visited')
  BY <1>1, <1>3, <1>4, ReductionContinues
<1>6. stage = "validating" => Admissible(doc)
  BY DEF PipelineInv
<1>7. stage = "loading" => /\ SpecOf(stored) = SpecOf(doc)
                           /\ Ids(stored) = Ids(doc) /\ Deps(stored) = Deps(doc)
  BY DEF PipelineInv
<1>8. (stage = "loading" => /\ SpecOf(stored) = SpecOf(doc)
                            /\ Ids(stored) = Ids(doc) /\ Deps(stored) = Deps(doc))'
  BY <1>1, <1>7 DEF SpecOf, Ids, Deps
<1>. QED
  BY <1>1, <1>5, <1>6, <1>8 DEF PipelineInv

\* The end of the reduction over a document decides whether it is sound.
LEMMA CycleFoundFacts ==
    ASSUME Document(doc), Checked(doc), Reducing(doc, in_degree, queue, visited), queue = <<>>,
           Ids(graph) = Ids(doc)
    PROVE  CycleFound <=> ~Schedulable(doc)
BY PoppedIsSchedulable, LeftIsNotSchedulable DEF CycleFound, Checked

\* The end of the validation: the specification is serialised.
LEMMA EndValidationStep ==
    ASSUME PipelineInv, EndValidation
    PROVE  PipelineInv'
<1>1. /\ Document(doc) /\ Checked(doc) /\ Reducing(doc, in_degree, queue, visited)
      /\ Admissible(doc) /\ queue = <<>> /\ doc' = doc
  BY DEF PipelineInv, EndValidation
<1>2. CycleFound <=> ~Schedulable(doc)
  BY <1>1, GraphFacts, CycleFoundFacts
<1>3. Sound(doc) <=> ~CycleFound
  BY <1>1, <1>2, SoundParts DEF Checked
<1>4. CASE CycleFound
  <2>1. stage' = "rejected" /\ errors' = <<[code |-> "CYCLE_DETECTED", task |-> 0]>>
    BY <1>4 DEF EndValidation
  <2>2. Len(errors') = 1 /\ 1 \in 1..MaxErrors
    BY <2>1, PipelineAssumption
  <2>3. RejectionIsExplained'
    BY <1>1, <1>2, <1>4, <2>2 DEF RejectionIsExplained, Schedulable, Ids, Deps
  <2>. QED
    BY <1>1, <1>3, <1>4, <2>1, <2>3 DEF PipelineInv
<1>5. CASE ~CycleFound
  <2>1. stage' = "registered" /\ stored' = serialize_validated_spec(SpecOf(doc))
    BY <1>5 DEF EndValidation
  <2>. QED
    BY <1>1, <1>3, <1>5, <2>1 DEF PipelineInv
<1>. QED
  BY <1>4, <1>5

\* A row is found that this program did not write.
LEMMA RowFromElsewhereStep ==
    ASSUME PipelineInv, RowFromElsewhere
    PROVE  PipelineInv'
BY DEF PipelineInv, RowFromElsewhere

\* deserialize_validated_spec up to the cycle check.
LEMMA LoadStep ==
    ASSUME PipelineInv, Load
    PROVE  PipelineInv'
<1>1. Document(doc) /\ doc' = doc /\ stored' = stored
  BY DEF PipelineInv, Load
<1>2. /\ Document(stored) /\ Ids(stored) = Ids(doc) /\ Deps(stored) = Deps(doc)
      /\ SpecOf(stored) = SpecOf(doc)
      /\ Sound(doc) => Checked(stored)
      /\ Checked(stored) => Checked(doc)
  <2>1. CASE stage = "registered"
    <3>1. Sound(doc) /\ stored = serialize_validated_spec(SpecOf(doc))
      BY <2>1 DEF PipelineInv
    <3>2. Checked(doc)
      BY <3>1, SoundParts DEF Checked
    <3>. QED
      BY <1>1, <3>1, <3>2, SerializeFacts, StoredMeansTheSame DEF Checked
  <2>2. CASE stage = "found"
    <3>1. stored = doc
      BY <2>2 DEF PipelineInv
    <3>2. Sound(doc) => Checked(doc)
      BY SoundParts DEF Checked
    <3>. QED
      BY <1>1, <3>1, <3>2
  <2>. QED
    BY <2>1, <2>2 DEF Load
<1>. DEFINE Passes == /\ stored.tasks # <<>>
                      /\ Constructible(stored)
                      /\ \A t \in ToSet(stored.tasks) : StoredTaskIsSound(t)
                      /\ ToSet(stored.outputs) \subseteq Ids(stored)
<1>3. Passes <=> Checked(stored)
  BY <1>2, LoadChecksAreTheValidators DEF Checked
<1>4. IF Passes
      THEN StartReduction(stored, "loading")
      ELSE stage' = "corrupt"
  BY DEF Load
<1>. HIDE DEF Passes
<1>5. CASE Passes
  <2>1. /\ stage' = "loading"
        /\ in_degree' = [x \in Ids(doc) |-> Cardinality(Deps(doc)[x])]
        /\ queue' \in SetToSeqs({x \in Ids(doc) : Deps(doc)[x] = {}})
        /\ visited' = <<>>
    BY <1>2, <1>4, <1>5 DEF StartReduction
  <2>2. Reducing(doc, in_degree', queue', visited')
    BY <1>1, <2>1, ReductionStarts
  <2>. QED
    BY <1>1, <1>2, <1>3, <1>5, <2>1, <2>2 DEF PipelineInv
<1>6. CASE ~Passes
  <2>1. stage' = "corrupt" /\ ~Sound(doc)
    BY <1>2, <1>3, <1>4, <1>6
  <2>. QED
    BY <1>1, <2>1 DEF PipelineInv
<1>. QED
  BY <1>5, <1>6

\* The end of the load: the specification is built from the row.
LEMMA EndLoadStep ==
    ASSUME PipelineInv, EndLoad
    PROVE  PipelineInv'
<1>1. /\ Document(doc) /\ Checked(doc) /\ Reducing(doc, in_degree, queue, visited)
      /\ queue = <<>> /\ doc' = doc /\ SpecOf(stored) = SpecOf(doc)
  BY DEF PipelineInv, EndLoad
<1>2. Sound(doc) <=> ~CycleFound
  BY <1>1, GraphFacts, CycleFoundFacts, SoundParts DEF Checked
<1>3. CASE CycleFound
  <2>1. stage' = "corrupt"
    BY <1>3 DEF EndLoad
  <2>. QED
    BY <1>1, <1>2, <1>3, <2>1 DEF PipelineInv
<1>4. CASE ~CycleFound
  <2>1. stage' = "loaded" /\ spec' = SpecOf(doc)
    BY <1>1, <1>4 DEF EndLoad
  <2>. QED
    BY <1>1, <1>2, <1>4, <2>1 DEF PipelineInv
<1>. QED
  BY <1>3, <1>4

\* Nothing changes.
LEMMA PipelineStutters ==
    ASSUME PipelineInv, UNCHANGED pipelineVars
    PROVE  PipelineInv'
<1>1. /\ doc' = doc /\ stage' = stage /\ errors' = errors /\ stored' = stored /\ spec' = spec
      /\ in_degree' = in_degree /\ queue' = queue /\ visited' = visited
  BY DEF pipelineVars
<1>2. RejectionIsExplained => RejectionIsExplained'
  BY <1>1 DEF RejectionIsExplained, Schedulable, Ids, Deps
<1>. QED
  BY <1>1, <1>2 DEF PipelineInv

(***************************************************************************)
(* Every stage of the pipeline keeps what the stages before it found out.  *)
(***************************************************************************)
THEOREM PipelineInvariance == PipelineSpec => []PipelineInv
<1>1. PipelineInit => PipelineInv
  BY PipelineInitially
<1>2. PipelineInv /\ [PipelineNext]_pipelineVars => PipelineInv'
  BY NormalizeStep, ValidateStep, ReduceStep, EndValidationStep, RowFromElsewhereStep,
     LoadStep, EndLoadStep, PipelineStutters DEF PipelineNext
<1>. QED
  BY <1>1, <1>2, PTL DEF PipelineSpec

(***************************************************************************)
(* The validator registers exactly the sound documents within the attempt  *)
(* limit, whatever their graphs and in whatever order sets are iterated.   *)
(***************************************************************************)
THEOREM Verdict == PipelineSpec => []VerdictIsRight
<1>1. PipelineInv => VerdictIsRight
  BY DEF PipelineInv, VerdictIsRight
<1>. QED
  BY <1>1, PipelineInvariance, PTL

(***************************************************************************)
(* A rejection has between one and max_errors errors, and reports a cycle  *)
(* only, and alone, for a document that has no schedule.                   *)
(***************************************************************************)
THEOREM Explanation == PipelineSpec => []RejectionIsExplained
<1>1. PipelineInv => RejectionIsExplained
  BY DEF PipelineInv, RejectionIsExplained
<1>. QED
  BY <1>1, PipelineInvariance, PTL

(***************************************************************************)
(* Kahn's reduction pops tasks in a topological order, and the tasks it    *)
(* reports as cycle_nodes are those that wait for one another.             *)
(***************************************************************************)
THEOREM TopologicalReduction == PipelineSpec => []ReductionIsTopological
<1>1. PipelineInv => ReductionIsTopological
  <2>. SUFFICES ASSUME PipelineInv, stage \in {"validating", "loading"}
                PROVE  /\ \A i \in DOMAIN visited :
                            Deps(doc)[visited[i]] \subseteq ToSet(SubSeq(visited, 1, i - 1))
                       /\ queue = <<>> => cycle_nodes = Stuck(doc)
    BY DEF ReductionIsTopological
  <2>1. Document(doc) /\ References(doc) /\ Reducing(doc, in_degree, queue, visited)
    BY DEF PipelineInv, Checked
  <2>2. /\ visited \in Seq(Ids(doc))
        /\ \A i \in 1..Len(visited) : \A y \in Deps(doc)[visited[i]] :
             \E j \in 1..i - 1 : visited[j] = y
    BY <2>1 DEF Reducing
  <2>3. DOMAIN visited = 1..Len(visited)
    BY <2>2, LenProperties
  <2>4. \A i \in 1..Len(visited) :
          Deps(doc)[visited[i]] \subseteq ToSet(SubSeq(visited, 1, i - 1))
    BY <2>2, EarlierFacts
  <2>5. queue = <<>> => cycle_nodes = Stuck(doc)
    BY <2>1, ReductionEnds DEF cycle_nodes
  <2>. QED
    BY <2>3, <2>4, <2>5
<1>. QED
  BY <1>1, PipelineInvariance, PTL

(***************************************************************************)
(* deserialize_validated_spec returns the specification that was           *)
(* validated, and refuses every row the validator would have rejected, the *)
(* attempt limit apart.                                                    *)
(***************************************************************************)
THEOREM RoundTrip == PipelineSpec => []LoadsBack
<1>1. PipelineInv => LoadsBack
  BY DEF PipelineInv, LoadsBack
<1>. QED
  BY <1>1, PipelineInvariance, PTL

=============================================================================
