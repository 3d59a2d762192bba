--------------------------- MODULE LanguageProofs ---------------------------
(***************************************************************************)
(* Theorems about Language.  type_of and evaluate call each other without  *)
(* bound, so what they return is known by induction over the number of     *)
(* calls that fit on the stack.  SetInduction is that induction, for a set;*)
(* AnswersUnfold says that the recursion of Answers defines what it seems  *)
(* to; AnswersAreHonest is the induction itself, and LanguageInv what it   *)
(* says of the table that the printer uses.                                *)
(***************************************************************************)
EXTENDS Language, WellFoundedInduction, TLAPS

(* Induction over the natural numbers, for a set.                           *)
LEMMA SetInduction ==
    ASSUME NEW T, 0 \in T, \A n \in Nat : n \in T => n + 1 \in T
    PROVE  \A n \in Nat : n \in T
<1> DEFINE Rest == Nat \ T
           Less == OpToRel(<, Nat)
<1>1. SUFFICES ASSUME Rest # {} PROVE FALSE
    OBVIOUS
<1>2. IsWellFoundedOn(Less, Nat)
    BY NatLessThanWellFounded, Zenon
<1>3. Rest \subseteq Nat
    OBVIOUS
<1> HIDE DEF Rest, Less
<1>4. PICK n \in Rest : \A m \in Rest : ~(<<m, n>> \in Less)
    BY <1>1, <1>2, <1>3, WFMin, Zenon
<1>5. \A m \in Nat : m < n => <<m, n>> \in Less
    BY <1>4 DEF Less, Rest, OpToRel
<1>6. n \in Nat /\ n # 0
    BY <1>4 DEF Rest
<1>7. n - 1 \in Nat /\ n - 1 < n /\ n = (n - 1) + 1
    BY <1>6
<1>8. n - 1 \in T
    BY <1>4, <1>5, <1>7 DEF Rest
<1>9. QED
    BY <1>4, <1>7, <1>8 DEF Rest

----------------------------------------------------------------------------
(* Two recursions: Answers, and the meaning of expressions                  *)

(* A call made with a table that remembers and marks nothing.               *)
Forget(q) == [q EXCEPT !.table = EmptyTable(q.table.exports)]

ForgetfulCall(answers) ==
    [q \in Questions |-> Yield(OneCall(answers)[Forget(q)].out, EmptyTable(q.table.exports))]

(* What the calls return when n calls fit on the stack and none of them     *)
(* leaves anything in the table for another.                                *)
Meaning[n \in Nat] == IF n = 0 THEN NoCall ELSE ForgetfulCall(Meaning[n - 1])

CallOf(forgetful, answers) == IF forgetful THEN ForgetfulCall(answers) ELSE OneCall(answers)

(* g holds the answers for stacks of up to n calls.                         *)
AnswersUpTo(f, n, g) ==
    g = [i \in 0 .. n |-> IF i = 0 THEN NoCall ELSE CallOf(f, g[i - 1])]

LEMMA AnswersUpToExist ==
    ASSUME NEW f PROVE \A n \in Nat : \E g : AnswersUpTo(f, n, g)
<1> DEFINE T == {n \in Nat : \E g : AnswersUpTo(f, n, g)}
<1>1. 0 \in T
  <2>1. AnswersUpTo(f, 0, [i \in 0 .. 0 |-> NoCall])
    BY DEF AnswersUpTo
  <2>2. QED BY <2>1
<1>2. ASSUME NEW n \in Nat, n \in T PROVE n + 1 \in T
  <2>1. PICK g : AnswersUpTo(f, n, g)
    BY <1>2
  <2> DEFINE h == [i \in 0 .. n + 1 |-> IF i = 0 THEN NoCall ELSE CallOf(f, g[i - 1])]
  <2>2. \A i \in 0 .. n : h[i] = g[i]
    BY <2>1 DEF AnswersUpTo
  <2>3. \A i \in 0 .. n + 1 : i # 0 => i - 1 \in 0 .. n
    OBVIOUS
  <2>4. AnswersUpTo(f, n + 1, h)
    BY <2>2, <2>3 DEF AnswersUpTo
  <2>5. QED BY <2>4
<1> HIDE DEF T
<1>3. \A n \in Nat : n \in T
    BY <1>1, <1>2, SetInduction
<1>4. QED BY <1>3 DEF T

LEMMA AnswersUpToAgree ==
    ASSUME NEW f, NEW m \in Nat, NEW n \in Nat, m <= n,
           NEW g, NEW h, AnswersUpTo(f, m, g), AnswersUpTo(f, n, h)
    PROVE  \A i \in 0 .. m : g[i] = h[i]
<1> DEFINE T == {i \in Nat : i <= m => g[i] = h[i]}
<1>1. 0 \in T
    BY DEF AnswersUpTo
<1>2. ASSUME NEW i \in Nat, i \in T PROVE i + 1 \in T
    <2>1. CASE i + 1 <= m
      <3>1. g[i] = h[i]
        BY <1>2, <2>1
      <3>2. g[i + 1] = CallOf(f, g[i]) /\ h[i + 1] = CallOf(f, h[i])
        BY <2>1 DEF AnswersUpTo
      <3>3. QED BY <3>1, <3>2
    <2>2. QED BY <2>1
<1> HIDE DEF T
<1>3. \A i \in Nat : i \in T
    BY <1>1, <1>2, SetInduction
<1>4. QED BY <1>3 DEF T

(* There is a function that the recursion defines.                          *)
LEMMA AnswersExist ==
    ASSUME NEW f
    PROVE  \E g : g = [n \in Nat |-> IF n = 0 THEN NoCall ELSE CallOf(f, g[n - 1])]
<1> DEFINE h(n) == CHOOSE g : AnswersUpTo(f, n, g)
           k == [n \in Nat |-> h(n)[n]]
<1>1. \A n \in Nat : AnswersUpTo(f, n, h(n))
    BY AnswersUpToExist, Zenon
<1> HIDE DEF h
<1>2. ASSUME NEW n \in Nat PROVE k[n] = IF n = 0 THEN NoCall ELSE CallOf(f, k[n - 1])
  <2>1. CASE n = 0
    BY <1>1, <2>1 DEF AnswersUpTo
  <2>2. CASE n # 0
    <3>1. n - 1 \in Nat /\ n - 1 <= n
        BY <2>2
    <3>2. h(n)[n] = CallOf(f, h(n)[n - 1])
        BY <1>1, <2>2 DEF AnswersUpTo
    <3>3. h(n - 1)[n - 1] = h(n)[n - 1]
        BY <1>1, <3>1, AnswersUpToAgree
    <3>4. QED BY <2>2, <3>1, <3>2, <3>3
  <2>3. QED BY <2>1, <2>2
<1>3. k = [n \in Nat |-> IF n = 0 THEN NoCall ELSE CallOf(f, k[n - 1])]
    BY <1>2
<1>4. QED BY <1>3

LEMMA AnswersUnfold ==
    \A n \in Nat : Answers[n] = IF n = 0 THEN NoCall ELSE OneCall(Answers[n - 1])
<1>1. \E g : g = [n \in Nat |-> IF n = 0 THEN NoCall ELSE OneCall(g[n - 1])]
    BY AnswersExist DEF CallOf
<1>2. Answers = [n \in Nat |-> IF n = 0 THEN NoCall ELSE OneCall(Answers[n - 1])]
    BY <1>1 DEF Answers
<1>3. QED BY <1>2, Zenon

LEMMA MeaningUnfold ==
    \A n \in Nat : Meaning[n] = IF n = 0 THEN NoCall ELSE ForgetfulCall(Meaning[n - 1])
<1>1. \E g : g = [n \in Nat |-> IF n = 0 THEN NoCall ELSE ForgetfulCall(g[n - 1])]
    BY AnswersExist DEF CallOf
<1>2. Meaning = [n \in Nat |-> IF n = 0 THEN NoCall ELSE ForgetfulCall(Meaning[n - 1])]
    BY <1>1 DEF Meaning
<1>3. QED BY <1>2, Zenon

(* What a call of evaluate returns.                                         *)
LEMMA ValueUnfold ==
    ASSUME NEW m \in Nat, NEW q \in Questions, q.ask = "evaluate"
    PROVE  Answers[m][q] = IF m = 0 THEN Yield(StackOverflow, q.table)
                           ELSE Evaluate(q.of, q.at, q.table, Answers[m - 1])
<1>1. CASE m = 0
    BY <1>1, AnswersUnfold DEF NoCall
<1>2. CASE m # 0
  <2>1. Answers[m] = OneCall(Answers[m - 1])
    BY <1>2, AnswersUnfold
  <2>2. QED BY <1>2, <2>1 DEF OneCall
<1>3. QED BY <1>1, <1>2

----------------------------------------------------------------------------
(* Tables                                                                   *)

IsTable(t) ==
    /\ t = [exports |-> t.exports, known_type |-> t.known_type,
            known_value |-> t.known_value, evaluated |-> t.evaluated]
    /\ t.known_type = [s \in Symbols |-> t.known_type[s]]

(* What a call may do to the table: remember, and forget nothing.           *)
Grows(t, u) ==
    /\ IsTable(u)
    /\ u.exports = t.exports
    /\ u.evaluated = t.evaluated
    /\ \A s \in Symbols : IsSome(t.known_type[s]) => u.known_type[s] = t.known_type[s]

Fits(t, v) ==
    IF v.k = "closure" THEN t.k \in {"function_type", "generic_function_type"}
                       ELSE v.k = "type" /\ t = TypeType

(* Whatever value e has in the module, it is one of type t.                 *)
Agrees(t, e, exports) ==
    \A m \in Nat, table \in Tables :
        LET v == Answer(AskValue(e, Outside, table), Answers[m]).out IN
        table.exports = exports /\ IsSome(v) => Fits(t, v)

KnownFits(t) ==
    \A s \in Symbols :
        IsSome(t.known_type[s]) => Agrees(t.known_type[s], Exported(s, t), t.exports)

Follows(t, u) == Grows(t, u) /\ (KnownFits(t) => KnownFits(u))

(* What the call q may return.                                              *)
Honest(q, r) ==
    /\ Follows(q.table, r.table)
    /\ KnownFits(q.table) /\ q.ask = "type_of" /\ IsSome(r.out) =>
            Agrees(r.out, q.of, q.table.exports)

AreHonest(answers) == \A q \in Questions : Honest(q, answers[q])

(* What is no answer.                                                       *)
LEMMA NoAnswers ==
    \A out \in {None, NotImplemented, DependsOnItself, StackOverflow, OutOfMemory} : ~IsSome(out)
<1>1. None.k = "none"
    BY DEF None
<1>2. /\ NotImplemented.k = "throws" /\ DependsOnItself.k = "throws"
      /\ StackOverflow.k = "throws" /\ OutOfMemory.k = "throws"
    BY DEF NotImplemented, DependsOnItself, StackOverflow, OutOfMemory, Throws
<1>3. QED BY <1>1, <1>2 DEF IsSome

LEMMA YieldFields ==
    ASSUME NEW out, NEW t PROVE Yield(out, t).out = out /\ Yield(out, t).table = t
BY DEF Yield

LEMMA TablesAreTables ==
    ASSUME NEW t \in Tables PROVE IsTable(t)
BY DEF Tables, IsTable

LEMMA MarkedTable ==
    ASSUME NEW t, IsTable(t), NEW s
    PROVE  /\ IsTable(Mark(s, t)) /\ IsTable(Unmark(s, t))
           /\ Mark(s, t).exports = t.exports
           /\ Mark(s, t).known_type = t.known_type
           /\ Mark(s, t).evaluated = t.evaluated \cup {s}
           /\ Unmark(s, t).exports = t.exports
           /\ Unmark(s, t).known_type = t.known_type
           /\ Unmark(s, t).evaluated = t.evaluated \ {s}
BY DEF IsTable, Mark, Unmark

LEMMA FollowsReflexive ==
    ASSUME NEW t, IsTable(t) PROVE Follows(t, t)
BY DEF Follows, Grows

LEMMA FollowsTransitive ==
    ASSUME NEW t, NEW u, NEW w, Follows(t, u), Follows(u, w) PROVE Follows(t, w)
BY DEF Follows, Grows

(* KnownFits depends on the exports and the known types alone.              *)
LEMMA KnownFitsDepends ==
    ASSUME NEW t, NEW u, u.exports = t.exports, u.known_type = t.known_type
    PROVE  KnownFits(t) <=> KnownFits(u)
BY DEF KnownFits, Exported

(* A call answers or is not made at all.                                    *)
LEMMA AnswerIsHonest ==
    ASSUME NEW answers, AreHonest(answers), NEW q, IsTable(q.table)
    PROVE  Honest(q, Answer(q, answers))
<1>1. CASE q \in Questions
    BY <1>1 DEF Answer, AreHonest
<1>2. CASE q \notin Questions
  <2>1. Answer(q, answers) = Yield(OutOfMemory, q.table)
    BY <1>2 DEF Answer
  <2>2. Follows(q.table, q.table)
    BY FollowsReflexive
  <2>3. QED
    BY <2>1, <2>2, NoAnswers, YieldFields DEF Honest
<1>3. QED BY <1>1, <1>2

LEMMA AskTypeIsHonest ==
    ASSUME NEW answers, AreHonest(answers), NEW e, NEW at, NEW t, IsTable(t),
           NEW r, r = Answer(AskType(e, at, t), answers)
    PROVE  /\ Follows(t, r.table)
           /\ IsTable(r.table)
           /\ KnownFits(t) /\ IsSome(r.out) => Agrees(r.out, e, t.exports)
<1>1. Honest(AskType(e, at, t), r)
    BY AnswerIsHonest DEF AskType
<1>2. QED BY <1>1 DEF Honest, AskType, Follows, Grows

LEMMA AskValueIsHonest ==
    ASSUME NEW answers, AreHonest(answers), NEW e, NEW at, NEW t, IsTable(t),
           NEW r, r = Answer(AskValue(e, at, t), answers)
    PROVE  Follows(t, r.table) /\ IsTable(r.table)
<1>1. Honest(AskValue(e, at, t), r)
    BY AnswerIsHonest DEF AskValue
<1>2. QED BY <1>1 DEF Honest, AskValue, Follows, Grows

----------------------------------------------------------------------------
(* The values an expression may have                                        *)

(* A value outside of every function, seen from the expression.             *)
LEMMA ValueOutside ==
    ASSUME NEW e, NEW m \in Nat, NEW table \in Tables,
           NEW v, v = Answer(AskValue(e, Outside, table), Answers[m]).out, IsSome(v)
    PROVE  m # 0 /\ v = Evaluate(e, Outside, table, Answers[m - 1]).out
<1> DEFINE q == AskValue(e, Outside, table)
<1>1. q \in Questions
    BY NoAnswers, YieldFields DEF Answer
<1>2. q.ask = "evaluate" /\ q.of = e /\ q.at = Outside /\ q.table = table
    BY DEF AskValue
<1>3. v = Answers[m][q].out
    BY <1>1 DEF Answer
<1> HIDE DEF q
<1>4. Answers[m][q] = IF m = 0 THEN Yield(StackOverflow, q.table)
                      ELSE Evaluate(q.of, q.at, q.table, Answers[m - 1])
    BY <1>1, <1>2, ValueUnfold
<1>5. QED
    BY <1>2, <1>3, <1>4, NoAnswers, YieldFields

LEMMA LambdaAgrees ==
    ASSUME NEW e, e.k = "lambda", NEW exports,
           NEW t, t.k \in {"function_type", "generic_function_type"}
    PROVE  Agrees(t, e, exports)
<1> SUFFICES ASSUME NEW m \in Nat, NEW table \in Tables,
                    NEW v, v = Answer(AskValue(e, Outside, table), Answers[m]).out,
                    IsSome(v)
             PROVE  Fits(t, v)
    BY DEF Agrees
<1>1. v = EvaluateLambda(e, Outside, table, Answers[m - 1]).out
    BY ValueOutside DEF Evaluate
<1> DEFINE r == Answer(AskValue(e.bound, Outside, table), Answers[m - 1])
<1> HIDE DEF r
<1>2. ~Thrown(r.out) /\ IsSome(r.out) /\ v = Closure(r.out, e.body)
    BY <1>1, NoAnswers, YieldFields DEF EvaluateLambda, AndThen, r, Thrown, IsSome
<1>3. v.k = "closure"
    BY <1>2 DEF Closure
<1>4. QED BY <1>3 DEF Fits

LEMMA LiteralAgrees ==
    ASSUME NEW e, e.k = "literal", e.value.k = "type", NEW exports
    PROVE  Agrees(TypeType, e, exports)
<1> SUFFICES ASSUME NEW m \in Nat, NEW table \in Tables,
                    NEW v, v = Answer(AskValue(e, Outside, table), Answers[m]).out,
                    IsSome(v)
             PROVE  Fits(TypeType, v)
    BY DEF Agrees
<1>1. v = e.value
    BY ValueOutside DEF Evaluate, Yield
<1>2. QED BY <1>1 DEF Fits

(* What evaluate does not implement, and an argument outside of a function, *)
(* have no value.                                                           *)
LEMMA NoValueAgrees ==
    ASSUME NEW e, e.k \notin {"literal", "lambda", "bound_value", "local_symbol"},
           NEW exports, NEW t
    PROVE  Agrees(t, e, exports)
<1> SUFFICES ASSUME NEW m \in Nat, NEW table \in Tables,
                    NEW v, v = Answer(AskValue(e, Outside, table), Answers[m]).out,
                    IsSome(v)
             PROVE  FALSE
    BY DEF Agrees
<1>1. v \in {None, NotImplemented}
    BY ValueOutside, YieldFields DEF Evaluate, Outside, With
<1>2. QED BY <1>1, NoAnswers

(* A symbol has the value of its export.                                    *)
LEMMA SymbolAgrees ==
    ASSUME NEW e, e.k = "local_symbol", e.name \in Symbols, NEW t, NEW u,
           Agrees(t, Exported(e.name, u), u.exports)
    PROVE  Agrees(t, e, u.exports)
<1> SUFFICES ASSUME NEW m \in Nat, NEW table \in Tables, table.exports = u.exports,
                    NEW v, v = Answer(AskValue(e, Outside, table), Answers[m]).out,
                    IsSome(v)
             PROVE  Fits(t, v)
    BY DEF Agrees
<1> DEFINE s == e.name
           r == Answer(AskValue(Exported(s, u), Outside, Mark(s, table)), Answers[m - 1])
<1>1. m - 1 \in Nat /\ v = SymbolEvaluate(s, Outside, table, Answers[m - 1]).out
    BY ValueOutside DEF Evaluate
<1>2. Exported(s, table) = Exported(s, u)
    BY DEF Exported
<1> HIDE DEF r
<1>3. v = r.out
  <2>1. CASE s \in table.evaluated
    <3>1. v = DependsOnItself
      BY <1>1, <2>1, YieldFields DEF SymbolEvaluate
    <3>2. QED BY <3>1, NoAnswers
  <2>2. CASE s \notin table.evaluated
    <3>1. Leave(s, r).out = r.out
      BY YieldFields DEF Leave
    <3>2. QED BY <1>1, <1>2, <2>2, <3>1, YieldFields DEF SymbolEvaluate, r
  <2>3. QED BY <2>1, <2>2
<1>4. Mark(s, table) \in Tables /\ Mark(s, table).exports = u.exports
    BY DEF Mark, Tables
<1>5. QED BY <1>1, <1>3, <1>4 DEF Agrees, r

----------------------------------------------------------------------------
(* evaluate                                                                 *)

(* The mark is set for the time of the call.                                *)
LEMMA LeaveFollows ==
    ASSUME NEW t, IsTable(t), NEW s, s \notin t.evaluated,
           NEW r, Follows(Mark(s, t), r.table)
    PROVE  Follows(t, Leave(s, r).table) /\ Leave(s, r).out = r.out
<1> DEFINE u == Unmark(s, r.table)
<1>1. Leave(s, r).table = u /\ Leave(s, r).out = r.out
    BY YieldFields DEF Leave
<1>2. IsTable(r.table)
    BY DEF Follows, Grows
<1>3. IsTable(u) /\ u.exports = r.table.exports /\ u.known_type = r.table.known_type
      /\ u.evaluated = r.table.evaluated \ {s}
    BY <1>2, MarkedTable
<1>4. /\ Mark(s, t).exports = t.exports /\ Mark(s, t).known_type = t.known_type
      /\ Mark(s, t).evaluated = t.evaluated \cup {s}
    BY MarkedTable
<1> HIDE DEF u
<1>5. Grows(t, u)
    BY <1>3, <1>4 DEF Follows, Grows
<1>6. (KnownFits(t) <=> KnownFits(Mark(s, t))) /\ (KnownFits(r.table) <=> KnownFits(u))
    BY <1>3, <1>4, KnownFitsDepends
<1>7. QED BY <1>1, <1>5, <1>6 DEF Follows

LEMMA RememberedValue ==
    ASSUME NEW t, IsTable(t), NEW s, NEW v
    PROVE  Follows(t, [t EXCEPT !.known_value[s] = v])
<1> DEFINE u == [t EXCEPT !.known_value[s] = v]
<1>1. IsTable(u) /\ u.exports = t.exports /\ u.known_type = t.known_type
      /\ u.evaluated = t.evaluated
    BY DEF IsTable
<1> HIDE DEF u
<1>2. KnownFits(t) <=> KnownFits(u)
    BY <1>1, KnownFitsDepends
<1>3. Follows(t, u)
    BY <1>1, <1>2 DEF Follows, Grows
<1>4. QED BY <1>3 DEF u

LEMMA SymbolEvaluateFollows ==
    ASSUME NEW answers, AreHonest(answers), NEW s, NEW at, NEW t, IsTable(t)
    PROVE  Follows(t, SymbolEvaluate(s, at, t, answers).table)
<1> DEFINE r == Answer(AskValue(Exported(s, t), at, Mark(s, t)), answers)
           l == Leave(s, r)
<1>1. CASE s \notin Symbols \/ s \in t.evaluated
    BY <1>1, FollowsReflexive, YieldFields DEF SymbolEvaluate
<1>2. CASE s \in Symbols /\ s \notin t.evaluated
  <2>1. IsTable(Mark(s, t))
    BY MarkedTable
  <2>2. Follows(Mark(s, t), r.table)
    BY <2>1, AskValueIsHonest
  <2>3. Follows(t, l.table)
    BY <1>2, <2>2, LeaveFollows
  <2>4. SymbolEvaluate(s, at, t, answers).table \in
            {l.table, [l.table EXCEPT !.known_value[s] = l.out]}
    BY <1>2, YieldFields DEF SymbolEvaluate
  <2> HIDE DEF l
  <2>5. Follows(l.table, [l.table EXCEPT !.known_value[s] = l.out])
    BY <2>3, RememberedValue DEF Follows, Grows
  <2>6. QED BY <2>3, <2>4, <2>5, FollowsTransitive
<1>3. QED BY <1>1, <1>2

LEMMA EvaluateFollows ==
    ASSUME NEW answers, AreHonest(answers), NEW e, NEW at, NEW t, IsTable(t)
    PROVE  Follows(t, Evaluate(e, at, t, answers).table)
<1>1. CASE e.k = "lambda"
  <2> DEFINE r == Answer(AskValue(e.bound, at, t), answers)
  <2>1. Follows(t, r.table)
    BY AskValueIsHonest
  <2>2. EvaluateLambda(e, at, t, answers).table = r.table
    BY YieldFields DEF EvaluateLambda, AndThen
  <2>3. QED BY <1>1, <2>1, <2>2 DEF Evaluate
<1>2. CASE e.k = "local_symbol"
    BY <1>2, SymbolEvaluateFollows DEF Evaluate
<1>3. CASE e.k \notin {"lambda", "local_symbol"}
    BY <1>3, FollowsReflexive, YieldFields DEF Evaluate
<1>4. QED BY <1>1, <1>2, <1>3

----------------------------------------------------------------------------
(* type_of                                                                  *)

LEMMA SymbolTypeOfIsHonest ==
    ASSUME NEW answers, AreHonest(answers), NEW e, e.k = "local_symbol",
           NEW at, NEW t, IsTable(t),
           NEW r, r = SymbolTypeOf(e.name, at, t, answers)
    PROVE  /\ Follows(t, r.table)
           /\ KnownFits(t) /\ IsSome(r.out) => Agrees(r.out, e, t.exports)
<1> DEFINE s == e.name
           a == Answer(AskType(Exported(s, t), at, Mark(s, t)), answers)
           l == Leave(s, a)
           u == [l.table EXCEPT !.known_type[s] = l.out]
<1>1. CASE s \notin Symbols \/ s \in t.evaluated
  <2>1. r.table = t /\ r.out \in {NotImplemented, DependsOnItself}
    BY <1>1, YieldFields DEF SymbolTypeOf
  <2>2. QED BY <2>1, NoAnswers, FollowsReflexive
<1>2. CASE s \in Symbols /\ s \notin t.evaluated /\ IsSome(t.known_type[s])
  <2>1. r = Yield(t.known_type[s], t)
    BY <1>2 DEF SymbolTypeOf
  <2>2. KnownFits(t) => Agrees(r.out, Exported(s, t), t.exports)
    BY <1>2, <2>1, YieldFields DEF KnownFits
  <2>3. QED BY <1>2, <2>1, <2>2, YieldFields, FollowsReflexive, SymbolAgrees
<1>3. CASE s \in Symbols /\ s \notin t.evaluated /\ ~IsSome(t.known_type[s])
  <2>1. /\ IsTable(Mark(s, t)) /\ Mark(s, t).exports = t.exports
        /\ Mark(s, t).known_type = t.known_type
    BY MarkedTable
  <2>2. /\ Follows(Mark(s, t), a.table)
        /\ KnownFits(Mark(s, t)) /\ IsSome(a.out) =>
                Agrees(a.out, Exported(s, t), Mark(s, t).exports)
    BY <2>1, AskTypeIsHonest
  <2>3. Follows(t, l.table) /\ l.out = a.out
    BY <1>3, <2>2, LeaveFollows
  <2>4. KnownFits(t) /\ IsSome(l.out) => Agrees(l.out, Exported(s, t), t.exports)
    BY <2>1, <2>2, <2>3, KnownFitsDepends
  <2>5. r = IF IsSome(l.out) THEN Yield(l.out, u) ELSE l
    BY <1>3 DEF SymbolTypeOf
  <2> HIDE DEF l, a
  <2>6. IsTable(l.table) /\ l.table.exports = t.exports
    BY <2>3 DEF Follows, Grows
  <2>7. /\ IsTable(u) /\ u.exports = l.table.exports /\ u.evaluated = l.table.evaluated
        /\ u.known_type = [l.table.known_type EXCEPT ![s] = l.out]
    BY <1>3, <2>6 DEF IsTable
  <2> HIDE DEF u
  <2>8. /\ u.known_type[s] = l.out
        /\ \A o \in Symbols \ {s} : u.known_type[o] = l.table.known_type[o]
    BY <1>3, <2>6, <2>7 DEF IsTable
  <2>9. Grows(t, u)
    BY <1>3, <2>3, <2>7, <2>8 DEF Follows, Grows
  <2>10. KnownFits(t) /\ IsSome(l.out) => KnownFits(u)
    <3> SUFFICES ASSUME KnownFits(t), IsSome(l.out), NEW o \in Symbols, IsSome(u.known_type[o])
                 PROVE  Agrees(u.known_type[o], Exported(o, u), u.exports)
        BY DEF KnownFits
    <3>1. Exported(o, u) = Exported(o, t) /\ Exported(o, l.table) = Exported(o, t)
        BY <2>6, <2>7 DEF Exported
    <3>2. CASE o = s
        BY <2>4, <2>6, <2>7, <2>8, <3>1, <3>2
    <3>3. CASE o # s
        BY <2>3, <2>6, <2>7, <2>8, <3>1, <3>3 DEF Follows, KnownFits
    <3>4. QED BY <3>2, <3>3
  <2>11. IsSome(l.out) => Follows(t, u)
    BY <2>9, <2>10 DEF Follows
  <2>12. KnownFits(t) /\ IsSome(l.out) => Agrees(l.out, e, t.exports)
    BY <1>3, <2>4, SymbolAgrees
  <2>13. QED BY <2>3, <2>5, <2>11, <2>12, YieldFields
<1>4. QED BY <1>1, <1>2, <1>3

LEMMA TypeOfBodyFollows ==
    ASSUME NEW answers, AreHonest(answers), NEW e, NEW bound, NEW parameter,
           NEW t, IsTable(t),
           NEW r, r = TypeOfBody(e, bound, parameter, t, answers)
    PROVE  /\ Follows(t, r.table)
           /\ IsSome(r.out) => r.out.k \in {"function_type", "generic_function_type"}
<1> DEFINE a == Answer(AskType(e.body, With(bound, parameter.type, None), t), answers)
<1>1. Follows(t, a.table)
    BY AskTypeIsHonest
<1> HIDE DEF a
<1>2. CASE parameter.k = "type"
  <2>1. r = IF Thrown(a.out) THEN a
            ELSE Yield(IF IsSome(a.out) THEN FunctionType(parameter.type, a.out)
                                        ELSE GenericFunction(parameter.type), a.table)
    BY <1>2 DEF TypeOfBody, AndThen, a
  <2>2. r.table = a.table
    BY <2>1, YieldFields
  <2>3. Thrown(a.out) => ~IsSome(a.out)
    BY DEF Thrown, IsSome
  <2>4. \A p, o : FunctionType(p, o).k = "function_type"
                  /\ GenericFunction(p).k = "generic_function_type"
    BY DEF FunctionType, GenericFunction
  <2>5. QED BY <1>1, <2>1, <2>2, <2>3, <2>4, YieldFields
<1>3. CASE parameter.k # "type"
  <2>1. r.table = t /\ r.out \in {None, NotImplemented}
    BY <1>3, YieldFields DEF TypeOfBody
  <2>2. QED BY <2>1, NoAnswers, FollowsReflexive
<1>4. QED BY <1>2, <1>3

LEMMA TypeOfLambdaFollows ==
    ASSUME NEW answers, AreHonest(answers), NEW e, NEW at, NEW t, IsTable(t),
           NEW r, r = TypeOfLambda(e, at, t, answers)
    PROVE  /\ Follows(t, r.table)
           /\ IsSome(r.out) => r.out.k \in {"function_type", "generic_function_type"}
<1> DEFINE a == Answer(AskValue(e.bound, at, t), answers)
           b == Answer(AskValue(e.parameter, [at EXCEPT !.bound = a.out], a.table), answers)
           c == TypeOfBody(e, a.out, b.out, b.table, answers)
<1>1. r = IF Thrown(a.out) THEN a ELSE IF Thrown(b.out) THEN b ELSE c
    BY DEF TypeOfLambda, AndThen
<1>2. Follows(t, a.table) /\ IsTable(a.table)
    BY AskValueIsHonest
<1>3. Follows(a.table, b.table) /\ IsTable(b.table)
    BY <1>2, AskValueIsHonest
<1>4. /\ Follows(b.table, c.table)
      /\ IsSome(c.out) => c.out.k \in {"function_type", "generic_function_type"}
    BY <1>3, TypeOfBodyFollows
<1> HIDE DEF a, b, c
<1>5. Follows(t, b.table) /\ Follows(t, c.table)
    BY <1>2, <1>3, <1>4, FollowsTransitive
<1>6. \A out : Thrown(out) => ~IsSome(out)
    BY DEF Thrown, IsSome
<1>7. QED BY <1>1, <1>2, <1>4, <1>5, <1>6

LEMMA TypeOfCallFollows ==
    ASSUME NEW answers, AreHonest(answers), NEW e, NEW at, NEW t, IsTable(t)
    PROVE  Follows(t, TypeOfCall(e, at, t, answers).table)
<1> DEFINE a == Answer(AskType(e.callee, at, t), answers)
           b == Answer(AskValue(e.callee, at, a.table), answers)
           c == Answer(AskValue(e.argument, at, b.table), answers)
           d == Answer(AskType(b.out.body, With(b.out.bound, None, c.out), c.table), answers)
<1>1. Follows(t, a.table) /\ IsTable(a.table)
    BY AskTypeIsHonest
<1>2. Follows(a.table, b.table) /\ IsTable(b.table)
    BY <1>1, AskValueIsHonest
<1>3. Follows(b.table, c.table) /\ IsTable(c.table)
    BY <1>2, AskValueIsHonest
<1>4. Follows(c.table, d.table)
    BY <1>3, AskTypeIsHonest
<1>5. TypeOfGenericCall(e, at, a.table, answers).table \in {b.table, c.table, d.table}
    BY YieldFields DEF TypeOfGenericCall, AndThen
<1>6. TypeOfCall(e, at, t, answers).table \in
        {a.table, TypeOfGenericCall(e, at, a.table, answers).table}
    BY YieldFields DEF TypeOfCall, AndThen
<1> HIDE DEF a, b, c, d
<1>7. Follows(t, b.table) /\ Follows(t, c.table) /\ Follows(t, d.table)
    BY <1>1, <1>2, <1>3, <1>4, FollowsTransitive
<1>8. QED BY <1>1, <1>5, <1>6, <1>7

LEMMA TypeOfIsHonest ==
    ASSUME NEW answers, AreHonest(answers), NEW e, NEW at, NEW t, IsTable(t),
           NEW r, r = TypeOf(e, at, t, answers)
    PROVE  /\ Follows(t, r.table)
           /\ KnownFits(t) /\ IsSome(r.out) => Agrees(r.out, e, t.exports)
<1>1. CASE e.k = "literal"
  <2>1. r = Yield(TypeOfValue(e.value), t)
    BY <1>1 DEF TypeOf
  <2>2. IsSome(r.out) => r.out = TypeType /\ e.value.k = "type"
    BY <2>1, NoAnswers, YieldFields DEF TypeOfValue
  <2>3. QED BY <1>1, <2>1, <2>2, LiteralAgrees, YieldFields, FollowsReflexive
<1>2. CASE e.k = "lambda"
  <2>1. r = TypeOfLambda(e, at, t, answers)
    BY <1>2 DEF TypeOf
  <2>2. QED BY <1>2, <2>1, TypeOfLambdaFollows, LambdaAgrees
<1>3. CASE e.k = "argument"
  <2>1. r.table = t
    BY <1>3, YieldFields DEF TypeOf
  <2>2. QED BY <1>3, <2>1, NoValueAgrees, FollowsReflexive
<1>4. CASE e.k = "return"
  <2>1. r = Answer(AskType(e.result, at, t), answers)
    BY <1>4 DEF TypeOf
  <2>2. QED BY <1>4, <2>1, NoValueAgrees, AskTypeIsHonest
<1>5. CASE e.k = "call"
  <2>1. r = TypeOfCall(e, at, t, answers)
    BY <1>5 DEF TypeOf
  <2>2. QED BY <1>5, <2>1, NoValueAgrees, TypeOfCallFollows
<1>6. CASE e.k = "local_symbol"
  <2>1. r = SymbolTypeOf(e.name, at, t, answers)
    BY <1>6 DEF TypeOf
  <2>2. QED BY <1>6, <2>1, SymbolTypeOfIsHonest
<1>7. CASE e.k \notin {"literal", "lambda", "argument", "return", "call", "local_symbol"}
  <2>1. r = Yield(NotImplemented, t)
    BY <1>7 DEF TypeOf
  <2>2. QED BY <2>1, NoAnswers, YieldFields, FollowsReflexive
<1>8. QED BY <1>1, <1>2, <1>3, <1>4, <1>5, <1>6, <1>7

(* However many calls fit on the stack.                                     *)
LEMMA AnswersAreHonest == \A n \in Nat : AreHonest(Answers[n])
<1> DEFINE T == {n \in Nat : AreHonest(Answers[n])}
<1>1. AreHonest(Answers[0])
  <2> SUFFICES ASSUME NEW q \in Questions PROVE Honest(q, Answers[0][q])
    BY DEF AreHonest
  <2>1. Answers[0][q] = Yield(StackOverflow, q.table)
    BY AnswersUnfold DEF NoCall
  <2>2. q.table \in Tables
    BY DEF Questions
  <2>3. Follows(q.table, q.table)
    BY <2>2, TablesAreTables, FollowsReflexive
  <2>4. QED BY <2>1, <2>3, NoAnswers, YieldFields DEF Honest
<1>2. ASSUME NEW n \in Nat, AreHonest(Answers[n]) PROVE AreHonest(Answers[n + 1])
  <2> SUFFICES ASSUME NEW q \in Questions PROVE Honest(q, Answers[n + 1][q])
    BY DEF AreHonest
  <2>1. Answers[n + 1] = OneCall(Answers[n])
    BY AnswersUnfold
  <2>2. q.table \in Tables
    BY DEF Questions
  <2>3. IsTable(q.table)
    BY <2>2, TablesAreTables
  <2>4. CASE q.ask = "type_of"
    <3>1. Answers[n + 1][q] = TypeOf(q.of, q.at, q.table, Answers[n])
        BY <2>1, <2>4 DEF OneCall
    <3>2. QED BY <1>2, <2>3, <3>1, TypeOfIsHonest DEF Honest
  <2>5. CASE q.ask # "type_of"
    <3>1. Answers[n + 1][q] = Evaluate(q.of, q.at, q.table, Answers[n])
        BY <2>1, <2>5 DEF OneCall
    <3>2. QED BY <1>2, <2>3, <2>5, <3>1, EvaluateFollows DEF Honest
  <2>6. QED BY <2>4, <2>5
<1>3. 0 \in T /\ \A n \in Nat : n \in T => n + 1 \in T
    BY <1>1, <1>2
<1> HIDE DEF T
<1>4. \A n \in Nat : n \in T
    BY <1>3, SetInduction
<1>5. QED BY <1>4 DEF T

----------------------------------------------------------------------------
(* The printer                                                              *)

LanguageInv ==
    /\ IsTable(symbols)
    /\ symbols.evaluated = {}
    /\ KnownFits(symbols)
    /\ \E S : shown \in Seq(S)
    /\ line \in DOMAIN Keys => line = Len(shown) + 1
    /\ \A i \in DOMAIN shown :
          IsSome(shown[i]) => Agrees(shown[i], symbols.exports[i], symbols.exports)

LEMMA LanguageInvInit == Init => LanguageInv
<1> SUFFICES ASSUME Init PROVE LanguageInv
    OBVIOUS
<1>1. PICK exports : symbols = EmptyTable(exports)
    BY DEF Init
<1>2. /\ IsTable(symbols) /\ symbols.evaluated = {}
      /\ \A s \in Symbols : symbols.known_type[s] = None
    BY <1>1 DEF EmptyTable, IsTable
<1>3. KnownFits(symbols)
    BY <1>2, NoAnswers DEF KnownFits
<1>4. shown = <<>> /\ line = 1
    BY DEF Init
<1>5. QED BY <1>2, <1>3, <1>4 DEF LanguageInv

LEMMA PrintExportIsHonest ==
    ASSUME LanguageInv, PrintExport,
           NEW r, r = Answer(AskType(symbols.exports[line], Outside, symbols), Answers[MaxDepth])
    PROVE  /\ symbols' = r.table /\ shown' = Append(shown, r.out)
           /\ line' \in {Len(Keys) + 1, line + 1}
           /\ Grows(symbols, symbols') /\ KnownFits(symbols')
           /\ IsSome(r.out) => Agrees(r.out, symbols.exports[line], symbols.exports)
<1>1. AreHonest(Answers[MaxDepth])
    BY AnswersAreHonest, BoundsAreNatural
<1>2. /\ Follows(symbols, r.table)
      /\ IsSome(r.out) => Agrees(r.out, symbols.exports[line], symbols.exports)
    BY <1>1, AskTypeIsHonest DEF LanguageInv
<1>3. QED BY <1>2 DEF PrintExport, Follows, LanguageInv

LEMMA Appended ==
    ASSUME NEW S, NEW s \in Seq(S), NEW x
    PROVE  /\ Append(s, x) \in Seq(S \cup {x})
           /\ Len(Append(s, x)) = Len(s) + 1
           /\ DOMAIN Append(s, x) = DOMAIN s \cup {Len(s) + 1}
           /\ \A i \in DOMAIN s : Append(s, x)[i] = s[i]
           /\ Append(s, x)[Len(s) + 1] = x
<1>1. s \in Seq(S \cup {x})
    OBVIOUS
<1>2. QED BY <1>1

LEMMA LanguageInvStep == LanguageInv /\ [Next]_vars => LanguageInv'
<1> SUFFICES ASSUME LanguageInv, [Next]_vars PROVE LanguageInv'
    OBVIOUS
<1>1. CASE PrintExport
  <2> DEFINE r == Answer(AskType(symbols.exports[line], Outside, symbols), Answers[MaxDepth])
  <2>1. /\ symbols' = r.table /\ shown' = Append(shown, r.out)
        /\ line' \in {Len(Keys) + 1, line + 1}
        /\ Grows(symbols, symbols') /\ KnownFits(symbols')
        /\ IsSome(r.out) => Agrees(r.out, symbols.exports[line], symbols.exports)
    BY <1>1, PrintExportIsHonest
  <2> HIDE DEF r
  <2>2. /\ IsTable(symbols)' /\ symbols'.evaluated = {} /\ KnownFits(symbols)'
        /\ symbols'.exports = symbols.exports
    BY <2>1 DEF LanguageInv, Grows
  <2>3. PICK S : shown \in Seq(S)
    BY DEF LanguageInv
  <2>4. /\ shown' \in Seq(S \cup {r.out}) /\ Len(shown') = Len(shown) + 1
        /\ DOMAIN shown' = DOMAIN shown \cup {Len(shown) + 1}
        /\ \A i \in DOMAIN shown : shown'[i] = shown[i]
        /\ shown'[Len(shown) + 1] = r.out
    BY <2>1, <2>3, Appended
  <2>5. line = Len(shown) + 1
    BY <1>1 DEF LanguageInv, PrintExport
  <2>6. line' \in DOMAIN Keys => line' = Len(shown') + 1
    BY <2>1, <2>3, <2>4, <2>5, KeysAreNames
  <2>7. ASSUME NEW i \in DOMAIN shown', IsSome(shown'[i])
        PROVE  Agrees(shown'[i], symbols'.exports[i], symbols'.exports)
    BY <2>1, <2>2, <2>4, <2>5, <2>7 DEF LanguageInv
  <2>8. QED BY <2>2, <2>4, <2>6, <2>7 DEF LanguageInv
<1>2. CASE PrintAgain
  <2>1. shown' = <<>> /\ line' = 1 /\ symbols' = symbols
    BY <1>2 DEF PrintAgain
  <2>2. shown' \in Seq({}) /\ DOMAIN shown' = {} /\ line' = Len(shown') + 1
    BY <2>1
  <2>3. QED BY <2>1, <2>2 DEF LanguageInv
<1>3. CASE UNCHANGED vars
    BY <1>3 DEF vars, LanguageInv
<1>4. QED BY <1>1, <1>2, <1>3 DEF Next

LEMMA LanguageInvAlways == Spec => []LanguageInv
BY LanguageInvInit, LanguageInvStep, PTL DEF Spec

(* No symbol stays marked when a call into the table is over, however the   *)
(* call ended, for every module and every depth of the stack: the scope     *)
(* exits of language.cpp:428-432 and 460-464 undo every mark.               *)
THEOREM MarksReleased == Spec => []MarksAreReleased
<1>1. LanguageInv => MarksAreReleased
    BY DEF LanguageInv, MarksAreReleased
<1>2. QED BY <1>1, LanguageInvAlways, PTL

(* A type that is printed is one the value of the export has: closures have *)
(* function types and types the type of types, whatever types and values    *)
(* the symbols of the module were asked for before (language.cpp:485-488,   *)
(* 529-537, 643-649).                                                       *)
THEOREM TypesFitValues == Spec => []TypeFitsValue
<1>1. LanguageInv => TypeFitsValue
  <2> SUFFICES ASSUME LanguageInv, NEW i \in DOMAIN shown, IsSome(shown[i]),
                      NEW v, IsSome(v),
                      v = Answer(AskValue(symbols.exports[i], Outside, symbols),
                                 Answers[MaxDepth]).out
               PROVE  Fits(shown[i], v)
    BY DEF TypeFitsValue, Fits
  <2>1. AskValue(symbols.exports[i], Outside, symbols) \in Questions
    BY NoAnswers, YieldFields DEF Answer
  <2>2. symbols \in Tables
    BY <2>1 DEF AskValue, Questions
  <2>3. Agrees(shown[i], symbols.exports[i], symbols.exports)
    BY DEF LanguageInv
  <2>4. QED BY <2>2, <2>3, BoundsAreNatural DEF Agrees
<1>2. QED BY <1>1, LanguageInvAlways, PTL

(* The table never replaces a type it remembers, although a symbol's type   *)
(* is found with the bound value and the argument of whoever asks first     *)
(* (language.cpp:423-426, 438).                                             *)
THEOREM TypesStayKnown == Spec => KnownTypesAreKept
<1> DEFINE Kept == \A s \in Symbols : IsSome(symbols.known_type[s]) =>
                        symbols'.known_type[s] = symbols.known_type[s]
<1>1. LanguageInv /\ [Next]_vars => [Kept]_vars
  <2> SUFFICES ASSUME LanguageInv, [Next]_vars PROVE Kept \/ UNCHANGED vars
    OBVIOUS
  <2>1. CASE PrintExport
    BY <2>1, PrintExportIsHonest DEF Grows
  <2>2. CASE PrintAgain
    BY <2>2 DEF PrintAgain
  <2>3. QED BY <2>1, <2>2 DEF Next
<1>2. QED BY <1>1, LanguageInvAlways, PTL DEF Spec, KnownTypesAreKept

=============================================================================
