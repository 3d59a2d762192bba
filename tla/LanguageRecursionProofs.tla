---------------------- MODULE LanguageRecursionProofs -----------------------
(***************************************************************************)
(* A recursion that the marks of the symbol table do not report, however   *)
(* deep the stack is: what language_recursion finds at one depth.  Every   *)
(* call of a SelfCalling export leads to the same call with two calls less *)
(* of stack (CallCrashes), whatever is known of the export by then         *)
(* (TypeOfSelf, TrueTypeOfSelf); EveryCallCrashes is the induction.        *)
(***************************************************************************)
EXTENDS LanguageCacheProofs

(* The ends of a program that cannot be reported.                           *)
Crashes == {StackOverflow, OutOfMemory}

(* A function of the value of its argument, found by calling s.             *)
Dependent(body) == Lambda(Argument, BoundValue, body)

CallWith(s, i) == Call(LocalSymbol(s), Literal(TypeValue(i)))

(* An export s that calls itself to find the type of its result, and a      *)
(* function that uses it.                                                   *)
SelfCalling(s, b, p, i) ==
    Lambda(Literal(b), Literal(TypeValue(p)), Dependent(CallWith(s, i)))
CallerOf(s, c, q, j) == Lambda(Literal(c), Literal(TypeValue(q)), CallWith(s, j))

----------------------------------------------------------------------------
(* What both recursions, Answers and Meaning, say of simple expressions     *)

(* A type is found like this, by calls answered by B.                       *)
Steps(A, B, t) ==
    \A e, at : LET r == Answer(AskType(e, at, t), A) IN
        \/ r.out \in Crashes /\ r.table = t
        \/ /\ r.out = TypeOf(e, at, t, B).out
           /\ r.table \in {t, TypeOf(e, at, t, B).table}

AlwaysCrashes(A, t) ==
    \A e, at : LET r == Answer(AskType(e, at, t), A) IN r.out \in Crashes /\ r.table = t

(* The values that need no call.                                            *)
Tells(A, t) ==
    \A e, at : LET r == Answer(AskValue(e, at, t), A) IN
        /\ e.k = "literal"     => r.table = t /\ r.out \in {e.value} \cup Crashes
        /\ e.k = "argument"    => r.table = t /\ r.out \in {at.argument} \cup Crashes
        /\ e.k = "bound_value" => r.table = t /\ r.out \in {at.bound} \cup Crashes

LEMMA AnswersTell ==
    ASSUME NEW n \in Nat, NEW t
    PROVE  Tells(Answers[n], t)
<1> SUFFICES ASSUME NEW e, NEW at, e.k \in {"literal", "argument", "bound_value"},
                    NEW r, r = Answer(AskValue(e, at, t), Answers[n])
             PROVE  /\ r.table = t
                    /\ e.k = "literal"     => r.out \in {e.value} \cup Crashes
                    /\ e.k = "argument"    => r.out \in {at.argument} \cup Crashes
                    /\ e.k = "bound_value" => r.out \in {at.bound} \cup Crashes
    BY DEF Tells
<1>1. CASE AskType(e, at, t) \notin Questions
  <2>1. r = Yield(OutOfMemory, t)
    BY <1>1, AnswerUnfold
  <2>2. QED BY <2>1, YieldFields DEF Crashes
<1>2. CASE AskType(e, at, t) \in Questions /\ n = 0
  <2>1. r = Yield(StackOverflow, t)
    BY <1>2, AnswerUnfold
  <2>2. QED BY <2>1, YieldFields DEF Crashes
<1>3. CASE AskType(e, at, t) \in Questions /\ n # 0
  <2>1. n - 1 \in Nat /\ n = (n - 1) + 1
    BY <1>3
  <2>2. r = Evaluate(e, at, t, Answers[n - 1])
    BY <1>3, <2>1, AnswerUnfold
  <2>3. QED BY <2>2, YieldFields DEF Evaluate
<1>4. QED BY <1>1, <1>2, <1>3

LEMMA MeaningTells ==
    ASSUME NEW n \in Nat, NEW x
    PROVE  Tells(Meaning[n], EmptyTable(x))
<1> DEFINE t == EmptyTable(x)
<1> SUFFICES ASSUME NEW e, NEW at, e.k \in {"literal", "argument", "bound_value"},
                    NEW r, r = Answer(AskValue(e, at, t), Meaning[n])
             PROVE  /\ r.table = t
                    /\ e.k = "literal"     => r.out \in {e.value} \cup Crashes
                    /\ e.k = "argument"    => r.out \in {at.argument} \cup Crashes
                    /\ e.k = "bound_value" => r.out \in {at.bound} \cup Crashes
    BY DEF Tells
<1>1. r.table = t /\ r.out = ValueMeans(e, at, x, n)
    BY MeaningLeavesNothing DEF ValueMeans
<1>2. CASE AskType(e, at, t) \notin Questions
    BY <1>1, <1>2, MeansNothing DEF Crashes
<1>3. CASE AskType(e, at, t) \in Questions /\ n = 0
    BY <1>1, <1>3, MeansUnfold DEF Crashes
<1>4. CASE AskType(e, at, t) \in Questions /\ n # 0
  <2>1. n - 1 \in Nat /\ n = (n - 1) + 1
    BY <1>4
  <2>2. r.out = Evaluate(e, at, t, Meaning[n - 1]).out
    BY <1>1, <1>4, <2>1, MeansUnfold
  <2>3. QED BY <1>1, <2>2, YieldFields DEF Evaluate
<1>5. QED BY <1>2, <1>3, <1>4

LEMMA AnswersStep ==
    ASSUME NEW n \in Nat, NEW t
    PROVE  /\ AlwaysCrashes(Answers[0], t)
           /\ Steps(Answers[n + 1], Answers[n], t)
<1>1. ASSUME NEW e, NEW at, AskType(e, at, t) \notin Questions, NEW m \in Nat
      PROVE  Answer(AskType(e, at, t), Answers[m]).out \in Crashes
             /\ Answer(AskType(e, at, t), Answers[m]).table = t
    BY <1>1, AnswerUnfold, YieldFields DEF Crashes
<1>2. ASSUME NEW e, NEW at, AskType(e, at, t) \in Questions
      PROVE  /\ Answer(AskType(e, at, t), Answers[0]).out \in Crashes
             /\ Answer(AskType(e, at, t), Answers[0]).table = t
             /\ Answer(AskType(e, at, t), Answers[n + 1]) = TypeOf(e, at, t, Answers[n])
    BY <1>2, AnswerUnfold, YieldFields DEF Crashes
<1>3. AlwaysCrashes(Answers[0], t)
    BY <1>1, <1>2 DEF AlwaysCrashes
<1>4. Steps(Answers[n + 1], Answers[n], t)
    BY <1>1, <1>2 DEF Steps
<1>5. QED BY <1>3, <1>4

LEMMA MeaningSteps ==
    ASSUME NEW n \in Nat, NEW x
    PROVE  /\ AlwaysCrashes(Meaning[0], EmptyTable(x))
           /\ Steps(Meaning[n + 1], Meaning[n], EmptyTable(x))
<1> DEFINE t == EmptyTable(x)
<1>1. \A e, at : \A m \in Nat :
            /\ Answer(AskType(e, at, t), Meaning[m]).table = t
            /\ Answer(AskType(e, at, t), Meaning[m]).out = TypeMeans(e, at, x, m)
    BY MeaningLeavesNothing DEF TypeMeans
<1>2. \A e, at : \A m \in Nat :
            AskType(e, at, t) \notin Questions => TypeMeans(e, at, x, m) \in Crashes
    BY MeansNothing DEF Crashes
<1>3. \A e, at : AskType(e, at, t) \in Questions =>
                    /\ TypeMeans(e, at, x, 0) \in Crashes
                    /\ TypeMeans(e, at, x, n + 1) = TypeOf(e, at, t, Meaning[n]).out
    BY MeansUnfold DEF Crashes
<1> HIDE DEF t
<1>4. AlwaysCrashes(Meaning[0], t)
    BY <1>1, <1>2, <1>3 DEF AlwaysCrashes
<1>5. Steps(Meaning[n + 1], Meaning[n], t)
  <2> SUFFICES ASSUME NEW e, NEW at, NEW r, r = Answer(AskType(e, at, t), Meaning[n + 1])
               PROVE  \/ r.out \in Crashes /\ r.table = t
                      \/ r.out = TypeOf(e, at, t, Meaning[n]).out /\ r.table = t
    BY DEF Steps
  <2>1. n + 1 \in Nat
    OBVIOUS
  <2>2. r.table = t /\ r.out = TypeMeans(e, at, x, n + 1)
    BY <1>1, <2>1
  <2>3. QED BY <1>2, <1>3, <2>1, <2>2
<1>6. QED BY <1>4, <1>5 DEF t
----------------------------------------------------------------------------
(* The type of a function whose result depends on its argument              *)

(* Without an argument, its result has no type.                             *)
HasNoType(A, t) ==
    \A body, bound, type :
        LET r == Answer(AskType(Dependent(body), With(bound, type, None), t), A) IN
        r.out \in {None} \cup Crashes /\ r.table = t

LEMMA ExpressionKinds ==
    ASSUME NEW b, NEW p, NEW e
    PROVE  /\ Lambda(b, p, e).k = "lambda" /\ Lambda(b, p, e).bound = b
           /\ Lambda(b, p, e).parameter = p /\ Lambda(b, p, e).body = e
           /\ Argument.k = "argument" /\ BoundValue.k = "bound_value"
           /\ Literal(e).k = "literal" /\ Literal(e).value = e
           /\ Call(b, e).k = "call" /\ Call(b, e).callee = b /\ Call(b, e).argument = e
           /\ LocalSymbol(e).k = "local_symbol" /\ LocalSymbol(e).name = e
           /\ TypeValue(e).k = "type" /\ TypeValue(e).type = e
           /\ Closure(b, e).k = "closure" /\ Closure(b, e).bound = b /\ Closure(b, e).body = e
           /\ GenericFunction(e).k = "generic_function_type"
BY DEF Lambda, Argument, BoundValue, Literal, Call, LocalSymbol, TypeValue, Closure,
       GenericFunction

LEMMA ContextFields ==
    ASSUME NEW b, NEW t, NEW a, NEW c
    PROVE  /\ With(b, t, a).bound = b /\ With(b, t, a).argument = a
           /\ [With(b, t, a) EXCEPT !.bound = c] = With(c, t, a)
BY DEF With

LEMMA CrashesAreThrown ==
    /\ \A out \in Crashes : Thrown(out) /\ ~IsSome(out) /\ out.k = "throws"
    /\ None.k = "none" /\ ~Thrown(None) /\ ~IsSome(None)
    /\ \A i : IsSome(TypeValue(i)) /\ ~Thrown(TypeValue(i))
    /\ \A b, e : IsSome(Closure(b, e)) /\ ~Thrown(Closure(b, e))
    /\ \A p : IsSome(GenericFunction(p)) /\ ~Thrown(GenericFunction(p))
<1>1. None.k = "none"
    BY DEF None
<1>2. /\ \A i : TypeValue(i).k = "type"
      /\ \A b, e : Closure(b, e).k = "closure"
      /\ \A p : GenericFunction(p).k = "generic_function_type"
    BY ExpressionKinds
<1>3. \A out \in Crashes : Thrown(out) /\ ~IsSome(out) /\ out.k = "throws"
    BY KindsDiffer DEF Crashes
<1>4. QED BY <1>1, <1>2, <1>3 DEF IsSome, Thrown

LEMMA DependentHasNoType ==
    ASSUME NEW A, NEW B, NEW t, Steps(A, B, t), Tells(B, t)
    PROVE  HasNoType(A, t)
<1> SUFFICES ASSUME NEW body, NEW bound, NEW type, NEW at, at = With(bound, type, None),
                    NEW e, e = Dependent(body),
                    NEW r, r = Answer(AskType(e, at, t), A)
             PROVE  r.out \in {None} \cup Crashes /\ r.table = t
    BY DEF HasNoType
<1> DEFINE l == TypeOfLambda(e, at, t, B)
           a == Answer(AskValue(e.bound, at, t), B)
           b == Answer(AskValue(e.parameter, [at EXCEPT !.bound = a.out], a.table), B)
           c == Answer(AskType(e.body, With(a.out, b.out.type, None), b.table), B)
<1>1. e.k = "lambda" /\ e.bound = Argument /\ e.parameter = BoundValue
    BY ExpressionKinds DEF Dependent
<1>2. TypeOf(e, at, t, B) = l
    BY <1>1 DEF TypeOf
<1>3. a.out \in {None} \cup Crashes /\ a.table = t
    BY <1>1, ExpressionKinds, ContextFields DEF Tells
<1>4. [at EXCEPT !.bound = a.out] = With(a.out, type, None)
    BY ContextFields
<1>5. b.out \in {a.out} \cup Crashes /\ b.table = t
    BY <1>1, <1>3, <1>4, ExpressionKinds, ContextFields DEF Tells
<1>6. /\ l.out = LambdaType(a.out, b.out, c.out)
      /\ l.table = IF Thrown(a.out) THEN a.table
                   ELSE IF Thrown(b.out) \/ b.out.k # "type" THEN b.table ELSE c.table
    BY LambdaOutcome
<1> HIDE DEF a, b, c, l
<1>7. l.out \in {None} \cup Crashes /\ l.table = t
    BY <1>3, <1>5, <1>6, CrashesAreThrown DEF LambdaType
<1>8. QED BY <1>2, <1>7 DEF Steps

LEMMA GenericType ==
    ASSUME NEW B, NEW t, HasNoType(B, t), Tells(B, t),
           NEW v, ~Thrown(v), NEW p, NEW body, NEW bound, NEW type, NEW argument,
           NEW at, at = With(bound, type, argument),
           NEW e, e = Lambda(Literal(v), Literal(TypeValue(p)), Dependent(body))
    PROVE  /\ TypeOf(e, at, t, B).out \in {GenericFunction(p)} \cup Crashes
           /\ TypeOf(e, at, t, B).table = t
<1> DEFINE l == TypeOfLambda(e, at, t, B)
           a == Answer(AskValue(e.bound, at, t), B)
           b == Answer(AskValue(e.parameter, [at EXCEPT !.bound = a.out], a.table), B)
           c == Answer(AskType(e.body, With(a.out, b.out.type, None), b.table), B)
<1>1. /\ e.k = "lambda" /\ e.bound = Literal(v) /\ e.parameter = Literal(TypeValue(p))
      /\ e.body = Dependent(body)
    BY ExpressionKinds
<1>2. TypeOf(e, at, t, B) = l
    BY <1>1 DEF TypeOf
<1>3. a.out \in {v} \cup Crashes /\ a.table = t
    BY <1>1, ExpressionKinds DEF Tells
<1>4. b.out \in {TypeValue(p)} \cup Crashes /\ b.table = t
    BY <1>1, <1>3, ExpressionKinds DEF Tells
<1>5. c.out \in {None} \cup Crashes /\ c.table = t
    BY <1>1, <1>4 DEF HasNoType
<1>6. /\ l.out = LambdaType(a.out, b.out, c.out)
      /\ l.table = IF Thrown(a.out) THEN a.table
                   ELSE IF Thrown(b.out) \/ b.out.k # "type" THEN b.table ELSE c.table
    BY LambdaOutcome
<1> HIDE DEF a, b, c, l
<1>7. TypeValue(p).k = "type" /\ TypeValue(p).type = p
    BY ExpressionKinds
<1>8. l.out \in {GenericFunction(p)} \cup Crashes /\ l.table = t
    BY <1>3, <1>4, <1>5, <1>6, <1>7, CrashesAreThrown DEF LambdaType
<1>9. QED BY <1>2, <1>8
(* The type of an export that calls itself, as far as it is needed to use   *)
(* the export.                                                              *)
LEMMA TypeOfSelf ==
    ASSUME NEW s, NEW b, ~Thrown(b), NEW p, NEW i,
           NEW bound, NEW type, NEW argument,
           NEW at, at = With(bound, type, argument),
           NEW e, e = SelfCalling(s, b, p, i),
           NEW n \in Nat
    PROVE  /\ \A t : LET r == Answer(AskType(e, at, t), Answers[n]) IN
                     r.out \in {GenericFunction(p)} \cup Crashes /\ r.table = t
           /\ \A x : TypeMeans(e, at, x, n) \in {GenericFunction(p)} \cup Crashes
<1>1. ASSUME NEW t, NEW A, NEW B, Steps(A, B, t), HasNoType(B, t), Tells(B, t)
      PROVE  /\ Answer(AskType(e, at, t), A).out \in {GenericFunction(p)} \cup Crashes
             /\ Answer(AskType(e, at, t), A).table = t
  <2>1. /\ TypeOf(e, at, t, B).out \in {GenericFunction(p)} \cup Crashes
        /\ TypeOf(e, at, t, B).table = t
    BY <1>1, GenericType DEF SelfCalling
  <2>2. QED BY <1>1, <2>1 DEF Steps
<1>2. CASE n = 0
  <2>1. \A t : AlwaysCrashes(Answers[0], t)
    BY AnswersStep
  <2>2. \A x : AlwaysCrashes(Meaning[0], EmptyTable(x))
    BY MeaningSteps
  <2>3. QED BY <1>2, <2>1, <2>2 DEF AlwaysCrashes, TypeMeans
<1>3. CASE n # 0
  <2>1. n - 1 \in Nat /\ n = (n - 1) + 1
    BY <1>3
  <2>2. ASSUME NEW t PROVE HasNoType(Answers[n - 1], t)
    <3>1. CASE n - 1 = 0
        BY <3>1, AnswersStep DEF AlwaysCrashes, HasNoType
    <3>2. CASE n - 1 # 0
        <4>1. n - 2 \in Nat /\ n - 1 = (n - 2) + 1
            BY <2>1, <3>2
        <4>2. Steps(Answers[n - 1], Answers[n - 2], t) /\ Tells(Answers[n - 2], t)
            BY <4>1, AnswersStep, AnswersTell
        <4>3. QED BY <4>2, DependentHasNoType
    <3>3. QED BY <3>1, <3>2
  <2>3. ASSUME NEW x PROVE HasNoType(Meaning[n - 1], EmptyTable(x))
    <3>1. CASE n - 1 = 0
        BY <3>1, MeaningSteps DEF AlwaysCrashes, HasNoType
    <3>2. CASE n - 1 # 0
        <4>1. n - 2 \in Nat /\ n - 1 = (n - 2) + 1
            BY <2>1, <3>2
        <4>2. /\ Steps(Meaning[n - 1], Meaning[n - 2], EmptyTable(x))
              /\ Tells(Meaning[n - 2], EmptyTable(x))
            BY <4>1, MeaningSteps, MeaningTells
        <4>3. QED BY <4>2, DependentHasNoType
    <3>3. QED BY <3>1, <3>2
  <2>4. ASSUME NEW t
        PROVE  LET r == Answer(AskType(e, at, t), Answers[n]) IN
               r.out \in {GenericFunction(p)} \cup Crashes /\ r.table = t
    <3>1. Steps(Answers[n], Answers[n - 1], t) /\ Tells(Answers[n - 1], t)
        BY <2>1, AnswersStep, AnswersTell
    <3>2. QED BY <1>1, <2>2, <3>1
  <2>5. ASSUME NEW x PROVE TypeMeans(e, at, x, n) \in {GenericFunction(p)} \cup Crashes
    <3>1. Steps(Meaning[n], Meaning[n - 1], EmptyTable(x)) /\ Tells(Meaning[n - 1], EmptyTable(x))
        BY <2>1, MeaningSteps, MeaningTells
    <3>2. QED BY <1>1, <2>3, <3>1 DEF TypeMeans
  <2>6. QED BY <2>4, <2>5
<1>4. QED BY <1>2, <1>3

(* Its value is the closure of a function of types.                         *)
LEMMA ValueOfSelf ==
    ASSUME NEW s, NEW b, IsSome(b), NEW p, NEW i, NEW at,
           NEW e, e = SelfCalling(s, b, p, i), NEW n \in Nat, NEW t,
           NEW r, r = Answer(AskValue(e, at, t), Answers[n])
    PROVE  /\ r.out \in {Closure(b, Dependent(CallWith(s, i)))} \cup Crashes
           /\ r.table = t
<1>1. CASE AskType(e, at, t) \notin Questions
  <2>1. r = Yield(OutOfMemory, t)
    BY <1>1, AnswerUnfold
  <2>2. QED BY <2>1, YieldFields DEF Crashes
<1>2. CASE AskType(e, at, t) \in Questions /\ n = 0
  <2>1. r = Yield(StackOverflow, t)
    BY <1>2, AnswerUnfold
  <2>2. QED BY <2>1, YieldFields DEF Crashes
<1>3. CASE AskType(e, at, t) \in Questions /\ n # 0
  <2> DEFINE a == Answer(AskValue(e.bound, at, t), Answers[n - 1])
  <2>1. n - 1 \in Nat /\ n = (n - 1) + 1
    BY <1>3
  <2>2. r = Evaluate(e, at, t, Answers[n - 1])
    BY <1>3, <2>1, AnswerUnfold
  <2>3. e.k = "lambda" /\ e.bound = Literal(b) /\ e.body = Dependent(CallWith(s, i))
    BY ExpressionKinds DEF SelfCalling
  <2>4. a.out \in {b} \cup Crashes /\ a.table = t
    BY <2>1, <2>3, AnswersTell, ExpressionKinds DEF Tells
  <2>5. r = IF Thrown(a.out) THEN a
            ELSE IF IsSome(a.out) THEN Yield(Closure(a.out, e.body), a.table)
                                  ELSE Yield(NotImplemented, a.table)
    BY <2>2, <2>3 DEF Evaluate, EvaluateLambda, AndThen
  <2> HIDE DEF a
  <2>6. CASE a.out \in Crashes
    BY <2>4, <2>5, <2>6, CrashesAreThrown
  <2>7. CASE a.out = b
    <3>1. r = Yield(Closure(b, e.body), t)
        BY <2>4, <2>5, <2>7, KindsDiffer
    <3>2. QED BY <2>3, <3>1, YieldFields
  <2>8. QED BY <2>4, <2>6, <2>7
<1>4. QED BY <1>1, <1>2, <1>3

----------------------------------------------------------------------------
(* A call of the export                                                     *)

(* A table that has heard nothing else of s, which nobody is working on.    *)
Ready(t, s, e, p) ==
    /\ IsTable(t)
    /\ s \notin t.evaluated
    /\ Exported(s, t) = e
    /\ s \in Known(t) => t.known_type[s] = GenericFunction(p)

(* The type of the symbol is found, or found again.                         *)
LEMMA SymbolIsGeneric ==
    ASSUME NEW s \in Symbols, NEW b, IsSome(b), NEW p, NEW i,
           NEW e, e = SelfCalling(s, b, p, i),
           NEW bound, NEW type, NEW argument, NEW at, at = With(bound, type, argument),
           NEW n \in Nat, NEW t, Ready(t, s, e, p),
           NEW r, r = Answer(AskType(LocalSymbol(s), at, t), Answers[n])
    PROVE  \/ r.out \in Crashes
           \/ r.out = GenericFunction(p) /\ Ready(r.table, s, e, p)
<1> DEFINE q == AskType(LocalSymbol(s), at, t)
<1>1. CASE q \notin Questions \/ n = 0
  <2>1. r = Yield(OutOfMemory, t) \/ r = Yield(StackOverflow, t)
    BY <1>1, AnswerUnfold
  <2>2. QED BY <2>1, YieldFields DEF Crashes
<1>2. CASE q \in Questions /\ n # 0
  <2> DEFINE a == Answer(AskType(Exported(s, t), at, Mark(s, t)), Answers[n - 1])
  <2>1. n - 1 \in Nat /\ n = (n - 1) + 1
    BY <1>2
  <2>2. r = SymbolTypeOf(s, at, t, Answers[n - 1])
    <3>1. r = TypeOf(LocalSymbol(s), at, t, Answers[n - 1])
        BY <1>2, <2>1, AnswerUnfold
    <3>2. QED BY <3>1, ExpressionKinds DEF TypeOf
  <2>3. a.out \in {GenericFunction(p)} \cup Crashes /\ a.table = Mark(s, t)
    <3>1. ~Thrown(b) /\ Exported(s, t) = e
        BY KindsDiffer DEF Ready
    <3>2. \A u : LET o == Answer(AskType(e, at, u), Answers[n - 1]) IN
                o.out \in {GenericFunction(p)} \cup Crashes /\ o.table = u
        BY <2>1, <3>1, TypeOfSelf
    <3>3. QED BY <3>1, <3>2
  <2>4. /\ IsTable(Mark(s, t)) /\ Mark(s, t).exports = t.exports
        /\ Mark(s, t).known_type = t.known_type /\ Mark(s, t).evaluated = t.evaluated \cup {s}
    BY MarkedTable DEF Ready
  <2>5. /\ s \in Known(t) => r.out = t.known_type[s] /\ r.table = t
        /\ s \notin Known(t) => r.out = a.out /\ Finds(a.table, r.table, s, a.out)
    BY <2>2, <2>3, <2>4, SymbolTypeOutcome DEF Ready
  <2> HIDE DEF a
  <2>6. CASE s \in Known(t)
    BY <2>5, <2>6 DEF Ready
  <2>7. CASE s \notin Known(t) /\ r.out \notin Crashes
    <3>1. r.out = GenericFunction(p) /\ a.out = GenericFunction(p) /\ IsSome(a.out)
        BY <2>3, <2>5, <2>7, CrashesAreThrown
    <3>2. /\ IsTable(r.table) /\ r.table.exports = t.exports
          /\ s \notin r.table.evaluated /\ r.table.known_type[s] = GenericFunction(p)
        BY <2>3, <2>4, <2>5, <2>7, <3>1 DEF Finds
    <3>3. Exported(s, r.table) = e
        BY <3>2 DEF Ready, Exported
    <3>4. QED BY <3>1, <3>2, <3>3 DEF Ready
  <2>8. QED BY <2>6, <2>7
<1>3. QED BY <1>1, <1>2

LEMMA SymbolIsClosure ==
    ASSUME NEW s \in Symbols, NEW b, IsSome(b), NEW p, NEW i,
           NEW e, e = SelfCalling(s, b, p, i), NEW at,
           NEW n \in Nat, NEW t, Ready(t, s, e, p),
           NEW r, r = Answer(AskValue(LocalSymbol(s), at, t), Answers[n])
    PROVE  \/ r.out \in Crashes
           \/ /\ r.out = Closure(b, Dependent(CallWith(s, i)))
              /\ Ready(r.table, s, e, p)
<1> DEFINE q == AskType(LocalSymbol(s), at, t)
<1>1. CASE q \notin Questions \/ n = 0
  <2>1. r = Yield(OutOfMemory, t) \/ r = Yield(StackOverflow, t)
    BY <1>1, AnswerUnfold
  <2>2. QED BY <2>1, YieldFields DEF Crashes
<1>2. CASE q \in Questions /\ n # 0
  <2> DEFINE a == Answer(AskValue(Exported(s, t), at, Mark(s, t)), Answers[n - 1])
  <2>1. n - 1 \in Nat /\ n = (n - 1) + 1
    BY <1>2
  <2>2. r = SymbolEvaluate(s, at, t, Answers[n - 1])
    <3>1. r = Evaluate(LocalSymbol(s), at, t, Answers[n - 1])
        BY <1>2, <2>1, AnswerUnfold
    <3>2. QED BY <3>1, ExpressionKinds DEF Evaluate
  <2>3. a.out \in {Closure(b, Dependent(CallWith(s, i)))} \cup Crashes /\ a.table = Mark(s, t)
    BY <2>1, ValueOfSelf DEF Ready
  <2>4. /\ IsTable(Mark(s, t)) /\ Mark(s, t).exports = t.exports
        /\ Mark(s, t).known_type = t.known_type /\ Mark(s, t).evaluated = t.evaluated \cup {s}
    BY MarkedTable DEF Ready
  <2>5. /\ r.out = a.out /\ IsTable(r.table) /\ r.table.exports = a.table.exports
        /\ r.table.evaluated = a.table.evaluated \ {s}
        /\ r.table.known_type = a.table.known_type
    BY <2>2, <2>3, <2>4, SymbolValueOutcome DEF Ready
  <2> HIDE DEF a
  <2>6. Ready(r.table, s, e, p)
    BY <2>3, <2>4, <2>5 DEF Ready, Exported, Known
  <2>7. QED BY <2>3, <2>5, <2>6
<1>3. QED BY <1>1, <1>2
CallsCrash(n, s, e, p) ==
    \A j, bound, type, argument, t : Ready(t, s, e, p) =>
        Answer(AskType(CallWith(s, j), With(bound, type, argument), t), Answers[n]).out \in Crashes

(* The type of the result is that of the body, which makes the same call.   *)
LEMMA BodyCrashes ==
    ASSUME NEW s, NEW b, NEW p, NEW i, NEW j, NEW e,
           NEW n \in Nat, n # 0 => CallsCrash(n - 1, s, e, p),
           NEW t, Ready(t, s, e, p)
    PROVE  Answer(AskType(Dependent(CallWith(s, i)), With(b, None, TypeValue(j)), t),
                  Answers[n]).out \in Crashes
<1> DEFINE at == With(b, None, TypeValue(j))
           d == Dependent(CallWith(s, i))
<1>1. CASE n = 0
    BY <1>1, AnswersStep DEF AlwaysCrashes
<1>2. CASE n # 0
  <2> DEFINE B == Answers[n - 1]
             l == TypeOfLambda(d, at, t, B)
             x == Answer(AskValue(d.bound, at, t), B)
             y == Answer(AskValue(d.parameter, [at EXCEPT !.bound = x.out], x.table), B)
             z == Answer(AskType(d.body, With(x.out, y.out.type, None), y.table), B)
  <2>1. n - 1 \in Nat /\ n = (n - 1) + 1
    BY <1>2
  <2>2. Steps(Answers[n], B, t) /\ Tells(B, t)
    BY <2>1, AnswersStep, AnswersTell
  <2>3. /\ d.k = "lambda" /\ d.bound = Argument /\ d.parameter = BoundValue
        /\ d.body = CallWith(s, i)
    BY ExpressionKinds DEF Dependent
  <2>4. x.out \in {TypeValue(j)} \cup Crashes /\ x.table = t
    BY <2>2, <2>3, ExpressionKinds, ContextFields DEF Tells
  <2>5. [at EXCEPT !.bound = x.out] = With(x.out, None, TypeValue(j))
    BY ContextFields
  <2>6. y.out \in {x.out} \cup Crashes /\ y.table = t
    BY <2>2, <2>3, <2>4, <2>5, ExpressionKinds, ContextFields DEF Tells
  <2>7. z.out \in Crashes
    BY <1>2, <2>3, <2>6 DEF CallsCrash
  <2>8. l.out = LambdaType(x.out, y.out, z.out)
    BY LambdaOutcome
  <2>9. TypeOf(d, at, t, B) = l
    BY <2>3 DEF TypeOf
  <2> HIDE DEF B, l, x, y, z, d, at
  <2>10. TypeValue(j).k = "type"
    BY ExpressionKinds
  <2>11. l.out \in Crashes
    BY <2>4, <2>6, <2>7, <2>8, <2>10, CrashesAreThrown DEF LambdaType
  <2>12. Answer(AskType(d, at, t), Answers[n]).out \in Crashes
    BY <2>2, <2>9, <2>11 DEF Steps
  <2>13. QED BY <2>12 DEF d, at
<1>3. QED BY <1>1, <1>2

LEMMA CallCrashes ==
    ASSUME NEW s \in Symbols, NEW b, IsSome(b), NEW p, NEW i,
           NEW e, e = SelfCalling(s, b, p, i),
           NEW n \in Nat, n \notin {0, 1} => CallsCrash(n - 2, s, e, p)
    PROVE  CallsCrash(n, s, e, p)
<1> SUFFICES ASSUME NEW j, NEW bound, NEW type, NEW argument, NEW t, Ready(t, s, e, p),
                    NEW at, at = With(bound, type, argument),
                    NEW g, g = CallWith(s, j),
                    NEW r, r = Answer(AskType(g, at, t), Answers[n])
             PROVE  r.out \in Crashes
    BY DEF CallsCrash
<1>1. CASE n = 0
    BY <1>1, AnswersStep DEF AlwaysCrashes
<1>2. CASE n # 0
  <2> DEFINE B == Answers[n - 1]
             c == Answer(AskType(g.callee, at, t), B)
             f == Answer(AskValue(g.callee, at, c.table), B)
             a == Answer(AskValue(g.argument, at, f.table), B)
             o == Answer(AskType(f.out.body, With(f.out.bound, None, a.out), a.table), B)
  <2>1. n - 1 \in Nat /\ n = (n - 1) + 1
    BY <1>2
  <2>2. r.out \in Crashes \/ r.out = TypeOf(g, at, t, B).out
    BY <2>1, AnswersStep DEF Steps
  <2>3. g.k = "call" /\ g.callee = LocalSymbol(s) /\ g.argument = Literal(TypeValue(j))
    BY ExpressionKinds DEF CallWith
  <2>4. TypeOf(g, at, t, B) = TypeOfCall(g, at, t, B)
    BY <2>3 DEF TypeOf
  <2>5. TypeOfCall(g, at, t, B).out = CallType(c.out, f.out, a.out, o.out)
    BY CallOutcome
  <2>6. \/ c.out \in Crashes
        \/ c.out = GenericFunction(p) /\ Ready(c.table, s, e, p)
    BY <2>1, <2>3, SymbolIsGeneric
  <2>7. ASSUME Ready(c.table, s, e, p)
        PROVE  \/ f.out \in Crashes
               \/ /\ f.out = Closure(b, Dependent(CallWith(s, i)))
                  /\ Ready(f.table, s, e, p)
    BY <2>1, <2>3, <2>7, SymbolIsClosure
  <2>8. a.out \in {TypeValue(j)} \cup Crashes /\ a.table = f.table
    BY <2>1, <2>3, AnswersTell, ExpressionKinds DEF Tells
  <2>9. ASSUME Ready(f.table, s, e, p), f.out = Closure(b, Dependent(CallWith(s, i))),
               a.out = TypeValue(j)
        PROVE  o.out \in Crashes
    <3>1. f.out.body = Dependent(CallWith(s, i)) /\ f.out.bound = b
        BY <2>9, ExpressionKinds
    <3>2. n - 1 # 0 => CallsCrash((n - 1) - 1, s, e, p)
        BY <1>2, <2>1
    <3>3. Answer(AskType(Dependent(CallWith(s, i)), With(b, None, TypeValue(j)), f.table),
                 Answers[n - 1]).out \in Crashes
        BY <2>1, <2>9, <3>2, BodyCrashes
    <3>4. o = Answer(AskType(Dependent(CallWith(s, i)), With(b, None, TypeValue(j)), f.table), B)
        BY <2>8, <2>9, <3>1
    <3>5. QED BY <3>3, <3>4
  <2> HIDE DEF B, c, f, a, o
  <2>10. /\ GenericFunction(p).k = "generic_function_type"
         /\ Closure(b, Dependent(CallWith(s, i))).k = "closure"
    BY ExpressionKinds
  <2>11. CallType(c.out, f.out, a.out, o.out) \in Crashes
    BY <2>6, <2>7, <2>8, <2>9, <2>10, CrashesAreThrown DEF CallType
  <2>12. QED BY <2>2, <2>4, <2>5, <2>11
<1>3. QED BY <1>1, <1>2

(* No stack is deep enough, and no memory.                                  *)
LEMMA EveryCallCrashes ==
    ASSUME NEW s \in Symbols, NEW b, IsSome(b), NEW p, NEW i,
           NEW e, e = SelfCalling(s, b, p, i)
    PROVE  \A n \in Nat : CallsCrash(n, s, e, p)
<1> DEFINE T == {n \in Nat : \A m \in 0 .. n : CallsCrash(m, s, e, p)}
<1>1. 0 \in T
  <2>1. CallsCrash(0, s, e, p)
    BY CallCrashes
  <2>2. QED BY <2>1
<1>2. ASSUME NEW n \in Nat, n \in T PROVE n + 1 \in T
  <2>1. n + 1 \notin {0, 1} => CallsCrash((n + 1) - 2, s, e, p)
    <3>1. n + 1 \notin {0, 1} => (n + 1) - 2 \in 0 .. n
        OBVIOUS
    <3>2. QED BY <1>2, <3>1
  <2>2. CallsCrash(n + 1, s, e, p)
    BY <2>1, CallCrashes
  <2>3. \A m \in 0 .. n + 1 : m \in 0 .. n \/ m = n + 1
    OBVIOUS
  <2>4. QED BY <1>2, <2>2, <2>3
<1> HIDE DEF T
<1>3. \A n \in Nat : n \in T
    BY <1>1, <1>2, SetInduction
<1>4. \A n \in Nat : n \in 0 .. n
    OBVIOUS
<1>5. QED BY <1>3, <1>4 DEF T
LEMMA CallerCrashes ==
    ASSUME NEW s \in Symbols, NEW b, IsSome(b), NEW p, NEW i,
           NEW e, e = SelfCalling(s, b, p, i), NEW t, Ready(t, s, e, p),
           NEW c, IsSome(c), NEW q, NEW j, NEW g, g = CallerOf(s, c, q, j),
           NEW n \in Nat
    PROVE  Answer(AskType(g, Outside, t), Answers[n]).out \in Crashes
<1>1. CASE n = 0
    BY <1>1, AnswersStep DEF AlwaysCrashes
<1>2. CASE n # 0
  <2> DEFINE B == Answers[n - 1]
             l == TypeOfLambda(g, Outside, t, B)
             x == Answer(AskValue(g.bound, Outside, t), B)
             y == Answer(AskValue(g.parameter, [Outside EXCEPT !.bound = x.out], x.table), B)
             z == Answer(AskType(g.body, With(x.out, y.out.type, None), y.table), B)
  <2>1. n - 1 \in Nat /\ n = (n - 1) + 1
    BY <1>2
  <2>2. Steps(Answers[n], B, t) /\ Tells(B, t)
    BY <2>1, AnswersStep, AnswersTell
  <2>3. /\ g.k = "lambda" /\ g.bound = Literal(c) /\ g.parameter = Literal(TypeValue(q))
        /\ g.body = CallWith(s, j)
    BY ExpressionKinds DEF CallerOf
  <2>4. x.out \in {c} \cup Crashes /\ x.table = t
    BY <2>2, <2>3, ExpressionKinds DEF Tells
  <2>5. y.out \in {TypeValue(q)} \cup Crashes /\ y.table = t
    BY <2>2, <2>3, <2>4, ExpressionKinds DEF Tells
  <2>6. CallsCrash(n - 1, s, e, p)
    BY <2>1, EveryCallCrashes
  <2>7. z.out \in Crashes
    BY <2>3, <2>5, <2>6 DEF CallsCrash
  <2>8. l.out = LambdaType(x.out, y.out, z.out)
    BY LambdaOutcome
  <2>9. TypeOf(g, Outside, t, B) = l
    BY <2>3 DEF TypeOf
  <2> HIDE DEF B, l, x, y, z
  <2>10. TypeValue(q).k = "type" /\ ~Thrown(c)
    BY ExpressionKinds, KindsDiffer
  <2>11. l.out \in Crashes
    BY <2>4, <2>5, <2>7, <2>8, <2>10, CrashesAreThrown DEF LambdaType
  <2>12. QED BY <2>2, <2>9, <2>11 DEF Steps
<1>3. QED BY <1>1, <1>2

----------------------------------------------------------------------------
(* The printer                                                              *)

(* A table of nothing but the truth knows one type for the export.          *)
LEMMA TrueTypeOfSelf ==
    ASSUME NEW s \in Symbols, NEW b, IsSome(b), NEW p, NEW i,
           NEW e, e = SelfCalling(s, b, p, i),
           NEW t, NEW x, Just(t, x), s \notin t.evaluated, Exported(s, t) = e
    PROVE  Ready(t, s, e, p)
<1> SUFFICES ASSUME s \in Known(t) PROVE t.known_type[s] = GenericFunction(p)
    BY DEF Ready, Just
<1>1. Outside = With(None, None, None) /\ Outside \in Contexts
    BY DEF Outside, With, Contexts
<1>2. t.known_type[s] = TrueType(e, Outside, x) /\ IsSome(t.known_type[s])
    BY <1>1 DEF Just, Known
<1>3. ~Thrown(TrueType(e, Outside, x))
    BY <1>2, KindsDiffer
<1>4. PICK k \in Nat : TypeMeans(e, Outside, x, k) = TrueType(e, Outside, x)
    BY <1>3, TypeToldSoon
<1>5. TypeMeans(e, Outside, x, k) \in {GenericFunction(p)} \cup Crashes
  <2>1. ~Thrown(b)
    BY KindsDiffer
  <2>2. QED BY <1>1, <2>1, TypeOfSelf
<1>6. QED BY <1>2, <1>4, <1>5, CrashesAreThrown

(* Export i uses an export that calls itself.                               *)
UsesSelfCalling(i) ==
    \E s \in Symbols : \E b, p, j, c, q, k :
        /\ IsSome(b) /\ Exported(s, symbols) = SelfCalling(s, b, p, j)
        /\ IsSome(c) /\ symbols.exports[i] = CallerOf(s, c, q, k)

RecursionInv ==
    /\ CacheInv
    /\ Closed(symbols.exports) =>
          \A i \in DOMAIN shown : UsesSelfCalling(i) => shown[i] \in Crashes

LEMMA PrintingCrashes ==
    ASSUME CacheInv, Closed(symbols.exports), NEW i, UsesSelfCalling(i)
    PROVE  Answer(AskType(symbols.exports[i], Outside, symbols), Answers[MaxDepth]).out \in Crashes
<1>1. PICK s \in Symbols : \E b, p, j, c, q, k :
            /\ IsSome(b) /\ Exported(s, symbols) = SelfCalling(s, b, p, j)
            /\ IsSome(c) /\ symbols.exports[i] = CallerOf(s, c, q, k)
    BY DEF UsesSelfCalling
<1>2. PICK b, p, j, c, q, k :
            /\ IsSome(b) /\ Exported(s, symbols) = SelfCalling(s, b, p, j)
            /\ IsSome(c) /\ symbols.exports[i] = CallerOf(s, c, q, k)
    BY <1>1
<1>3. Just(symbols, symbols.exports) /\ s \notin symbols.evaluated
    BY DEF CacheInv, Solid, LanguageInv
<1>4. Ready(symbols, s, SelfCalling(s, b, p, j), p)
    BY <1>2, <1>3, TrueTypeOfSelf
<1>5. QED BY <1>2, <1>4, CallerCrashes, BoundsAreNatural

LEMMA RecursionInvStep == RecursionInv /\ [Next]_vars => RecursionInv'
<1> SUFFICES ASSUME RecursionInv, [Next]_vars PROVE RecursionInv'
    OBVIOUS
<1>1. CacheInv /\ LanguageInv /\ CacheInv'
    BY CacheInvStep DEF RecursionInv, CacheInv
<1>2. CASE PrintExport
  <2> DEFINE r == Answer(AskType(symbols.exports[line], Outside, symbols), Answers[MaxDepth])
  <2>1. /\ shown' = Append(shown, r.out) /\ symbols'.exports = symbols.exports
    BY <1>1, <1>2, PrintExportIsHonest DEF Grows
  <2>2. PICK S : shown \in Seq(S)
    BY <1>1 DEF LanguageInv
  <2>3. line = Len(shown) + 1
    BY <1>1, <1>2 DEF LanguageInv, PrintExport
  <2>4. Closed(symbols.exports) /\ UsesSelfCalling(line) => r.out \in Crashes
    BY <1>1, PrintingCrashes
  <2> HIDE DEF r
  <2>5. /\ DOMAIN shown' = DOMAIN shown \cup {Len(shown) + 1}
        /\ \A i \in DOMAIN shown : shown'[i] = shown[i]
        /\ shown'[Len(shown) + 1] = r.out
    BY <2>1, <2>2, Appended
  <2>6. \A i : UsesSelfCalling(i)' => UsesSelfCalling(i)
    <3>1. \A s : Exported(s, symbols)' = Exported(s, symbols)
        BY <2>1 DEF Exported
    <3>2. QED BY <2>1, <3>1, Zenon DEF UsesSelfCalling
  <2>7. QED BY <1>1, <2>1, <2>3, <2>4, <2>5, <2>6 DEF RecursionInv
<1>3. CASE PrintAgain
    BY <1>1, <1>3 DEF PrintAgain, RecursionInv
<1>4. CASE UNCHANGED vars
    BY <1>1, <1>4 DEF vars, RecursionInv, UsesSelfCalling
<1>5. QED BY <1>2, <1>3, <1>4 DEF Next

(* Whoever prints a function that calls an export whose type is found by    *)
(* calling it never gets an answer, whatever the stack and the memory: no   *)
(* type, and not the exception that says that a symbol depends on itself.   *)
(* The marks of language.cpp:419-422 and 455-458 are released when the type *)
(* of the body is asked for (language.cpp:749).                             *)
THEOREM RecursionGoesUnreported ==
    Spec => [](IsClosedModule =>
                   \A i \in DOMAIN shown : UsesSelfCalling(i) =>
                       shown[i] \in {StackOverflow, OutOfMemory})
<1>1. Init => RecursionInv
    BY CacheInvInit DEF RecursionInv, Init
<1>2. RecursionInv => (IsClosedModule =>
                           \A i \in DOMAIN shown : UsesSelfCalling(i) =>
                               shown[i] \in {StackOverflow, OutOfMemory})
    BY DEF RecursionInv, IsClosedModule, Closed, Crashes
<1>3. QED BY <1>1, <1>2, RecursionInvStep, PTL DEF Spec

=============================================================================
