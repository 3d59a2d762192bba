------------------------ MODULE LanguageCacheProofs -------------------------
(***************************************************************************)
(* A table that remembers types gives the types a new one gives: the proof *)
(* of Language's CacheIsTransparent.  An expression has a meaning: what it *)
(* gives where no call remembers or marks anything.  More stack does not   *)
(* change a meaning (MeaningStays), so there is a truth about it.  In a    *)
(* module of closed exports                                                *)
(*   - whatever a table answers without throwing, and whatever it          *)
(*     remembers, is the truth (AnswersAreMeant),                          *)
(*   - a type is remembered with all the types that finding it again would *)
(*     remember (AnswersRetrace, AnswersStaySolid), so that                *)
(*   - a used table answers what a new one answers (AnswersFollow).        *)
(* Three of the five run two evaluations side by side, which start from    *)
(* Related tables: Sim says that they give the same.                       *)
(***************************************************************************)
EXTENDS LanguageProofs

TypeMeans(e, at, x, n)  == Answer(AskType(e, at, EmptyTable(x)), Meaning[n]).out
ValueMeans(e, at, x, n) == Answer(AskValue(e, at, EmptyTable(x)), Meaning[n]).out

----------------------------------------------------------------------------
(* Meanings                                                                 *)

LEMMA EmptyIsTable ==
    ASSUME NEW x
    PROVE  /\ IsTable(EmptyTable(x))
           /\ EmptyTable(x).exports = x
           /\ EmptyTable(x).evaluated = {}
           /\ \A s \in Symbols : EmptyTable(x).known_type[s] = None
           /\ EmptyTable(x) \in Tables <=> x \in Modules
           /\ \A s \in Symbols : Mark(s, EmptyTable(x)) \in Tables <=> x \in Modules
           /\ \A s \in Symbols : Mark(s, EmptyTable(x)).exports = x
<1>1. /\ IsTable(EmptyTable(x))
      /\ EmptyTable(x).exports = x
      /\ EmptyTable(x).evaluated = {}
      /\ \A s \in Symbols : EmptyTable(x).known_type[s] = None
    BY DEF EmptyTable, IsTable
<1>2. EmptyTable(x) \in Tables <=> x \in Modules
    BY DEF EmptyTable, Tables
<1>3. ASSUME NEW s \in Symbols PROVE Mark(s, EmptyTable(x)) \in Tables <=> x \in Modules
    BY DEF EmptyTable, Tables, Mark
<1>4. \A s \in Symbols : Mark(s, EmptyTable(x)).exports = x
    BY <1>1, MarkedTable
<1>5. QED BY <1>1, <1>2, <1>3, <1>4

(* A call that fits into memory, made without a memory.                     *)
LEMMA MeaningOfCall ==
    ASSUME NEW n \in Nat, NEW q \in Questions
    PROVE  /\ Meaning[0][q] = Yield(StackOverflow, q.table)
           /\ Meaning[n + 1][q] = Yield(OneCall(Meaning[n])[Forget(q)].out,
                                        EmptyTable(q.table.exports))
<1>1. Meaning[0] = NoCall /\ Meaning[n + 1] = ForgetfulCall(Meaning[n])
    BY MeaningUnfold
<1>2. QED BY <1>1 DEF NoCall, ForgetfulCall

LEMMA AskFields ==
    ASSUME NEW e, NEW at, NEW t
    PROVE  /\ AskType(e, at, t).ask = "type_of" /\ AskValue(e, at, t).ask = "evaluate"
           /\ AskType(e, at, t).of = e /\ AskValue(e, at, t).of = e
           /\ AskType(e, at, t).at = at /\ AskValue(e, at, t).at = at
           /\ AskType(e, at, t).table = t /\ AskValue(e, at, t).table = t
           /\ AskType(e, at, t) \in Questions <=>
                e \in Terms[MaxHeight].expressions /\ at \in Contexts /\ t \in Tables
           /\ AskValue(e, at, t) \in Questions <=>
                e \in Terms[MaxHeight].expressions /\ at \in Contexts /\ t \in Tables
           /\ Forget(AskType(e, at, t)) = AskType(e, at, EmptyTable(t.exports))
           /\ Forget(AskValue(e, at, t)) = AskValue(e, at, EmptyTable(t.exports))
BY DEF AskType, AskValue, Questions, Forget

(* What the meaning of an expression is made of.                            *)
LEMMA MeansUnfold ==
    ASSUME NEW e, NEW at, NEW x, NEW n \in Nat,
           AskType(e, at, EmptyTable(x)) \in Questions
    PROVE  /\ TypeMeans(e, at, x, 0) = StackOverflow
           /\ TypeMeans(e, at, x, n + 1) = TypeOf(e, at, EmptyTable(x), Meaning[n]).out
           /\ ValueMeans(e, at, x, 0) = StackOverflow
           /\ ValueMeans(e, at, x, n + 1) = Evaluate(e, at, EmptyTable(x), Meaning[n]).out
<1> DEFINE p == AskType(e, at, EmptyTable(x))
           q == AskValue(e, at, EmptyTable(x))
<1>1. /\ p \in Questions /\ q \in Questions /\ EmptyTable(x).exports = x
      /\ p.ask = "type_of" /\ q.ask = "evaluate"
      /\ p.of = e /\ q.of = e /\ p.at = at /\ q.at = at
      /\ p.table = EmptyTable(x) /\ q.table = EmptyTable(x)
      /\ Forget(p) = p /\ Forget(q) = q
    BY AskFields, EmptyIsTable
<1>2. /\ TypeMeans(e, at, x, n + 1) = Meaning[n + 1][p].out
      /\ ValueMeans(e, at, x, n + 1) = Meaning[n + 1][q].out
      /\ TypeMeans(e, at, x, 0) = Meaning[0][p].out
      /\ ValueMeans(e, at, x, 0) = Meaning[0][q].out
    BY <1>1 DEF TypeMeans, ValueMeans, Answer
<1> HIDE DEF p, q
<1>3. /\ Meaning[n + 1][p].out = OneCall(Meaning[n])[p].out
      /\ Meaning[n + 1][q].out = OneCall(Meaning[n])[q].out
      /\ Meaning[0][p].out = StackOverflow /\ Meaning[0][q].out = StackOverflow
    BY <1>1, MeaningOfCall, YieldFields
<1>4. /\ OneCall(Meaning[n])[p] = TypeOf(e, at, EmptyTable(x), Meaning[n])
      /\ OneCall(Meaning[n])[q] = Evaluate(e, at, EmptyTable(x), Meaning[n])
    BY <1>1 DEF OneCall
<1>5. QED BY <1>2, <1>3, <1>4

LEMMA MeansNothing ==
    ASSUME NEW e, NEW at, NEW x, NEW n, AskType(e, at, EmptyTable(x)) \notin Questions
    PROVE  TypeMeans(e, at, x, n) = OutOfMemory /\ ValueMeans(e, at, x, n) = OutOfMemory
BY AskFields, YieldFields DEF TypeMeans, ValueMeans, Answer

(* No call leaves a trace.                                                  *)
LEMMA MeaningLeavesNothing ==
    ASSUME NEW e, NEW at, NEW x, NEW n \in Nat
    PROVE  /\ Answer(AskType(e, at, EmptyTable(x)), Meaning[n]).table = EmptyTable(x)
           /\ Answer(AskValue(e, at, EmptyTable(x)), Meaning[n]).table = EmptyTable(x)
<1> SUFFICES ASSUME NEW q \in {AskType(e, at, EmptyTable(x)), AskValue(e, at, EmptyTable(x))}
             PROVE  Answer(q, Meaning[n]).table = EmptyTable(x)
    OBVIOUS
<1>1. q.table = EmptyTable(x) /\ q.table.exports = x
    BY AskFields, EmptyIsTable
<1>2. CASE q \notin Questions
    BY <1>1, <1>2, YieldFields DEF Answer
<1>3. CASE q \in Questions
  <2>1. Answer(q, Meaning[n]) = Meaning[n][q]
    BY <1>3 DEF Answer
  <2>2. CASE n = 0
    BY <1>1, <1>3, <2>1, <2>2, MeaningOfCall, YieldFields
  <2>3. CASE n # 0
    <3>1. n - 1 \in Nat /\ n = (n - 1) + 1
        BY <2>3
    <3>2. Meaning[n][q].table = EmptyTable(q.table.exports)
        BY <1>3, <3>1, MeaningOfCall, YieldFields
    <3>3. QED BY <1>1, <2>1, <3>2
  <2>4. QED BY <2>2, <2>3
<1>4. QED BY <1>2, <1>3

(* A mark is not looked at.                                                 *)
LEMMA MeaningIgnoresMarks ==
    ASSUME NEW e, NEW at, NEW x, NEW n \in Nat, NEW s \in Symbols
    PROVE  /\ Answer(AskType(e, at, Mark(s, EmptyTable(x))), Meaning[n]).out
                = TypeMeans(e, at, x, n)
           /\ Answer(AskValue(e, at, Mark(s, EmptyTable(x))), Meaning[n]).out
                = ValueMeans(e, at, x, n)
<1> DEFINE p == AskType(e, at, Mark(s, EmptyTable(x)))
           q == AskValue(e, at, Mark(s, EmptyTable(x)))
           u == AskType(e, at, EmptyTable(x))
           v == AskValue(e, at, EmptyTable(x))
<1>1. /\ Mark(s, EmptyTable(x)).exports = x /\ EmptyTable(x).exports = x
      /\ Mark(s, EmptyTable(x)) \in Tables <=> EmptyTable(x) \in Tables
    BY EmptyIsTable
<1>2. /\ p \in Questions <=> u \in Questions
      /\ q \in Questions <=> u \in Questions
      /\ v \in Questions <=> u \in Questions
    BY <1>1, AskFields
<1>3. CASE u \notin Questions
  <2>1. Answer(p, Meaning[n]).out = OutOfMemory /\ Answer(q, Meaning[n]).out = OutOfMemory
    BY <1>2, <1>3, YieldFields DEF Answer
  <2>2. QED BY <1>3, <2>1, MeansNothing
<1>4. CASE u \in Questions
  <2>1. /\ Forget(p) = Forget(u) /\ Forget(q) = Forget(v)
        /\ p.table.exports = x /\ q.table.exports = x
    BY <1>1, AskFields
  <2>2. /\ Answer(p, Meaning[n]) = Meaning[n][p] /\ Answer(u, Meaning[n]) = Meaning[n][u]
        /\ Answer(q, Meaning[n]) = Meaning[n][q] /\ Answer(v, Meaning[n]) = Meaning[n][v]
    BY <1>2, <1>4 DEF Answer
  <2> HIDE DEF p, q, u, v
  <2>3. Meaning[n][p].out = Meaning[n][u].out /\ Meaning[n][q].out = Meaning[n][v].out
    <3>1. CASE n = 0
        BY <1>2, <1>4, <3>1, MeaningOfCall, YieldFields
    <3>2. CASE n # 0
        <4>1. n - 1 \in Nat /\ n = (n - 1) + 1
            BY <3>2
        <4>2. ASSUME NEW r \in Questions
              PROVE  Meaning[n][r].out = OneCall(Meaning[n - 1])[Forget(r)].out
            BY <4>1, MeaningOfCall, YieldFields
        <4>3. QED BY <1>2, <1>4, <2>1, <4>2
    <3>3. QED BY <3>1, <3>2
  <2>4. QED BY <2>2, <2>3 DEF TypeMeans, ValueMeans, p, q, u, v
<1>5. QED BY <1>3, <1>4

----------------------------------------------------------------------------
(* What each kind of call makes of the answers it gets                      *)

LambdaType(v, p, o) ==
    IF Thrown(v) THEN v
    ELSE IF Thrown(p) THEN p
    ELSE IF p.k = "none" THEN None
    ELSE IF p.k # "type" THEN NotImplemented
    ELSE IF Thrown(o) THEN o
    ELSE IF IsSome(o) THEN FunctionType(p.type, o) ELSE GenericFunction(p.type)

CallType(c, f, a, o) ==
    IF Thrown(c) THEN c
    ELSE IF c.k = "function_type" THEN c.result
    ELSE IF c.k # "generic_function_type" THEN NotImplemented
    ELSE IF Thrown(f) THEN f
    ELSE IF Thrown(a) THEN a
    ELSE IF IsSome(a) /\ f.k = "closure" THEN o ELSE NotImplemented

LambdaValue(v, body) ==
    IF Thrown(v) THEN v ELSE IF IsSome(v) THEN Closure(v, body) ELSE NotImplemented

LEMMA KindsDiffer ==
    /\ \A out : Thrown(out) => ~IsSome(out) /\ out.k = "throws"
    /\ \A out : ~Thrown(out) /\ ~IsSome(out) => out.k = "none"
    /\ Thrown(NotImplemented) /\ Thrown(DependsOnItself)
    /\ Thrown(StackOverflow) /\ Thrown(OutOfMemory) /\ ~Thrown(None)
BY DEF Thrown, IsSome, NotImplemented, DependsOnItself, StackOverflow, OutOfMemory, Throws, None

LEMMA LambdaOutcome ==
    ASSUME NEW answers, NEW e, NEW at, NEW t,
           NEW r, r = TypeOfLambda(e, at, t, answers),
           NEW a, a = Answer(AskValue(e.bound, at, t), answers),
           NEW b, b = Answer(AskValue(e.parameter, [at EXCEPT !.bound = a.out], a.table), answers),
           NEW c, c = Answer(AskType(e.body, With(a.out, b.out.type, None), b.table), answers)
    PROVE  /\ r.out = LambdaType(a.out, b.out, c.out)
           /\ r.table = IF Thrown(a.out) THEN a.table
                        ELSE IF Thrown(b.out) \/ b.out.k # "type" THEN b.table ELSE c.table
<1>1. r = IF Thrown(a.out) THEN a ELSE IF Thrown(b.out) THEN b
          ELSE TypeOfBody(e, a.out, b.out, b.table, answers)
    BY DEF TypeOfLambda, AndThen
<1>2. CASE b.out.k = "type"
  <2>1. TypeOfBody(e, a.out, b.out, b.table, answers) =
            IF Thrown(c.out) THEN c
            ELSE Yield(IF IsSome(c.out) THEN FunctionType(b.out.type, c.out)
                                        ELSE GenericFunction(b.out.type), c.table)
    BY <1>2 DEF TypeOfBody, AndThen
  <2> DEFINE type == IF IsSome(c.out) THEN FunctionType(b.out.type, c.out)
                                      ELSE GenericFunction(b.out.type)
  <2>2. TypeOfBody(e, a.out, b.out, b.table, answers) =
            IF Thrown(c.out) THEN c ELSE Yield(type, c.table)
    BY <2>1
  <2>3. LambdaType(a.out, b.out, c.out) =
            IF Thrown(a.out) THEN a.out ELSE IF Thrown(b.out) THEN b.out
            ELSE IF Thrown(c.out) THEN c.out ELSE type
    BY <1>2 DEF LambdaType
  <2> HIDE DEF type
  <2>4. Yield(type, c.table).out = type /\ Yield(type, c.table).table = c.table
    BY YieldFields
  <2>5. QED BY <1>1, <1>2, <2>2, <2>3, <2>4
<1>3. CASE b.out.k # "type"
  <2>1. TypeOfBody(e, a.out, b.out, b.table, answers) =
            Yield(IF b.out.k = "none" THEN None ELSE NotImplemented, b.table)
    BY <1>3 DEF TypeOfBody
  <2>2. QED BY <1>1, <1>3, <2>1, YieldFields DEF LambdaType
<1>4. QED BY <1>2, <1>3

LEMMA CallOutcome ==
    ASSUME NEW answers, NEW e, NEW at, NEW t,
           NEW r, r = TypeOfCall(e, at, t, answers),
           NEW c, c = Answer(AskType(e.callee, at, t), answers),
           NEW f, f = Answer(AskValue(e.callee, at, c.table), answers),
           NEW a, a = Answer(AskValue(e.argument, at, f.table), answers),
           NEW o, o = Answer(AskType(f.out.body, With(f.out.bound, None, a.out), a.table), answers)
    PROVE  /\ r.out = CallType(c.out, f.out, a.out, o.out)
           /\ r.table = IF Thrown(c.out) \/ c.out.k # "generic_function_type" THEN c.table
                        ELSE IF Thrown(f.out) THEN f.table
                        ELSE IF Thrown(a.out) \/ ~IsSome(a.out) \/ f.out.k # "closure"
                             THEN a.table ELSE o.table
<1>1. r = IF Thrown(c.out) THEN c
          ELSE IF c.out.k = "function_type" THEN Yield(c.out.result, c.table)
          ELSE IF c.out.k = "generic_function_type"
               THEN TypeOfGenericCall(e, at, c.table, answers)
               ELSE Yield(NotImplemented, c.table)
    BY DEF TypeOfCall, AndThen
<1>2. TypeOfGenericCall(e, at, c.table, answers) =
          IF Thrown(f.out) THEN f ELSE IF Thrown(a.out) THEN a
          ELSE IF IsSome(a.out) /\ f.out.k = "closure" THEN o ELSE Yield(NotImplemented, a.table)
    BY DEF TypeOfGenericCall, AndThen
<1>3. CASE Thrown(c.out)
  <2>1. c.out.k = "throws"
    BY <1>3, KindsDiffer
  <2>2. QED BY <1>1, <1>3, <2>1 DEF CallType
<1>4. CASE ~Thrown(c.out) /\ c.out.k # "generic_function_type"
    BY <1>1, <1>4, YieldFields DEF CallType
<1>5. CASE ~Thrown(c.out) /\ c.out.k = "generic_function_type"
  <2>1. r = TypeOfGenericCall(e, at, c.table, answers)
    BY <1>1, <1>5
  <2>2. CASE Thrown(f.out) \/ Thrown(a.out)
    <3>1. Thrown(a.out) => ~IsSome(a.out)
        BY KindsDiffer
    <3>2. QED BY <1>2, <1>5, <2>1, <2>2, <3>1 DEF CallType
  <2>3. CASE ~Thrown(f.out) /\ ~Thrown(a.out)
    <3>1. r = IF IsSome(a.out) /\ f.out.k = "closure" THEN o ELSE Yield(NotImplemented, a.table)
        BY <1>2, <2>1, <2>3
    <3>2. CallType(c.out, f.out, a.out, o.out) =
            IF IsSome(a.out) /\ f.out.k = "closure" THEN o.out ELSE NotImplemented
        BY <1>5, <2>3 DEF CallType
    <3>3. CASE IsSome(a.out) /\ f.out.k = "closure"
        BY <1>5, <2>3, <3>1, <3>2, <3>3
    <3>4. CASE ~(IsSome(a.out) /\ f.out.k = "closure")
        <4>1. r = Yield(NotImplemented, a.table)
            BY <3>1, <3>4
        <4>2. r.out = NotImplemented /\ r.table = a.table
            BY <4>1, YieldFields
        <4>3. ~IsSome(a.out) \/ f.out.k # "closure"
            BY <3>4
        <4>4. QED BY <1>5, <2>3, <3>2, <3>4, <4>2, <4>3
    <3>5. QED BY <3>3, <3>4
  <2>4. QED BY <2>2, <2>3
<1>6. QED BY <1>3, <1>4, <1>5

LEMMA LambdaValueOutcome ==
    ASSUME NEW answers, NEW e, NEW at, NEW t,
           NEW r, r = EvaluateLambda(e, at, t, answers),
           NEW a, a = Answer(AskValue(e.bound, at, t), answers)
    PROVE  r.out = LambdaValue(a.out, e.body) /\ r.table = a.table
BY YieldFields DEF EvaluateLambda, AndThen, LambdaValue

----------------------------------------------------------------------------
(* What each kind of expression means where no call leaves a trace          *)

Forgetful(A, x) ==
    \A e, at :
        /\ Answer(AskType(e, at, EmptyTable(x)), A).table = EmptyTable(x)
        /\ Answer(AskValue(e, at, EmptyTable(x)), A).table = EmptyTable(x)
        /\ \A s \in Symbols :
              /\ Answer(AskType(e, at, Mark(s, EmptyTable(x))), A).out
                    = Answer(AskType(e, at, EmptyTable(x)), A).out
              /\ Answer(AskValue(e, at, Mark(s, EmptyTable(x))), A).out
                    = Answer(AskValue(e, at, EmptyTable(x)), A).out

LEMMA MeaningForgets ==
    ASSUME NEW x, NEW n \in Nat PROVE Forgetful(Meaning[n], x)
BY MeaningLeavesNothing, MeaningIgnoresMarks DEF Forgetful, TypeMeans, ValueMeans

LEMMA LambdaAlone ==
    ASSUME NEW A, NEW x, Forgetful(A, x), NEW e, NEW at,
           NEW v, v = Answer(AskValue(e.bound, at, EmptyTable(x)), A).out,
           NEW p, p = Answer(AskValue(e.parameter, [at EXCEPT !.bound = v], EmptyTable(x)), A).out,
           NEW o, o = Answer(AskType(e.body, With(v, p.type, None), EmptyTable(x)), A).out
    PROVE  /\ TypeOfLambda(e, at, EmptyTable(x), A).out = LambdaType(v, p, o)
           /\ EvaluateLambda(e, at, EmptyTable(x), A).out = LambdaValue(v, e.body)
<1> DEFINE t == EmptyTable(x)
           a == Answer(AskValue(e.bound, at, t), A)
           b == Answer(AskValue(e.parameter, [at EXCEPT !.bound = a.out], a.table), A)
           c == Answer(AskType(e.body, With(a.out, b.out.type, None), b.table), A)
<1>1. a.out = v /\ a.table = t
    BY DEF Forgetful
<1>2. b.out = p /\ b.table = t
    BY <1>1 DEF Forgetful
<1>3. c.out = o
    BY <1>1, <1>2
<1>4. TypeOfLambda(e, at, t, A).out = LambdaType(a.out, b.out, c.out)
    BY LambdaOutcome
<1>5. EvaluateLambda(e, at, t, A).out = LambdaValue(a.out, e.body)
    BY LambdaValueOutcome
<1> HIDE DEF a, b, c
<1>6. QED BY <1>1, <1>2, <1>3, <1>4, <1>5

LEMMA CallAlone ==
    ASSUME NEW A, NEW x, Forgetful(A, x), NEW e, NEW at,
           NEW c, c = Answer(AskType(e.callee, at, EmptyTable(x)), A).out,
           NEW f, f = Answer(AskValue(e.callee, at, EmptyTable(x)), A).out,
           NEW a, a = Answer(AskValue(e.argument, at, EmptyTable(x)), A).out,
           NEW o, o = Answer(AskType(f.body, With(f.bound, None, a), EmptyTable(x)), A).out
    PROVE  TypeOfCall(e, at, EmptyTable(x), A).out = CallType(c, f, a, o)
<1> DEFINE t == EmptyTable(x)
           c1 == Answer(AskType(e.callee, at, t), A)
           f1 == Answer(AskValue(e.callee, at, c1.table), A)
           a1 == Answer(AskValue(e.argument, at, f1.table), A)
           o1 == Answer(AskType(f1.out.body, With(f1.out.bound, None, a1.out), a1.table), A)
<1>1. c1.out = c /\ c1.table = t
    BY DEF Forgetful
<1>2. f1.out = f /\ f1.table = t
    BY <1>1 DEF Forgetful
<1>3. a1.out = a /\ a1.table = t
    BY <1>2 DEF Forgetful
<1>4. o1.out = o
    BY <1>2, <1>3
<1>5. TypeOfCall(e, at, t, A).out = CallType(c1.out, f1.out, a1.out, o1.out)
    BY CallOutcome
<1> HIDE DEF c1, f1, a1, o1
<1>6. QED BY <1>1, <1>2, <1>3, <1>4, <1>5

LEMMA SymbolAlone ==
    ASSUME NEW A, NEW x, Forgetful(A, x), NEW s, NEW at
    PROVE  /\ SymbolTypeOf(s, at, EmptyTable(x), A).out =
                IF s \in Symbols
                THEN Answer(AskType(Exported(s, EmptyTable(x)), at, EmptyTable(x)), A).out
                ELSE NotImplemented
           /\ SymbolEvaluate(s, at, EmptyTable(x), A).out =
                IF s \in Symbols
                THEN Answer(AskValue(Exported(s, EmptyTable(x)), at, EmptyTable(x)), A).out
                ELSE NotImplemented
<1>1. CASE s \notin Symbols
    BY <1>1, YieldFields DEF SymbolTypeOf, SymbolEvaluate
<1>2. CASE s \in Symbols
  <2> DEFINE t == EmptyTable(x)
             a == Answer(AskType(Exported(s, t), at, Mark(s, t)), A)
             b == Answer(AskValue(Exported(s, t), at, Mark(s, t)), A)
  <2>1. s \notin t.evaluated /\ ~IsSome(t.known_type[s])
    BY <1>2, EmptyIsTable, NoAnswers
  <2>2. /\ a.out = Answer(AskType(Exported(s, t), at, t), A).out
        /\ b.out = Answer(AskValue(Exported(s, t), at, t), A).out
    BY <1>2 DEF Forgetful
  <2> HIDE DEF t
  <2>3. Leave(s, a).out = a.out /\ Leave(s, b).out = b.out
    BY YieldFields DEF Leave
  <2>4. SymbolTypeOf(s, at, t, A).out = a.out
    BY <1>2, <2>1, <2>3, YieldFields DEF SymbolTypeOf
  <2>5. SymbolEvaluate(s, at, t, A).out = b.out
    BY <1>2, <2>1, <2>3, YieldFields DEF SymbolEvaluate
  <2>6. QED BY <1>2, <2>2, <2>4, <2>5 DEF t
<1>3. QED BY <1>1, <1>2

----------------------------------------------------------------------------
(* The truth about an expression: its meaning when there is enough stack    *)

Truth ==
    [q \in Questions |->
        LET Ends(k) == ~Thrown(Meaning[k][q].out) IN
        Yield(IF \E k \in Nat : Ends(k) THEN Meaning[CHOOSE k \in Nat : Ends(k)][q].out
                                        ELSE StackOverflow,
              EmptyTable(q.table.exports))]

TrueType(e, at, x)  == Answer(AskType(e, at, EmptyTable(x)), Truth).out
TrueValue(e, at, x) == Answer(AskValue(e, at, EmptyTable(x)), Truth).out

Known(t) == {s \in Symbols : IsSome(t.known_type[s])}

(* A table of the module x that remembers nothing but the truth.            *)
Just(t, x) ==
    /\ IsTable(t) /\ t.exports = x
    /\ \A s \in Known(t), at \in Contexts : t.known_type[s] = TrueType(Exported(s, t), at, x)

(* Finding a remembered type again would not make more types known.         *)
Complete(t, x) ==
    \A s \in Known(t), at \in Contexts, W \in SUBSET Symbols, n \in Nat : \A u :
        LET r == Answer(AskType(Exported(s, t), at, u), Answers[n]) IN
        Just(u, x) /\ Known(t) \subseteq W /\ Known(u) \subseteq W /\ ~Thrown(r.out)
            => Known(r.table) \subseteq W

----------------------------------------------------------------------------
(* Two runs of the same expression                                          *)

(* A pair of tables that two runs start from and end with: one of           *)
(*   meaning - neither table has anything to say,                           *)
(*   meant   - a used table, next to the truth,                             *)
(*   again   - a complete table and one that an expression is tried with    *)
(*             again, which knows no more than W,                           *)
(*   follow  - a table and one that knows more.                             *)
Related(mode, x, W, t1, t2) ==
    CASE mode = "meaning" -> t1 = EmptyTable(x) /\ t2 = EmptyTable(x)
      [] mode = "meant"   -> Just(t1, x) /\ t2 = EmptyTable(x)
      [] mode = "again"   -> /\ Just(t1, x) /\ Just(t2, x) /\ Complete(t1, x)
                             /\ Known(t2) \subseteq W
      [] mode = "follow"  -> /\ Just(t1, x) /\ Just(t2, x) /\ Complete(t2, x)
                             /\ t1.evaluated = t2.evaluated
                             /\ Known(t1) \subseteq Known(t2)

(* The second run is allowed to fail like this.                             *)
Excused(mode, out) ==
    \/ mode = "again" /\ Thrown(out)
    \/ mode = "follow" /\ out = OutOfMemory

Keeps(mode, x, W, r1, r2) ==
    ~Thrown(r1.out) /\ Known(r1.table) \subseteq W /\ ~Excused(mode, r2.out) =>
        r1.out = r2.out /\ Related(mode, x, W, r1.table, r2.table)

(* The expression does not tell the two contexts apart.                     *)
SameFor(e, at1, at2) ==
    \/ at1 = at2
    \/ e.k = "literal"
    \/ e.k = "bound_value" /\ at1.bound = at2.bound
    \/ IsClosed(e)

Sim(mode, x, W, A1, A2) ==
    \A e \in Terms[MaxHeight].expressions, at1 \in Contexts, at2 \in Contexts : \A t1, t2 :
        SameFor(e, at1, at2) /\ Related(mode, x, W, t1, t2) =>
            /\ Keeps(mode, x, W, Answer(AskType(e, at1, t1), A1), Answer(AskType(e, at2, t2), A2))
            /\ Keeps(mode, x, W, Answer(AskValue(e, at1, t1), A1), Answer(AskValue(e, at2, t2), A2))

(* Calls do not forget; where W is everything it does not matter.           *)
Remembers(W, A) == W = Symbols \/ AreHonest(A)
Sound(W, t)     == W = Symbols \/ IsTable(t)

LEMMA CallsRemember ==
    ASSUME NEW W, NEW A, Remembers(W, A), NEW t, Sound(W, t), NEW e, NEW at,
           NEW r, r \in {Answer(AskType(e, at, t), A), Answer(AskValue(e, at, t), A)}
    PROVE  Sound(W, r.table) /\ (Known(r.table) \subseteq W => Known(t) \subseteq W)
<1>1. CASE W = Symbols
    BY <1>1 DEF Sound, Known
<1>2. CASE W # Symbols
  <2>1. AreHonest(A) /\ IsTable(t)
    BY <1>2 DEF Remembers, Sound
  <2>2. Follows(t, r.table) /\ IsTable(r.table)
    BY <2>1, AskTypeIsHonest, AskValueIsHonest
  <2>3. Known(t) \subseteq Known(r.table)
    BY <2>2 DEF Follows, Grows, Known
  <2>4. QED BY <2>2, <2>3 DEF Sound
<1>3. QED BY <1>1, <1>2

(* The calls an expression makes.                                           *)
LEMMA CallKeeps ==
    ASSUME NEW mode, NEW x, NEW W, NEW A1, NEW A2, Sim(mode, x, W, A1, A2),
           NEW e, NEW at1, NEW at2, SameFor(e, at1, at2), at1 \in Contexts => at2 \in Contexts,
           NEW t1, NEW t2, Related(mode, x, W, t1, t2)
    PROVE  /\ Keeps(mode, x, W, Answer(AskType(e, at1, t1), A1), Answer(AskType(e, at2, t2), A2))
           /\ Keeps(mode, x, W, Answer(AskValue(e, at1, t1), A1), Answer(AskValue(e, at2, t2), A2))
<1>1. CASE e \in Terms[MaxHeight].expressions /\ at1 \in Contexts
    BY <1>1 DEF Sim
<1>2. CASE ~(e \in Terms[MaxHeight].expressions /\ at1 \in Contexts)
  <2>1. AskType(e, at1, t1) \notin Questions /\ AskValue(e, at1, t1) \notin Questions
    BY <1>2, AskFields
  <2>2. /\ Answer(AskType(e, at1, t1), A1).out = OutOfMemory
        /\ Answer(AskValue(e, at1, t1), A1).out = OutOfMemory
    BY <2>1, YieldFields DEF Answer
  <2>3. QED BY <2>2, KindsDiffer DEF Keeps
<1>3. QED BY <1>1, <1>2

LEMMA ExcusedThrows ==
    ASSUME NEW mode, NEW out, Excused(mode, out) PROVE Thrown(out)
BY KindsDiffer DEF Excused

(* The bound value for the parameter and the body of a lambda.              *)
LEMMA LambdaContexts ==
    ASSUME NEW e, e.k = "lambda", NEW at1 \in Contexts, NEW at2 \in Contexts,
           SameFor(e, at1, at2), NEW v
    PROVE  /\ SameFor(e.bound, at1, at2)
           /\ SameFor(e.parameter, [at1 EXCEPT !.bound = v], [at2 EXCEPT !.bound = v])
           /\ [at1 EXCEPT !.bound = v] \in Contexts => [at2 EXCEPT !.bound = v] \in Contexts
<1>1. at1 = at2 \/ IsClosed(e)
    BY DEF SameFor
<1>2. /\ [at1 EXCEPT !.bound = v].bound = v /\ [at2 EXCEPT !.bound = v].bound = v
      /\ [at1 EXCEPT !.bound = v] \in Contexts => [at2 EXCEPT !.bound = v] \in Contexts
    BY DEF Contexts
<1>3. QED BY <1>1, <1>2 DEF SameFor, IsClosed

LEMMA LambdaKeeps ==
    ASSUME NEW mode, NEW x, NEW W, NEW A1, NEW A2,
           Sim(mode, x, W, A1, A2), Remembers(W, A1),
           NEW e, e.k = "lambda", NEW at1 \in Contexts, NEW at2 \in Contexts,
           SameFor(e, at1, at2),
           NEW t1, NEW t2, Sound(W, t1), Related(mode, x, W, t1, t2)
    PROVE  /\ Keeps(mode, x, W, TypeOfLambda(e, at1, t1, A1), TypeOfLambda(e, at2, t2, A2))
           /\ Keeps(mode, x, W, EvaluateLambda(e, at1, t1, A1), EvaluateLambda(e, at2, t2, A2))
<1> DEFINE a1 == Answer(AskValue(e.bound, at1, t1), A1)
           b1 == Answer(AskValue(e.parameter, [at1 EXCEPT !.bound = a1.out], a1.table), A1)
           c1 == Answer(AskType(e.body, With(a1.out, b1.out.type, None), b1.table), A1)
           r1 == TypeOfLambda(e, at1, t1, A1)
           v1 == EvaluateLambda(e, at1, t1, A1)
           a2 == Answer(AskValue(e.bound, at2, t2), A2)
           b2 == Answer(AskValue(e.parameter, [at2 EXCEPT !.bound = a2.out], a2.table), A2)
           c2 == Answer(AskType(e.body, With(a2.out, b2.out.type, None), b2.table), A2)
           r2 == TypeOfLambda(e, at2, t2, A2)
           v2 == EvaluateLambda(e, at2, t2, A2)
<1>1. Keeps(mode, x, W, a1, a2)
    BY LambdaContexts, CallKeeps
<1>2. a1.out = a2.out /\ Related(mode, x, W, a1.table, a2.table) => Keeps(mode, x, W, b1, b2)
  <2> SUFFICES ASSUME a1.out = a2.out, Related(mode, x, W, a1.table, a2.table)
               PROVE  Keeps(mode, x, W, b1, b2)
    OBVIOUS
  <2> DEFINE in1 == [at1 EXCEPT !.bound = a1.out]
             in2 == [at2 EXCEPT !.bound = a2.out]
  <2>1. SameFor(e.parameter, in1, in2) /\ (in1 \in Contexts => in2 \in Contexts)
    BY LambdaContexts
  <2> HIDE DEF a1, a2, in1, in2
  <2>2. Keeps(mode, x, W, Answer(AskValue(e.parameter, in1, a1.table), A1),
                          Answer(AskValue(e.parameter, in2, a2.table), A2))
    BY <2>1, CallKeeps
  <2>3. QED BY <2>2 DEF in1, in2
<1>3. a1.out = a2.out /\ b1.out = b2.out /\ Related(mode, x, W, b1.table, b2.table)
        => Keeps(mode, x, W, c1, c2)
    BY CallKeeps DEF SameFor
<1>4. /\ Sound(W, a1.table)
      /\ Known(b1.table) \subseteq W => Known(a1.table) \subseteq W
      /\ Known(c1.table) \subseteq W => Known(b1.table) \subseteq W
  <2>1. Sound(W, a1.table)
    BY CallsRemember
  <2>2. Sound(W, b1.table) /\ (Known(b1.table) \subseteq W => Known(a1.table) \subseteq W)
    BY <2>1, CallsRemember
  <2>3. Known(c1.table) \subseteq W => Known(b1.table) \subseteq W
    BY <2>2, CallsRemember
  <2>4. QED BY <2>1, <2>2, <2>3
<1>5. /\ r1.out = LambdaType(a1.out, b1.out, c1.out)
      /\ r1.table = IF Thrown(a1.out) THEN a1.table
                    ELSE IF Thrown(b1.out) \/ b1.out.k # "type" THEN b1.table ELSE c1.table
      /\ r2.out = LambdaType(a2.out, b2.out, c2.out)
      /\ r2.table = IF Thrown(a2.out) THEN a2.table
                    ELSE IF Thrown(b2.out) \/ b2.out.k # "type" THEN b2.table ELSE c2.table
    BY LambdaOutcome
<1>6. /\ v1.out = LambdaValue(a1.out, e.body) /\ v1.table = a1.table
      /\ v2.out = LambdaValue(a2.out, e.body) /\ v2.table = a2.table
    BY LambdaValueOutcome
<1> HIDE DEF a1, b1, c1, r1, v1, a2, b2, c2, r2, v2
<1>7. ASSUME ~Thrown(v1.out), Known(v1.table) \subseteq W, ~Excused(mode, v2.out)
      PROVE  v1.out = v2.out /\ Related(mode, x, W, v1.table, v2.table)
  <2>1. ~Thrown(a1.out)
    BY <1>6, <1>7 DEF LambdaValue
  <2>2. ~Excused(mode, a2.out)
    BY <1>6, <1>7, ExcusedThrows DEF LambdaValue
  <2>3. QED BY <1>1, <1>6, <1>7, <2>1, <2>2 DEF Keeps
<1>8. ASSUME ~Thrown(r1.out), Known(r1.table) \subseteq W, ~Excused(mode, r2.out)
      PROVE  r1.out = r2.out /\ Related(mode, x, W, r1.table, r2.table)
  <2>1. ~Thrown(a1.out) /\ ~Thrown(b1.out)
    BY <1>5, <1>8 DEF LambdaType
  <2>2. Known(b1.table) \subseteq W /\ Known(a1.table) \subseteq W
    BY <1>4, <1>5, <1>8, <2>1
  <2>3. ~Excused(mode, a2.out)
    BY <1>5, <1>8, ExcusedThrows DEF LambdaType
  <2>4. a1.out = a2.out /\ Related(mode, x, W, a1.table, a2.table)
    BY <1>1, <2>1, <2>2, <2>3 DEF Keeps
  <2>5. ~Excused(mode, b2.out)
    BY <1>5, <1>8, <2>1, <2>4, ExcusedThrows DEF LambdaType
  <2>6. b1.out = b2.out /\ Related(mode, x, W, b1.table, b2.table)
    BY <1>2, <2>1, <2>2, <2>4, <2>5 DEF Keeps
  <2>7. CASE b1.out.k # "type"
    <3>1. r1.table = b1.table /\ r2.table = b2.table
        BY <1>5, <2>1, <2>4, <2>6, <2>7
    <3>2. r1.out = r2.out
        BY <1>5, <2>1, <2>4, <2>6, <2>7 DEF LambdaType
    <3>3. QED BY <2>6, <3>1, <3>2
  <2>8. CASE b1.out.k = "type"
    <3>1. r1.table = c1.table /\ r2.table = c2.table
        BY <1>5, <2>1, <2>4, <2>6, <2>8
    <3>2. ~Thrown(c1.out)
        BY <1>5, <1>8, <2>1, <2>8 DEF LambdaType
    <3>3. ~Excused(mode, c2.out)
        BY <1>5, <1>8, <2>1, <2>4, <2>6, <2>8, ExcusedThrows DEF LambdaType
    <3>4. c1.out = c2.out /\ Related(mode, x, W, c1.table, c2.table)
        BY <1>3, <1>8, <2>4, <2>6, <3>1, <3>2, <3>3 DEF Keeps
    <3>5. QED BY <1>5, <2>4, <2>6, <3>1, <3>4
  <2>9. QED BY <2>7, <2>8
<1>9. Keeps(mode, x, W, r1, r2) /\ Keeps(mode, x, W, v1, v2)
    BY <1>7, <1>8 DEF Keeps
<1>10. QED BY <1>9 DEF r1, r2, v1, v2

LEMMA CallExpressionKeeps ==
    ASSUME NEW mode, NEW x, NEW W, NEW A1, NEW A2,
           Sim(mode, x, W, A1, A2), Remembers(W, A1),
           NEW e, NEW at, NEW t1, NEW t2, Sound(W, t1), Related(mode, x, W, t1, t2)
    PROVE  Keeps(mode, x, W, TypeOfCall(e, at, t1, A1), TypeOfCall(e, at, t2, A2))
<1> DEFINE c1 == Answer(AskType(e.callee, at, t1), A1)
           f1 == Answer(AskValue(e.callee, at, c1.table), A1)
           a1 == Answer(AskValue(e.argument, at, f1.table), A1)
           o1 == Answer(AskType(f1.out.body, With(f1.out.bound, None, a1.out), a1.table), A1)
           r1 == TypeOfCall(e, at, t1, A1)
           c2 == Answer(AskType(e.callee, at, t2), A2)
           f2 == Answer(AskValue(e.callee, at, c2.table), A2)
           a2 == Answer(AskValue(e.argument, at, f2.table), A2)
           o2 == Answer(AskType(f2.out.body, With(f2.out.bound, None, a2.out), a2.table), A2)
           r2 == TypeOfCall(e, at, t2, A2)
<1>1. /\ Keeps(mode, x, W, c1, c2)
      /\ Related(mode, x, W, c1.table, c2.table) => Keeps(mode, x, W, f1, f2)
      /\ Related(mode, x, W, f1.table, f2.table) => Keeps(mode, x, W, a1, a2)
  <2>1. \A f : SameFor(f, at, at)
    BY DEF SameFor
  <2>2. Keeps(mode, x, W, c1, c2)
    BY <2>1, CallKeeps
  <2>3. Related(mode, x, W, c1.table, c2.table) => Keeps(mode, x, W, f1, f2)
    BY <2>1, CallKeeps
  <2>4. Related(mode, x, W, f1.table, f2.table) => Keeps(mode, x, W, a1, a2)
    BY <2>1, CallKeeps
  <2>5. QED BY <2>2, <2>3, <2>4
<1>2. f1.out = f2.out /\ a1.out = a2.out /\ Related(mode, x, W, a1.table, a2.table)
        => Keeps(mode, x, W, o1, o2)
    BY CallKeeps DEF SameFor
<1>3. /\ Known(f1.table) \subseteq W => Known(c1.table) \subseteq W
      /\ Known(a1.table) \subseteq W => Known(f1.table) \subseteq W
      /\ Known(o1.table) \subseteq W => Known(a1.table) \subseteq W
  <2>1. Sound(W, c1.table)
    BY CallsRemember
  <2>2. Sound(W, f1.table) /\ (Known(f1.table) \subseteq W => Known(c1.table) \subseteq W)
    BY <2>1, CallsRemember
  <2>3. Sound(W, a1.table) /\ (Known(a1.table) \subseteq W => Known(f1.table) \subseteq W)
    BY <2>2, CallsRemember
  <2>4. Known(o1.table) \subseteq W => Known(a1.table) \subseteq W
    BY <2>3, CallsRemember
  <2>5. QED BY <2>2, <2>3, <2>4
<1>4. /\ r1.out = CallType(c1.out, f1.out, a1.out, o1.out)
      /\ r1.table = IF Thrown(c1.out) \/ c1.out.k # "generic_function_type" THEN c1.table
                    ELSE IF Thrown(f1.out) THEN f1.table
                    ELSE IF Thrown(a1.out) \/ ~IsSome(a1.out) \/ f1.out.k # "closure"
                         THEN a1.table ELSE o1.table
    BY CallOutcome
<1>5. /\ r2.out = CallType(c2.out, f2.out, a2.out, o2.out)
      /\ r2.table = IF Thrown(c2.out) \/ c2.out.k # "generic_function_type" THEN c2.table
                    ELSE IF Thrown(f2.out) THEN f2.table
                    ELSE IF Thrown(a2.out) \/ ~IsSome(a2.out) \/ f2.out.k # "closure"
                         THEN a2.table ELSE o2.table
    BY CallOutcome
<1> HIDE DEF c1, f1, a1, o1, r1, c2, f2, a2, o2, r2
<1>6. ASSUME ~Thrown(r1.out), Known(r1.table) \subseteq W, ~Excused(mode, r2.out)
      PROVE  r1.out = r2.out /\ Related(mode, x, W, r1.table, r2.table)
  <2>1. ~Thrown(c1.out)
    BY <1>4, <1>6 DEF CallType
  <2>2. ~Excused(mode, c2.out)
    BY <1>5, <1>6, ExcusedThrows DEF CallType
  <2>3. Known(c1.table) \subseteq W
    BY <1>3, <1>4, <1>6
  <2>4. c1.out = c2.out /\ Related(mode, x, W, c1.table, c2.table)
    BY <1>1, <2>1, <2>2, <2>3 DEF Keeps
  <2>5. CASE c1.out.k # "generic_function_type"
    <3>1. r1.table = c1.table /\ r2.table = c2.table
        BY <1>4, <1>5, <2>4, <2>5
    <3>2. r1.out = r2.out
        BY <1>4, <1>5, <2>1, <2>4, <2>5 DEF CallType
    <3>3. QED BY <2>4, <3>1, <3>2
  <2>6. CASE c1.out.k = "generic_function_type"
    <3>1. ~Thrown(f1.out) /\ ~Thrown(a1.out)
        BY <1>4, <1>6, <2>1, <2>6 DEF CallType
    <3>2. ~Excused(mode, f2.out)
        BY <1>5, <1>6, <2>1, <2>4, <2>6, ExcusedThrows DEF CallType
    <3>3. Known(a1.table) \subseteq W /\ Known(f1.table) \subseteq W
        BY <1>3, <1>4, <1>6, <2>1, <2>6, <3>1
    <3>4. f1.out = f2.out /\ Related(mode, x, W, f1.table, f2.table)
        BY <1>1, <2>4, <3>1, <3>2, <3>3 DEF Keeps
    <3>5. ~Excused(mode, a2.out)
        BY <1>5, <1>6, <2>1, <2>4, <2>6, <3>1, <3>4, ExcusedThrows DEF CallType
    <3>6. a1.out = a2.out /\ Related(mode, x, W, a1.table, a2.table)
        BY <1>1, <3>1, <3>3, <3>4, <3>5 DEF Keeps
    <3>7. CASE ~(IsSome(a1.out) /\ f1.out.k = "closure")
        <4>1. r1.table = a1.table /\ r2.table = a2.table
            BY <1>4, <1>5, <2>1, <2>4, <2>6, <3>1, <3>4, <3>6, <3>7
        <4>2. r1.out = r2.out
            BY <1>4, <1>5, <2>1, <2>4, <2>6, <3>1, <3>4, <3>6, <3>7 DEF CallType
        <4>3. QED BY <3>6, <4>1, <4>2
    <3>8. CASE IsSome(a1.out) /\ f1.out.k = "closure"
        <4>1. r1.table = o1.table /\ r1.out = o1.out
            BY <1>4, <2>1, <2>6, <3>1, <3>8 DEF CallType
        <4>2. r2.table = o2.table /\ r2.out = o2.out
            BY <1>5, <2>1, <2>4, <2>6, <3>1, <3>4, <3>6, <3>8 DEF CallType
        <4>3. QED BY <1>2, <1>6, <3>4, <3>6, <4>1, <4>2 DEF Keeps
    <3>9. QED BY <3>7, <3>8
  <2>7. QED BY <2>5, <2>6
<1>7. Keeps(mode, x, W, r1, r2)
    BY <1>6 DEF Keeps
<1>8. QED BY <1>7 DEF r1, r2

(* All but the symbols, which the table answers.                            *)
LEMMA ExpressionKeeps ==
    ASSUME NEW mode, NEW x, NEW W, NEW A1, NEW A2,
           Sim(mode, x, W, A1, A2), Remembers(W, A1),
           NEW e, e.k # "local_symbol", NEW at1 \in Contexts, NEW at2 \in Contexts,
           SameFor(e, at1, at2),
           NEW t1, NEW t2, Sound(W, t1), Related(mode, x, W, t1, t2)
    PROVE  /\ Keeps(mode, x, W, TypeOf(e, at1, t1, A1), TypeOf(e, at2, t2, A2))
           /\ Keeps(mode, x, W, Evaluate(e, at1, t1, A1), Evaluate(e, at2, t2, A2))
<1>1. \A out : Keeps(mode, x, W, Yield(out, t1), Yield(out, t2))
    BY YieldFields DEF Keeps
<1>2. IsClosed(e) => e.k = "lambda"
    BY DEF IsClosed
<1>3. Keeps(mode, x, W, TypeOf(e, at1, t1, A1), TypeOf(e, at2, t2, A2))
  <2>1. CASE e.k = "literal"
    BY <1>1, <2>1 DEF TypeOf
  <2>2. CASE e.k = "lambda"
    <3>1. Keeps(mode, x, W, TypeOfLambda(e, at1, t1, A1), TypeOfLambda(e, at2, t2, A2))
        BY <2>2, LambdaKeeps
    <3>2. QED BY <2>2, <3>1 DEF TypeOf
  <2>3. CASE e.k = "argument"
    BY <1>1, <1>2, <2>3 DEF TypeOf, SameFor
  <2>4. CASE e.k = "return"
    <3>1. SameFor(e.result, at1, at2)
        BY <1>2, <2>4 DEF SameFor
    <3>2. Keeps(mode, x, W, Answer(AskType(e.result, at1, t1), A1),
                            Answer(AskType(e.result, at2, t2), A2))
        BY <3>1, CallKeeps
    <3>3. QED BY <2>4, <3>2 DEF TypeOf
  <2>5. CASE e.k = "call"
    <3>1. at1 = at2
        BY <1>2, <2>5 DEF SameFor
    <3>2. Keeps(mode, x, W, TypeOfCall(e, at1, t1, A1), TypeOfCall(e, at2, t2, A2))
        BY <3>1, CallExpressionKeeps
    <3>3. QED BY <2>5, <3>2 DEF TypeOf
  <2>6. CASE e.k \notin {"literal", "lambda", "argument", "return", "call"}
    <3>1. TypeOf(e, at1, t1, A1) = Yield(NotImplemented, t1)
        BY <2>6 DEF TypeOf
    <3>2. TypeOf(e, at2, t2, A2) = Yield(NotImplemented, t2)
        BY <2>6 DEF TypeOf
    <3>3. QED BY <1>1, <3>1, <3>2
  <2>7. QED BY <2>1, <2>2, <2>3, <2>4, <2>5, <2>6
<1>4. Keeps(mode, x, W, Evaluate(e, at1, t1, A1), Evaluate(e, at2, t2, A2))
  <2>1. CASE e.k = "literal"
    BY <1>1, <2>1 DEF Evaluate
  <2>2. CASE e.k = "lambda"
    <3>1. Keeps(mode, x, W, EvaluateLambda(e, at1, t1, A1), EvaluateLambda(e, at2, t2, A2))
        BY <2>2, LambdaKeeps
    <3>2. QED BY <2>2, <3>1 DEF Evaluate
  <2>3. CASE e.k = "bound_value"
    BY <1>1, <1>2, <2>3 DEF Evaluate, SameFor
  <2>4. CASE e.k = "argument"
    BY <1>1, <1>2, <2>4 DEF Evaluate, SameFor
  <2>5. CASE e.k \notin {"literal", "lambda", "bound_value", "argument"}
    <3>1. Evaluate(e, at1, t1, A1) = Yield(NotImplemented, t1)
        BY <2>5 DEF Evaluate
    <3>2. Evaluate(e, at2, t2, A2) = Yield(NotImplemented, t2)
        BY <2>5 DEF Evaluate
    <3>3. QED BY <1>1, <3>1, <3>2
  <2>6. QED BY <2>1, <2>2, <2>3, <2>4, <2>5
<1>5. QED BY <1>3, <1>4

----------------------------------------------------------------------------
(* More stack does not change a meaning                                     *)

LEMMA MeaningNext ==
    ASSUME NEW x, NEW n \in Nat
    PROVE  Sim("meaning", x, Symbols, Meaning[n], Meaning[n + 1])
<1> DEFINE T == {m \in Nat : Sim("meaning", x, Symbols, Meaning[m], Meaning[m + 1])}
           t == EmptyTable(x)
<1>1. ASSUME NEW m \in Nat, NEW k \in Nat,
             \A e \in Terms[MaxHeight].expressions, at1 \in Contexts, at2 \in Contexts :
                SameFor(e, at1, at2) =>
                    /\ Thrown(TypeMeans(e, at1, x, m))
                       \/ TypeMeans(e, at1, x, m) = TypeMeans(e, at2, x, k)
                    /\ Thrown(ValueMeans(e, at1, x, m))
                       \/ ValueMeans(e, at1, x, m) = ValueMeans(e, at2, x, k)
      PROVE  Sim("meaning", x, Symbols, Meaning[m], Meaning[k])
    BY <1>1, MeaningLeavesNothing DEF Sim, Keeps, Related, TypeMeans, ValueMeans
<1>2. 0 \in T
  <2>1. \A e, at : Thrown(TypeMeans(e, at, x, 0)) /\ Thrown(ValueMeans(e, at, x, 0))
    BY MeansUnfold, MeansNothing, KindsDiffer
  <2>2. QED BY <1>1, <2>1
<1>3. ASSUME NEW m \in Nat, m \in T PROVE m + 1 \in T
  <2> SUFFICES ASSUME NEW e \in Terms[MaxHeight].expressions,
                      NEW at1 \in Contexts, NEW at2 \in Contexts, SameFor(e, at1, at2)
               PROVE  /\ Thrown(TypeMeans(e, at1, x, m + 1))
                         \/ TypeMeans(e, at1, x, m + 1) = TypeMeans(e, at2, x, m + 2)
                      /\ Thrown(ValueMeans(e, at1, x, m + 1))
                         \/ ValueMeans(e, at1, x, m + 1) = ValueMeans(e, at2, x, m + 2)
    <3>1. (m + 1) + 1 = m + 2
        OBVIOUS
    <3>2. QED BY <1>1, <3>1
  <2>1. CASE t \notin Tables
    <3>1. AskType(e, at1, t) \notin Questions
        BY <2>1, AskFields
    <3>2. QED BY <3>1, MeansNothing, KindsDiffer
  <2>2. CASE t \in Tables
    <3>1. AskType(e, at1, t) \in Questions /\ AskType(e, at2, t) \in Questions
        BY <2>2, AskFields
    <3>2. /\ TypeMeans(e, at1, x, m + 1) = TypeOf(e, at1, t, Meaning[m]).out
          /\ ValueMeans(e, at1, x, m + 1) = Evaluate(e, at1, t, Meaning[m]).out
        BY <3>1, MeansUnfold
    <3>3. /\ TypeMeans(e, at2, x, m + 2) = TypeOf(e, at2, t, Meaning[m + 1]).out
          /\ ValueMeans(e, at2, x, m + 2) = Evaluate(e, at2, t, Meaning[m + 1]).out
      <4>1. m + 1 \in Nat /\ m + 2 = (m + 1) + 1
        OBVIOUS
      <4>2. QED BY <3>1, <4>1, MeansUnfold
    <3>4. Sim("meaning", x, Symbols, Meaning[m], Meaning[m + 1])
        BY <1>3
    <3>5. Related("meaning", x, Symbols, t, t) /\ Sound(Symbols, t)
          /\ Remembers(Symbols, Meaning[m])
        BY DEF Related, Sound, Remembers
    <3>6. \A u : Known(u) \subseteq Symbols
        BY DEF Known
    <3>7. \A out : ~Excused("meaning", out)
        BY DEF Excused
    <3> HIDE DEF t
    <3>8. CASE e.k # "local_symbol"
      <4>1. /\ Keeps("meaning", x, Symbols, TypeOf(e, at1, t, Meaning[m]),
                     TypeOf(e, at2, t, Meaning[m + 1]))
            /\ Keeps("meaning", x, Symbols, Evaluate(e, at1, t, Meaning[m]),
                     Evaluate(e, at2, t, Meaning[m + 1]))
        BY <3>4, <3>5, <3>8, ExpressionKeeps
      <4>2. QED BY <3>2, <3>3, <3>6, <3>7, <4>1 DEF Keeps
    <3>9. CASE e.k = "local_symbol"
      <4> DEFINE s == e.name
                 f == Exported(s, t)
      <4>1. at1 = at2
        BY <3>9 DEF SameFor, IsClosed
      <4>2. Forgetful(Meaning[m], x) /\ Forgetful(Meaning[m + 1], x)
        BY MeaningForgets
      <4>3. /\ TypeOf(e, at1, t, Meaning[m]).out = SymbolTypeOf(s, at1, t, Meaning[m]).out
            /\ Evaluate(e, at1, t, Meaning[m]).out = SymbolEvaluate(s, at1, t, Meaning[m]).out
            /\ TypeOf(e, at2, t, Meaning[m + 1]).out
                = SymbolTypeOf(s, at2, t, Meaning[m + 1]).out
            /\ Evaluate(e, at2, t, Meaning[m + 1]).out
                = SymbolEvaluate(s, at2, t, Meaning[m + 1]).out
        BY <3>9 DEF TypeOf, Evaluate
      <4>4. /\ Keeps("meaning", x, Symbols, Answer(AskType(f, at1, t), Meaning[m]),
                     Answer(AskType(f, at2, t), Meaning[m + 1]))
            /\ Keeps("meaning", x, Symbols, Answer(AskValue(f, at1, t), Meaning[m]),
                     Answer(AskValue(f, at2, t), Meaning[m + 1]))
        <5>1. SameFor(f, at1, at2)
            BY <4>1 DEF SameFor
        <5>2. QED BY <3>4, <3>5, <5>1, CallKeeps
      <4>5. CASE s \notin Symbols
        <5>1. /\ SymbolTypeOf(s, at1, t, Meaning[m]).out = NotImplemented
              /\ SymbolEvaluate(s, at1, t, Meaning[m]).out = NotImplemented
            BY <4>2, <4>5, SymbolAlone DEF t
        <5>2. QED BY <3>2, <4>3, <5>1, KindsDiffer
      <4>6. CASE s \in Symbols
        <5>1. /\ SymbolTypeOf(s, at1, t, Meaning[m]).out = Answer(AskType(f, at1, t), Meaning[m]).out
              /\ SymbolEvaluate(s, at1, t, Meaning[m]).out
                    = Answer(AskValue(f, at1, t), Meaning[m]).out
              /\ SymbolTypeOf(s, at2, t, Meaning[m + 1]).out
                    = Answer(AskType(f, at2, t), Meaning[m + 1]).out
              /\ SymbolEvaluate(s, at2, t, Meaning[m + 1]).out
                    = Answer(AskValue(f, at2, t), Meaning[m + 1]).out
            BY <4>2, <4>6, SymbolAlone DEF t
        <5>2. QED BY <3>2, <3>3, <3>6, <3>7, <4>3, <4>4, <5>1 DEF Keeps
      <4>7. QED BY <4>5, <4>6
    <3>10. QED BY <3>8, <3>9
  <2>3. QED BY <2>1, <2>2
<1> HIDE DEF T
<1>4. \A m \in Nat : m \in T
    BY <1>2, <1>3, SetInduction
<1>5. QED BY <1>4 DEF T

LEMMA MeaningStays ==
    ASSUME NEW e, NEW at, NEW x, NEW k \in Nat, NEW j \in Nat, k <= j
    PROVE  /\ Thrown(TypeMeans(e, at, x, k)) \/ TypeMeans(e, at, x, j) = TypeMeans(e, at, x, k)
           /\ Thrown(ValueMeans(e, at, x, k)) \/ ValueMeans(e, at, x, j) = ValueMeans(e, at, x, k)
<1> DEFINE Stays(m) ==
            /\ Thrown(TypeMeans(e, at, x, k)) \/ TypeMeans(e, at, x, m) = TypeMeans(e, at, x, k)
            /\ Thrown(ValueMeans(e, at, x, k)) \/ ValueMeans(e, at, x, m) = ValueMeans(e, at, x, k)
           T == {m \in Nat : k <= m => Stays(m)}
<1>1. ASSUME NEW m \in Nat
      PROVE  /\ Thrown(TypeMeans(e, at, x, m))
                \/ TypeMeans(e, at, x, m) = TypeMeans(e, at, x, m + 1)
             /\ Thrown(ValueMeans(e, at, x, m))
                \/ ValueMeans(e, at, x, m) = ValueMeans(e, at, x, m + 1)
  <2>1. Sim("meaning", x, Symbols, Meaning[m], Meaning[m + 1])
    BY MeaningNext
  <2>2. /\ Related("meaning", x, Symbols, EmptyTable(x), EmptyTable(x)) /\ SameFor(e, at, at)
        /\ \A u : Known(u) \subseteq Symbols
        /\ \A out : ~Excused("meaning", out)
    BY DEF Related, SameFor, Known, Excused
  <2>3. /\ Keeps("meaning", x, Symbols, Answer(AskType(e, at, EmptyTable(x)), Meaning[m]),
                 Answer(AskType(e, at, EmptyTable(x)), Meaning[m + 1]))
        /\ Keeps("meaning", x, Symbols, Answer(AskValue(e, at, EmptyTable(x)), Meaning[m]),
                 Answer(AskValue(e, at, EmptyTable(x)), Meaning[m + 1]))
    BY <2>1, <2>2, CallKeeps
  <2>4. QED BY <2>2, <2>3 DEF Keeps, TypeMeans, ValueMeans
<1> HIDE DEF Stays
<1>2. Stays(k)
    BY DEF Stays
<1>3. ASSUME NEW m \in Nat, Stays(m) PROVE Stays(m + 1)
    BY <1>1, <1>3 DEF Stays
<1>4. 0 \in T
    BY <1>2
<1>5. ASSUME NEW m \in Nat, m \in T PROVE m + 1 \in T
  <2>1. CASE k <= m
    BY <1>3, <1>5, <2>1
  <2>2. CASE k = m + 1
    BY <1>2, <2>2
  <2>3. CASE m + 1 < k
    BY <2>3
  <2>4. QED BY <2>1, <2>2, <2>3
<1> HIDE DEF T
<1>6. \A m \in Nat : m \in T
    BY <1>4, <1>5, SetInduction
<1>7. Stays(j)
    BY <1>6 DEF T
<1>8. QED BY <1>7 DEF Stays

----------------------------------------------------------------------------
(* The truth is what enough stack tells                                     *)

LEMMA TruthOf ==
    ASSUME NEW q \in Questions
    PROVE  /\ Truth[q].table = EmptyTable(q.table.exports)
           /\ (\A k \in Nat : Thrown(Meaning[k][q].out)) => Truth[q].out = StackOverflow
           /\ (\E k \in Nat : ~Thrown(Meaning[k][q].out)) =>
                \E k \in Nat : ~Thrown(Meaning[k][q].out) /\ Truth[q].out = Meaning[k][q].out
<1> DEFINE Ends(k) == ~Thrown(Meaning[k][q].out)
<1>1. Truth[q] = Yield(IF \E k \in Nat : Ends(k)
                       THEN Meaning[CHOOSE k \in Nat : Ends(k)][q].out ELSE StackOverflow,
                       EmptyTable(q.table.exports))
    BY DEF Truth
<1>2. Truth[q].table = EmptyTable(q.table.exports)
    BY <1>1, YieldFields
<1>3. Truth[q].out = IF \E k \in Nat : Ends(k)
                     THEN Meaning[CHOOSE k \in Nat : Ends(k)][q].out ELSE StackOverflow
    BY <1>1, YieldFields
<1>4. ASSUME NEW k \in Nat, Ends(k)
      PROVE  \E j \in Nat : Ends(j) /\ Truth[q].out = Meaning[j][q].out
  <2> DEFINE c == CHOOSE j \in Nat : Ends(j)
  <2>1. c \in Nat /\ Ends(c)
    BY <1>4
  <2>2. Truth[q].out = Meaning[c][q].out
    BY <1>3, <1>4
  <2>3. QED BY <2>1, <2>2
<1>5. (\A k \in Nat : ~Ends(k)) => Truth[q].out = StackOverflow
    BY <1>3
<1>6. QED BY <1>2, <1>4, <1>5

LEMMA TruthHolds ==
    ASSUME NEW e, NEW at, NEW x, NEW k \in Nat
    PROVE  /\ Thrown(TypeMeans(e, at, x, k)) \/ TrueType(e, at, x) = TypeMeans(e, at, x, k)
           /\ Thrown(ValueMeans(e, at, x, k)) \/ TrueValue(e, at, x) = ValueMeans(e, at, x, k)
<1> DEFINE p == AskType(e, at, EmptyTable(x))
           q == AskValue(e, at, EmptyTable(x))
<1>1. CASE p \notin Questions
    BY <1>1, MeansNothing, KindsDiffer
<1>2. CASE p \in Questions
  <2>1. q \in Questions
    BY <1>2, AskFields
  <2>2. /\ \A j : TypeMeans(e, at, x, j) = Meaning[j][p].out
        /\ \A j : ValueMeans(e, at, x, j) = Meaning[j][q].out
        /\ TrueType(e, at, x) = Truth[p].out /\ TrueValue(e, at, x) = Truth[q].out
    BY <1>2, <2>1 DEF TypeMeans, ValueMeans, TrueType, TrueValue, Answer
  <2> HIDE DEF p, q
  <2>3. ASSUME ~Thrown(TypeMeans(e, at, x, k))
        PROVE  TrueType(e, at, x) = TypeMeans(e, at, x, k)
    <3>1. PICK j \in Nat : ~Thrown(Meaning[j][p].out) /\ Truth[p].out = Meaning[j][p].out
        BY <1>2, <2>2, <2>3, TruthOf
    <3>2. ~Thrown(TypeMeans(e, at, x, j)) /\ TrueType(e, at, x) = TypeMeans(e, at, x, j)
        BY <2>2, <3>1
    <3>3. CASE j <= k
        BY <3>2, <3>3, MeaningStays
    <3>4. CASE k <= j
        BY <2>3, <3>2, <3>4, MeaningStays
    <3>5. QED BY <3>3, <3>4
  <2>4. ASSUME ~Thrown(ValueMeans(e, at, x, k))
        PROVE  TrueValue(e, at, x) = ValueMeans(e, at, x, k)
    <3>1. PICK j \in Nat : ~Thrown(Meaning[j][q].out) /\ Truth[q].out = Meaning[j][q].out
        BY <2>1, <2>2, <2>4, TruthOf
    <3>2. ~Thrown(ValueMeans(e, at, x, j)) /\ TrueValue(e, at, x) = ValueMeans(e, at, x, j)
        BY <2>2, <3>1
    <3>3. CASE j <= k
        BY <3>2, <3>3, MeaningStays
    <3>4. CASE k <= j
        BY <2>4, <3>2, <3>4, MeaningStays
    <3>5. QED BY <3>3, <3>4
  <2>5. QED BY <2>3, <2>4
<1>3. QED BY <1>1, <1>2

(* From some stack on, what can be told is told.                            *)
LEMMA TypeToldSoon ==
    ASSUME NEW e, NEW at, NEW x
    PROVE  \E k \in Nat : \A j \in Nat : k <= j /\ ~Thrown(TrueType(e, at, x)) =>
                TypeMeans(e, at, x, j) = TrueType(e, at, x)
<1> SUFFICES ASSUME ~Thrown(TrueType(e, at, x))
             PROVE  \E k \in Nat : \A j \in Nat : k <= j =>
                        TypeMeans(e, at, x, j) = TrueType(e, at, x)
    OBVIOUS
<1> DEFINE p == AskType(e, at, EmptyTable(x))
<1>1. p \in Questions
    BY KindsDiffer, YieldFields DEF TrueType, Answer
<1>2. /\ \A j : TypeMeans(e, at, x, j) = Meaning[j][p].out
      /\ TrueType(e, at, x) = Truth[p].out
    BY <1>1 DEF TypeMeans, TrueType, Answer
<1> HIDE DEF p
<1>3. PICK k \in Nat : ~Thrown(Meaning[k][p].out) /\ Truth[p].out = Meaning[k][p].out
    BY <1>1, <1>2, TruthOf, KindsDiffer
<1>4. \A j \in Nat : k <= j => TypeMeans(e, at, x, j) = TrueType(e, at, x)
    BY <1>2, <1>3, MeaningStays
<1>5. QED BY <1>4

LEMMA ValueToldSoon ==
    ASSUME NEW e, NEW at, NEW x
    PROVE  \E k \in Nat : \A j \in Nat : k <= j /\ ~Thrown(TrueValue(e, at, x)) =>
                ValueMeans(e, at, x, j) = TrueValue(e, at, x)
<1> SUFFICES ASSUME ~Thrown(TrueValue(e, at, x))
             PROVE  \E k \in Nat : \A j \in Nat : k <= j =>
                        ValueMeans(e, at, x, j) = TrueValue(e, at, x)
    OBVIOUS
<1> DEFINE p == AskValue(e, at, EmptyTable(x))
<1>1. p \in Questions
    BY KindsDiffer, YieldFields DEF TrueValue, Answer
<1>2. /\ \A j : ValueMeans(e, at, x, j) = Meaning[j][p].out
      /\ TrueValue(e, at, x) = Truth[p].out
    BY <1>1 DEF ValueMeans, TrueValue, Answer
<1> HIDE DEF p
<1>3. PICK k \in Nat : ~Thrown(Meaning[k][p].out) /\ Truth[p].out = Meaning[k][p].out
    BY <1>1, <1>2, TruthOf, KindsDiffer
<1>4. \A j \in Nat : k <= j => ValueMeans(e, at, x, j) = TrueValue(e, at, x)
    BY <1>2, <1>3, MeaningStays
<1>5. QED BY <1>4

LEMMA TruthForgets == ASSUME NEW x PROVE Forgetful(Truth, x)
<1> DEFINE t == EmptyTable(x)
<1>1. t.exports = x /\ \A s \in Symbols : Mark(s, t).exports = x
    BY EmptyIsTable
<1>2. ASSUME NEW q, q.table = t PROVE Answer(q, Truth).table = t
    BY <1>1, <1>2, TruthOf, YieldFields DEF Answer
<1>3. ASSUME NEW e, NEW at, NEW s \in Symbols
      PROVE  /\ Answer(AskType(e, at, Mark(s, t)), Truth).out
                    = Answer(AskType(e, at, t), Truth).out
             /\ Answer(AskValue(e, at, Mark(s, t)), Truth).out
                    = Answer(AskValue(e, at, t), Truth).out
  <2> SUFFICES ASSUME NEW p, NEW q,
                      \/ p = AskType(e, at, Mark(s, t)) /\ q = AskType(e, at, t)
                      \/ p = AskValue(e, at, Mark(s, t)) /\ q = AskValue(e, at, t)
               PROVE  Answer(p, Truth).out = Answer(q, Truth).out
    OBVIOUS
  <2>1. p \in Questions <=> q \in Questions
    BY EmptyIsTable, AskFields
  <2>2. \A k \in Nat : Answer(p, Meaning[k]).out = Answer(q, Meaning[k]).out
    BY MeaningIgnoresMarks DEF TypeMeans, ValueMeans
  <2>3. CASE p \notin Questions
    BY <2>1, <2>3, YieldFields DEF Answer
  <2>4. CASE p \in Questions
    <3>1. \A k \in Nat : Meaning[k][p].out = Meaning[k][q].out
        BY <2>1, <2>2, <2>4 DEF Answer
    <3>2. Answer(p, Truth) = Truth[p] /\ Answer(q, Truth) = Truth[q]
        BY <2>1, <2>4 DEF Answer
    <3>3. CASE \A k \in Nat : Thrown(Meaning[k][p].out)
        BY <2>1, <2>4, <3>1, <3>2, <3>3, TruthOf
    <3>4. CASE \E k \in Nat : ~Thrown(Meaning[k][p].out)
        <4>1. PICK k \in Nat : ~Thrown(Meaning[k][p].out) /\ Truth[p].out = Meaning[k][p].out
            BY <2>4, <3>4, TruthOf
        <4>2. \/ p = AskType(e, at, Mark(s, t)) /\ Truth[p].out = TypeMeans(e, at, x, k)
                 /\ Truth[q].out = TrueType(e, at, x)
              \/ p = AskValue(e, at, Mark(s, t)) /\ Truth[p].out = ValueMeans(e, at, x, k)
                 /\ Truth[q].out = TrueValue(e, at, x)
            BY <2>1, <2>4, <3>1, <3>2, <4>1 DEF TypeMeans, ValueMeans, TrueType, TrueValue, Answer
        <4>3. QED BY <3>2, <4>1, <4>2, TruthHolds
    <3>5. QED BY <3>3, <3>4
  <2>5. QED BY <2>3, <2>4
<1>4. \A e, at : AskType(e, at, t).table = t /\ AskValue(e, at, t).table = t
    BY AskFields
<1>5. QED BY <1>2, <1>3, <1>4 DEF Forgetful

(* The truth about an expression is what the truths about its parts make it.*)
LEMMA TruthTold ==
    ASSUME NEW e, NEW at, NEW x, AskType(e, at, EmptyTable(x)) \in Questions, NEW j \in Nat
    PROVE  /\ LET o == TypeOf(e, at, EmptyTable(x), Meaning[j]).out IN
              Thrown(o) \/ TrueType(e, at, x) = o
           /\ LET o == Evaluate(e, at, EmptyTable(x), Meaning[j]).out IN
              Thrown(o) \/ TrueValue(e, at, x) = o
<1>1. j + 1 \in Nat
    OBVIOUS
<1>2. QED BY <1>1, MeansUnfold, TruthHolds

LEMMA TruthOfLambda ==
    ASSUME NEW e, NEW at, NEW x
    PROVE  \E j \in Nat :
        /\ Thrown(TypeOfLambda(e, at, EmptyTable(x), Truth).out)
           \/ TypeOfLambda(e, at, EmptyTable(x), Meaning[j]).out
                = TypeOfLambda(e, at, EmptyTable(x), Truth).out
        /\ Thrown(EvaluateLambda(e, at, EmptyTable(x), Truth).out)
           \/ EvaluateLambda(e, at, EmptyTable(x), Meaning[j]).out
                = EvaluateLambda(e, at, EmptyTable(x), Truth).out
<1> DEFINE v == TrueValue(e.bound, at, x)
           in == [at EXCEPT !.bound = v]
           p == TrueValue(e.parameter, in, x)
           o == TrueType(e.body, With(v, p.type, None), x)
<1>1. PICK kv \in Nat : \A j \in Nat : kv <= j /\ ~Thrown(v) => ValueMeans(e.bound, at, x, j) = v
    BY ValueToldSoon
<1>2. PICK kp \in Nat : \A j \in Nat : kp <= j /\ ~Thrown(p) => ValueMeans(e.parameter, in, x, j) = p
    BY ValueToldSoon
<1>3. PICK ko \in Nat : \A j \in Nat : ko <= j /\ ~Thrown(o) =>
            TypeMeans(e.body, With(v, p.type, None), x, j) = o
    BY TypeToldSoon
<1> DEFINE j == kv + kp + ko
           w == ValueMeans(e.bound, at, x, j)
           q == ValueMeans(e.parameter, [at EXCEPT !.bound = w], x, j)
           u == TypeMeans(e.body, With(w, q.type, None), x, j)
<1>4. j \in Nat /\ kv <= j /\ kp <= j /\ ko <= j
    OBVIOUS
<1> HIDE DEF j
<1>5. Forgetful(Truth, x) /\ Forgetful(Meaning[j], x)
    BY <1>4, MeaningForgets, TruthForgets
<1>6. /\ TypeOfLambda(e, at, EmptyTable(x), Truth).out = LambdaType(v, p, o)
      /\ EvaluateLambda(e, at, EmptyTable(x), Truth).out = LambdaValue(v, e.body)
    BY <1>5, LambdaAlone DEF TrueValue, TrueType
<1>7. /\ TypeOfLambda(e, at, EmptyTable(x), Meaning[j]).out = LambdaType(w, q, u)
      /\ EvaluateLambda(e, at, EmptyTable(x), Meaning[j]).out = LambdaValue(w, e.body)
    BY <1>5, LambdaAlone DEF ValueMeans, TypeMeans
<1>8. ~Thrown(v) => w = v
    BY <1>1, <1>4
<1>9. ~Thrown(v) /\ ~Thrown(p) => q = p
    BY <1>2, <1>4, <1>8
<1>10. ~Thrown(v) /\ ~Thrown(p) /\ ~Thrown(o) => u = o
    BY <1>3, <1>4, <1>8, <1>9
<1> HIDE DEF v, p, o, w, q, u, in
<1>11. Thrown(LambdaValue(v, e.body)) \/ LambdaValue(w, e.body) = LambdaValue(v, e.body)
    BY <1>8 DEF LambdaValue
<1>12. Thrown(LambdaType(v, p, o)) \/ LambdaType(w, q, u) = LambdaType(v, p, o)
    BY <1>8, <1>9, <1>10 DEF LambdaType
<1>13. QED BY <1>4, <1>6, <1>7, <1>11, <1>12

LEMMA TruthOfCall ==
    ASSUME NEW e, NEW at, NEW x
    PROVE  \E j \in Nat :
        Thrown(TypeOfCall(e, at, EmptyTable(x), Truth).out)
        \/ TypeOfCall(e, at, EmptyTable(x), Meaning[j]).out
            = TypeOfCall(e, at, EmptyTable(x), Truth).out
<1> DEFINE c == TrueType(e.callee, at, x)
           f == TrueValue(e.callee, at, x)
           a == TrueValue(e.argument, at, x)
           o == TrueType(f.body, With(f.bound, None, a), x)
<1>1. PICK kc \in Nat : \A j \in Nat : kc <= j /\ ~Thrown(c) => TypeMeans(e.callee, at, x, j) = c
    BY TypeToldSoon
<1>2. PICK kf \in Nat : \A j \in Nat : kf <= j /\ ~Thrown(f) => ValueMeans(e.callee, at, x, j) = f
    BY ValueToldSoon
<1>3. PICK ka \in Nat : \A j \in Nat : ka <= j /\ ~Thrown(a) => ValueMeans(e.argument, at, x, j) = a
    BY ValueToldSoon
<1>4. PICK ko \in Nat : \A j \in Nat : ko <= j /\ ~Thrown(o) =>
            TypeMeans(f.body, With(f.bound, None, a), x, j) = o
    BY TypeToldSoon
<1> DEFINE j == kc + kf + ka + ko
           d == TypeMeans(e.callee, at, x, j)
           g == ValueMeans(e.callee, at, x, j)
           b == ValueMeans(e.argument, at, x, j)
           u == TypeMeans(g.body, With(g.bound, None, b), x, j)
<1>5. j \in Nat /\ kc <= j /\ kf <= j /\ ka <= j /\ ko <= j
    OBVIOUS
<1> HIDE DEF j
<1>6. Forgetful(Truth, x) /\ Forgetful(Meaning[j], x)
    BY <1>5, MeaningForgets, TruthForgets
<1>7. TypeOfCall(e, at, EmptyTable(x), Truth).out = CallType(c, f, a, o)
    BY <1>6, CallAlone DEF TrueValue, TrueType
<1>8. TypeOfCall(e, at, EmptyTable(x), Meaning[j]).out = CallType(d, g, b, u)
    BY <1>6, CallAlone DEF ValueMeans, TypeMeans
<1>9. /\ ~Thrown(c) => d = c
      /\ ~Thrown(f) => g = f
      /\ ~Thrown(a) => b = a
    BY <1>1, <1>2, <1>3, <1>5
<1>10. ~Thrown(f) /\ ~Thrown(a) /\ ~Thrown(o) => u = o
    BY <1>4, <1>5, <1>9
<1> HIDE DEF c, f, a, o, d, g, b, u
<1>11. Thrown(CallType(c, f, a, o)) \/ CallType(d, g, b, u) = CallType(c, f, a, o)
    BY <1>9, <1>10 DEF CallType
<1>12. QED BY <1>5, <1>7, <1>8, <1>11

LEMMA TruthOfParts ==
    ASSUME NEW e, NEW at, NEW x, AskType(e, at, EmptyTable(x)) \in Questions
    PROVE  /\ LET o == TypeOf(e, at, EmptyTable(x), Truth).out IN
              Thrown(o) \/ TrueType(e, at, x) = o
           /\ LET o == Evaluate(e, at, EmptyTable(x), Truth).out IN
              Thrown(o) \/ TrueValue(e, at, x) = o
<1> DEFINE t == EmptyTable(x)
           o == TypeOf(e, at, t, Truth).out
           v == Evaluate(e, at, t, Truth).out
<1>1. SUFFICES /\ \E j \in Nat : Thrown(o) \/ TypeOf(e, at, t, Meaning[j]).out = o
               /\ \E j \in Nat : Thrown(v) \/ Evaluate(e, at, t, Meaning[j]).out = v
  <2> HIDE DEF o, v
  <2>1. ASSUME NEW j \in Nat, Thrown(o) \/ TypeOf(e, at, t, Meaning[j]).out = o
        PROVE  Thrown(o) \/ TrueType(e, at, x) = o
    BY <2>1, TruthTold
  <2>2. ASSUME NEW j \in Nat, Thrown(v) \/ Evaluate(e, at, t, Meaning[j]).out = v
        PROVE  Thrown(v) \/ TrueValue(e, at, x) = v
    BY <2>2, TruthTold
  <2>3. QED BY <2>1, <2>2, <1>1 DEF o, v
<1>2. CASE e.k = "lambda"
  <2>1. PICK j \in Nat :
            /\ Thrown(TypeOfLambda(e, at, t, Truth).out)
               \/ TypeOfLambda(e, at, t, Meaning[j]).out = TypeOfLambda(e, at, t, Truth).out
            /\ Thrown(EvaluateLambda(e, at, t, Truth).out)
               \/ EvaluateLambda(e, at, t, Meaning[j]).out = EvaluateLambda(e, at, t, Truth).out
    BY TruthOfLambda
  <2>2. /\ \A A : TypeOf(e, at, t, A) = TypeOfLambda(e, at, t, A)
        /\ \A A : Evaluate(e, at, t, A) = EvaluateLambda(e, at, t, A)
    BY <1>2 DEF TypeOf, Evaluate
  <2>3. QED BY <2>1, <2>2
<1>3. CASE e.k = "call"
  <2>1. PICK j \in Nat :
            Thrown(TypeOfCall(e, at, t, Truth).out)
            \/ TypeOfCall(e, at, t, Meaning[j]).out = TypeOfCall(e, at, t, Truth).out
    BY TruthOfCall
  <2>2. /\ \A A : TypeOf(e, at, t, A) = TypeOfCall(e, at, t, A)
        /\ \A A : Evaluate(e, at, t, A) = Yield(NotImplemented, t)
    BY <1>3 DEF TypeOf, Evaluate
  <2>3. QED BY <2>1, <2>2
<1>4. CASE e.k = "return"
  <2>1. PICK j \in Nat : ~Thrown(TrueType(e.result, at, x)) =>
                TypeMeans(e.result, at, x, j) = TrueType(e.result, at, x)
    BY TypeToldSoon
  <2>2. /\ \A A : TypeOf(e, at, t, A) = Answer(AskType(e.result, at, t), A)
        /\ \A A : Evaluate(e, at, t, A) = Yield(NotImplemented, t)
    BY <1>4 DEF TypeOf, Evaluate
  <2>3. QED BY <2>1, <2>2 DEF TypeMeans, TrueType
<1>5. CASE e.k = "local_symbol"
  <2> DEFINE f == Exported(e.name, t)
  <2>1. PICK k \in Nat : ~Thrown(TrueType(f, at, x)) => TypeMeans(f, at, x, k) = TrueType(f, at, x)
    BY TypeToldSoon
  <2>2. PICK j \in Nat : ~Thrown(TrueValue(f, at, x)) =>
                ValueMeans(f, at, x, j) = TrueValue(f, at, x)
    BY ValueToldSoon
  <2>3. /\ \A A : TypeOf(e, at, t, A) = SymbolTypeOf(e.name, at, t, A)
        /\ \A A : Evaluate(e, at, t, A) = SymbolEvaluate(e.name, at, t, A)
    BY <1>5 DEF TypeOf, Evaluate
  <2>4. Forgetful(Truth, x) /\ Forgetful(Meaning[k], x) /\ Forgetful(Meaning[j], x)
    BY MeaningForgets, TruthForgets
  <2>5. \A A : Forgetful(A, x) =>
            /\ SymbolTypeOf(e.name, at, t, A).out =
                IF e.name \in Symbols THEN Answer(AskType(f, at, t), A).out ELSE NotImplemented
            /\ SymbolEvaluate(e.name, at, t, A).out =
                IF e.name \in Symbols THEN Answer(AskValue(f, at, t), A).out ELSE NotImplemented
    BY SymbolAlone
  <2> HIDE DEF t
  <2>6. Thrown(o) \/ TypeOf(e, at, t, Meaning[k]).out = o
    BY <2>1, <2>3, <2>4, <2>5, KindsDiffer DEF TypeMeans, TrueType, t
  <2>7. Thrown(v) \/ Evaluate(e, at, t, Meaning[j]).out = v
    BY <2>2, <2>3, <2>4, <2>5, KindsDiffer DEF ValueMeans, TrueValue, t
  <2>8. QED BY <2>6, <2>7
<1>6. CASE e.k \notin {"lambda", "call", "return", "local_symbol"}
  <2>1. \A A : TypeOf(e, at, t, A) = TypeOf(e, at, t, Truth)
    BY <1>6 DEF TypeOf
  <2>2. \A A : Evaluate(e, at, t, A) = Evaluate(e, at, t, Truth)
    BY <1>6 DEF Evaluate
  <2>3. QED BY <2>1, <2>2
<1>7. QED BY <1>2, <1>3, <1>4, <1>5, <1>6

----------------------------------------------------------------------------
(* What a symbol makes of the answer about its export                       *)

(* The type out of s was found, unless there is none.                       *)
Finds(t, u, s, out) ==
    /\ IsTable(u) /\ u.exports = t.exports /\ u.evaluated = t.evaluated \ {s}
    /\ \A o \in Symbols :
          u.known_type[o] = IF o = s /\ IsSome(out) THEN out ELSE t.known_type[o]

LEMMA SymbolTypeOutcome ==
    ASSUME NEW answers, NEW s, NEW at, NEW t, IsTable(t),
           NEW r, r = SymbolTypeOf(s, at, t, answers),
           NEW a, a = Answer(AskType(Exported(s, t), at, Mark(s, t)), answers), IsTable(a.table)
    PROVE  /\ s \notin Symbols \/ s \in t.evaluated => Thrown(r.out) /\ r.table = t
           /\ s \in Known(t) /\ s \notin t.evaluated => r.out = t.known_type[s] /\ r.table = t
           /\ s \in Symbols \ Known(t) /\ s \notin t.evaluated =>
                r.out = a.out /\ Finds(a.table, r.table, s, a.out)
<1> DEFINE l == Leave(s, a)
           u == [l.table EXCEPT !.known_type[s] = l.out]
<1>1. s \notin Symbols \/ s \in t.evaluated => Thrown(r.out) /\ r.table = t
    BY KindsDiffer, YieldFields DEF SymbolTypeOf
<1>2. s \in Known(t) /\ s \notin t.evaluated => r.out = t.known_type[s] /\ r.table = t
    BY YieldFields DEF SymbolTypeOf, Known
<1>3. ASSUME s \in Symbols \ Known(t), s \notin t.evaluated
      PROVE  r.out = a.out /\ Finds(a.table, r.table, s, a.out)
  <2>1. l.out = a.out /\ l.table = Unmark(s, a.table)
    BY YieldFields DEF Leave
  <2>2. /\ IsTable(l.table) /\ l.table.exports = a.table.exports
        /\ l.table.known_type = a.table.known_type
        /\ l.table.evaluated = a.table.evaluated \ {s}
    BY <2>1, MarkedTable
  <2>3. r = IF IsSome(l.out) THEN Yield(l.out, u) ELSE l
    BY <1>3 DEF SymbolTypeOf, Known
  <2> HIDE DEF l
  <2>4. /\ IsTable(u) /\ u.exports = l.table.exports /\ u.evaluated = l.table.evaluated
        /\ u.known_type = [l.table.known_type EXCEPT ![s] = l.out]
    BY <1>3, <2>2 DEF IsTable
  <2> HIDE DEF u
  <2>5. \A o \in Symbols : u.known_type[o] = IF o = s THEN l.out ELSE l.table.known_type[o]
    BY <1>3, <2>2, <2>4 DEF IsTable
  <2>6. CASE IsSome(a.out)
    <3>1. r = Yield(l.out, u)
        BY <2>1, <2>3, <2>6
    <3>2. r.out = a.out /\ r.table = u
        BY <2>1, <3>1, YieldFields
    <3>3. \A o \in Symbols : u.known_type[o] = IF o = s /\ IsSome(a.out) THEN a.out
                                                        ELSE a.table.known_type[o]
        BY <2>1, <2>2, <2>5, <2>6
    <3>4. QED BY <2>2, <2>4, <3>2, <3>3 DEF Finds
  <2>7. CASE ~IsSome(a.out)
    BY <2>1, <2>2, <2>3, <2>7 DEF Finds
  <2>8. QED BY <2>6, <2>7
<1>4. QED BY <1>1, <1>2, <1>3

LEMMA SymbolValueOutcome ==
    ASSUME NEW answers, NEW s, NEW at, NEW t, IsTable(t),
           NEW r, r = SymbolEvaluate(s, at, t, answers),
           NEW a, a = Answer(AskValue(Exported(s, t), at, Mark(s, t)), answers), IsTable(a.table)
    PROVE  /\ s \notin Symbols \/ s \in t.evaluated => Thrown(r.out) /\ r.table = t
           /\ s \in Symbols /\ s \notin t.evaluated =>
                /\ r.out = a.out
                /\ IsTable(r.table) /\ r.table.exports = a.table.exports
                /\ r.table.evaluated = a.table.evaluated \ {s}
                /\ r.table.known_type = a.table.known_type
<1> DEFINE l == Leave(s, a)
           u == [l.table EXCEPT !.known_value[s] = l.out]
<1>1. s \notin Symbols \/ s \in t.evaluated => Thrown(r.out) /\ r.table = t
    BY KindsDiffer, YieldFields DEF SymbolEvaluate
<1>2. ASSUME s \in Symbols, s \notin t.evaluated
      PROVE  /\ r.out = a.out
             /\ IsTable(r.table) /\ r.table.exports = a.table.exports
             /\ r.table.evaluated = a.table.evaluated \ {s}
             /\ r.table.known_type = a.table.known_type
  <2>1. l.out = a.out /\ l.table = Unmark(s, a.table)
    BY YieldFields DEF Leave
  <2>2. /\ IsTable(l.table) /\ l.table.exports = a.table.exports
        /\ l.table.known_type = a.table.known_type
        /\ l.table.evaluated = a.table.evaluated \ {s}
    BY <2>1, MarkedTable
  <2>3. r = IF IsSome(l.out) THEN Yield(l.out, u) ELSE l
    BY <1>2 DEF SymbolEvaluate
  <2> HIDE DEF l
  <2>4. /\ IsTable(u) /\ u.exports = l.table.exports /\ u.evaluated = l.table.evaluated
        /\ u.known_type = l.table.known_type
    BY <2>2 DEF IsTable
  <2> HIDE DEF u
  <2>5. CASE IsSome(l.out)
    BY <2>1, <2>2, <2>3, <2>4, <2>5, YieldFields
  <2>6. CASE ~IsSome(l.out)
    BY <2>1, <2>2, <2>3, <2>6
  <2>7. QED BY <2>5, <2>6
<1>3. QED BY <1>1, <1>2

(* What a table knows depends on the exports and the known types alone.     *)
LEMMA KnowledgeDepends ==
    ASSUME NEW t, NEW u, IsTable(u), u.exports = t.exports, u.known_type = t.known_type, NEW x
    PROVE  /\ Known(u) = Known(t)
           /\ Just(t, x) => Just(u, x)
           /\ Complete(t, x) => Complete(u, x)
<1>1. Known(u) = Known(t) /\ \A s : Exported(s, u) = Exported(s, t)
    BY DEF Known, Exported
<1>2. QED BY <1>1 DEF Just, Complete

LEMMA MarkedKnowledge ==
    ASSUME NEW t, IsTable(t), NEW s, NEW x
    PROVE  /\ Known(Mark(s, t)) = Known(t)
           /\ Just(t, x) => Just(Mark(s, t), x)
           /\ Complete(t, x) => Complete(Mark(s, t), x)
BY MarkedTable, KnowledgeDepends

LEMMA KnownGrows ==
    ASSUME NEW t, NEW u, NEW s \in Symbols, NEW out, Finds(t, u, s, out)
    PROVE  /\ Known(u) = IF IsSome(out) THEN Known(t) \cup {s} ELSE Known(t)
           /\ \A o : Exported(o, u) = Exported(o, t)
<1>1. Known(u) = IF IsSome(out) THEN Known(t) \cup {s} ELSE Known(t)
    BY DEF Known, Finds
<1>2. \A o : Exported(o, u) = Exported(o, t)
    BY DEF Exported, Finds
<1>3. QED BY <1>1, <1>2

LEMMA JustGrows ==
    ASSUME NEW t, NEW u, NEW s \in Symbols, NEW out, Finds(t, u, s, out), NEW x, Just(t, x),
           \A at \in Contexts : out = TrueType(Exported(s, t), at, x)
    PROVE  Just(u, x)
<1>1. ASSUME NEW o \in Known(u), NEW at \in Contexts
      PROVE  u.known_type[o] = TrueType(Exported(o, u), at, x)
  <2>1. o \in Symbols /\ Exported(o, u) = Exported(o, t)
    BY KnownGrows DEF Known
  <2>2. CASE o = s /\ IsSome(out)
    BY <2>1, <2>2 DEF Finds
  <2>3. CASE ~(o = s /\ IsSome(out))
    <3>1. u.known_type[o] = t.known_type[o]
        BY <2>1, <2>3 DEF Finds
    <3>2. o \in Known(t)
        BY <3>1, <1>1 DEF Known
    <3>3. QED BY <2>1, <3>1, <3>2 DEF Just
  <2>4. QED BY <2>2, <2>3
<1>2. QED BY <1>1 DEF Just, Finds

----------------------------------------------------------------------------
(* Closed exports mean the same wherever they are used                      *)

Closed(x) == \A i \in DOMAIN Keys : IsClosed(x[i])

LEMMA ExportedIsClosed ==
    ASSUME NEW t, Closed(t.exports), NEW s \in Symbols PROVE IsClosed(Exported(s, t))
<1> DEFINE First(i) == Keys[i] = s /\ \A j \in 1 .. i - 1 : Keys[j] # s
           T == {n \in Nat : \A i \in DOMAIN Keys : i <= n /\ Keys[i] = s =>
                                \E j \in DOMAIN Keys : First(j)}
<1>1. DOMAIN Keys = 1 .. Len(Keys) /\ Len(Keys) \in Nat
    BY KeysAreNames
<1>2. 0 \in T
    BY <1>1
<1>3. ASSUME NEW n \in Nat, n \in T PROVE n + 1 \in T
  <2> SUFFICES ASSUME NEW i \in DOMAIN Keys, i <= n + 1, Keys[i] = s
               PROVE  \E j \in DOMAIN Keys : First(j)
    OBVIOUS
  <2>1. CASE First(i)
    BY <2>1
  <2>2. CASE ~First(i)
    <3>1. PICK j \in 1 .. i - 1 : Keys[j] = s
        BY <2>2
    <3>2. j \in DOMAIN Keys /\ j <= n
        BY <1>1, <3>1
    <3>3. QED BY <1>3, <3>1, <3>2
  <2>3. QED BY <2>1, <2>2
<1> HIDE DEF T
<1>4. \A n \in Nat : n \in T
    BY <1>2, <1>3, SetInduction
<1>5. PICK i \in DOMAIN Keys : Keys[i] = s
    BY DEF Symbols
<1>6. \E j \in DOMAIN Keys : First(j)
    BY <1>1, <1>4, <1>5 DEF T
<1>7. (CHOOSE j \in DOMAIN Keys : First(j)) \in DOMAIN Keys
    BY <1>6
<1>8. Exported(s, t) = t.exports[CHOOSE j \in DOMAIN Keys : First(j)]
    BY DEF Exported
<1>9. QED BY <1>7, <1>8 DEF Closed

LEMMA ClosedTruth ==
    ASSUME NEW e, IsClosed(e), NEW at1 \in Contexts, NEW at2 \in Contexts, NEW x,
           ~Thrown(TrueType(e, at1, x))
    PROVE  TrueType(e, at2, x) = TrueType(e, at1, x)
<1>1. PICK k \in Nat : TypeMeans(e, at1, x, k) = TrueType(e, at1, x)
    BY TypeToldSoon
<1>2. Sim("meaning", x, Symbols, Meaning[k], Meaning[k + 1])
    BY MeaningNext
<1>3. /\ Related("meaning", x, Symbols, EmptyTable(x), EmptyTable(x))
      /\ SameFor(e, at1, at2)
      /\ \A u : Known(u) \subseteq Symbols
      /\ \A out : ~Excused("meaning", out)
    BY DEF Related, SameFor, Known, Excused
<1>4. Keeps("meaning", x, Symbols, Answer(AskType(e, at1, EmptyTable(x)), Meaning[k]),
            Answer(AskType(e, at2, EmptyTable(x)), Meaning[k + 1]))
    BY <1>2, <1>3, CallKeeps
<1>5. TypeMeans(e, at2, x, k + 1) = TypeMeans(e, at1, x, k)
    BY <1>1, <1>3, <1>4 DEF Keeps, TypeMeans
<1>6. QED BY <1>1, <1>5, TruthHolds

----------------------------------------------------------------------------
(* What a table answers without throwing is the truth                       *)

LEMMA SymbolIsMeant ==
    ASSUME NEW x, Closed(x), NEW A, AreHonest(A), Sim("meant", x, Symbols, A, Truth),
           NEW s, NEW at \in Contexts, NEW t, Just(t, x)
    PROVE  /\ LET r == SymbolTypeOf(s, at, t, A) IN
              \/ Thrown(r.out)
              \/ s \in Symbols /\ r.out = TrueType(Exported(s, t), at, x) /\ Just(r.table, x)
           /\ LET r == SymbolEvaluate(s, at, t, A) IN
              \/ Thrown(r.out)
              \/ s \in Symbols /\ r.out = TrueValue(Exported(s, t), at, x) /\ Just(r.table, x)
<1> DEFINE f == Exported(s, t)
           r == SymbolTypeOf(s, at, t, A)
           a == Answer(AskType(f, at, Mark(s, t)), A)
           v == SymbolEvaluate(s, at, t, A)
           b == Answer(AskValue(f, at, Mark(s, t)), A)
<1>1. IsTable(t) /\ t.exports = x /\ IsTable(Mark(s, t)) /\ Just(Mark(s, t), x)
    BY MarkedTable, MarkedKnowledge DEF Just
<1>2. IsTable(a.table) /\ IsTable(b.table)
    BY <1>1, AskTypeIsHonest, AskValueIsHonest
<1>3. /\ Thrown(a.out) \/ (a.out = TrueType(f, at, x) /\ Just(a.table, x))
      /\ Thrown(b.out) \/ (b.out = TrueValue(f, at, x) /\ Just(b.table, x))
  <2>1. /\ Related("meant", x, Symbols, Mark(s, t), EmptyTable(x)) /\ SameFor(f, at, at)
        /\ \A u : Known(u) \subseteq Symbols
        /\ \A out : ~Excused("meant", out)
    BY <1>1 DEF Related, SameFor, Known, Excused
  <2>2. /\ Keeps("meant", x, Symbols, a, Answer(AskType(f, at, EmptyTable(x)), Truth))
        /\ Keeps("meant", x, Symbols, b, Answer(AskValue(f, at, EmptyTable(x)), Truth))
    BY <2>1, CallKeeps
  <2> HIDE DEF a, b, f
  <2>3. QED BY <2>1, <2>2 DEF Keeps, Related, TrueType, TrueValue
<1>4. /\ s \notin Symbols \/ s \in t.evaluated => Thrown(r.out)
      /\ s \in Known(t) /\ s \notin t.evaluated => r.out = t.known_type[s] /\ r.table = t
      /\ s \in Symbols \ Known(t) /\ s \notin t.evaluated =>
            r.out = a.out /\ Finds(a.table, r.table, s, a.out)
    BY <1>1, <1>2, SymbolTypeOutcome
<1>5. /\ s \notin Symbols \/ s \in t.evaluated => Thrown(v.out)
      /\ s \in Symbols /\ s \notin t.evaluated =>
            /\ v.out = b.out
            /\ IsTable(v.table) /\ v.table.exports = b.table.exports
            /\ v.table.known_type = b.table.known_type
    BY <1>1, <1>2, SymbolValueOutcome
<1>6. ASSUME s \in Symbols PROVE IsClosed(f)
    BY <1>1, <1>6, ExportedIsClosed
<1>7. ASSUME Just(a.table, x) PROVE Exported(s, a.table) = f
    BY <1>1, <1>7 DEF Just, Exported
<1> HIDE DEF f, r, a, v, b
<1>8. Thrown(v.out) \/ (s \in Symbols /\ v.out = TrueValue(f, at, x) /\ Just(v.table, x))
    BY <1>3, <1>5, KnowledgeDepends
<1>9. Thrown(r.out) \/ (s \in Symbols /\ r.out = TrueType(f, at, x) /\ Just(r.table, x))
  <2>1. CASE s \notin Symbols \/ s \in t.evaluated
    BY <1>4, <2>1
  <2>2. CASE s \in Known(t) /\ s \notin t.evaluated
    <3>1. t.known_type[s] = TrueType(f, at, x) /\ s \in Symbols
        BY <2>2 DEF Just, Known, f
    <3>2. QED BY <1>4, <2>2, <3>1
  <2>3. CASE s \in Symbols \ Known(t) /\ s \notin t.evaluated
    <3> SUFFICES ASSUME ~Thrown(r.out) PROVE r.out = TrueType(f, at, x) /\ Just(r.table, x)
        BY <2>3
    <3>1. a.out = TrueType(f, at, x) /\ Just(a.table, x) /\ ~Thrown(a.out)
        BY <1>3, <1>4, <2>3
    <3>2. \A o \in Contexts : a.out = TrueType(Exported(s, a.table), o, x)
        BY <1>6, <1>7, <2>3, <3>1, ClosedTruth
    <3>3. Just(r.table, x)
        BY <1>4, <2>3, <3>1, <3>2, JustGrows
    <3>4. QED BY <1>4, <2>3, <3>1, <3>3
  <2>4. QED BY <2>1, <2>2, <2>3 DEF Known
<1>10. QED BY <1>8, <1>9 DEF f, r, v

(* What a call with stack for n answers is the truth.                       *)
Truthful(A, x) ==
    \A e \in Terms[MaxHeight].expressions, at1 \in Contexts, at2 \in Contexts : \A t :
        SameFor(e, at1, at2) /\ Just(t, x) =>
            /\ LET r == Answer(AskType(e, at1, t), A) IN
               Thrown(r.out) \/ (r.out = TrueType(e, at2, x) /\ Just(r.table, x))
            /\ LET r == Answer(AskValue(e, at1, t), A) IN
               Thrown(r.out) \/ (r.out = TrueValue(e, at2, x) /\ Just(r.table, x))

LEMMA TruthfulSim ==
    ASSUME NEW A, NEW x, Truthful(A, x) PROVE Sim("meant", x, Symbols, A, Truth)
<1> SUFFICES ASSUME NEW e \in Terms[MaxHeight].expressions,
                    NEW at1 \in Contexts, NEW at2 \in Contexts, SameFor(e, at1, at2),
                    NEW t, Just(t, x)
             PROVE  /\ Keeps("meant", x, Symbols, Answer(AskType(e, at1, t), A),
                             Answer(AskType(e, at2, EmptyTable(x)), Truth))
                    /\ Keeps("meant", x, Symbols, Answer(AskValue(e, at1, t), A),
                             Answer(AskValue(e, at2, EmptyTable(x)), Truth))
    BY DEF Sim, Related
<1>1. /\ Answer(AskType(e, at2, EmptyTable(x)), Truth).table = EmptyTable(x)
      /\ Answer(AskValue(e, at2, EmptyTable(x)), Truth).table = EmptyTable(x)
    BY TruthForgets DEF Forgetful
<1>2. QED BY <1>1 DEF Truthful, Keeps, Related, TrueType, TrueValue

LEMMA OneCallIsTruthful ==
    ASSUME NEW x, Closed(x), NEW A, AreHonest(A), Truthful(A, x),
           NEW e \in Terms[MaxHeight].expressions, NEW at1 \in Contexts, NEW at2 \in Contexts,
           SameFor(e, at1, at2), NEW t, Just(t, x), AskType(e, at2, EmptyTable(x)) \in Questions
    PROVE  /\ LET r == TypeOf(e, at1, t, A) IN
              Thrown(r.out) \/ (r.out = TrueType(e, at2, x) /\ Just(r.table, x))
           /\ LET r == Evaluate(e, at1, t, A) IN
              Thrown(r.out) \/ (r.out = TrueValue(e, at2, x) /\ Just(r.table, x))
<1> DEFINE r == TypeOf(e, at1, t, A)
           v == Evaluate(e, at1, t, A)
           w == TypeOf(e, at2, EmptyTable(x), Truth)
           y == Evaluate(e, at2, EmptyTable(x), Truth)
<1>1. Sim("meant", x, Symbols, A, Truth)
    BY TruthfulSim
<1>2. (Thrown(w.out) \/ TrueType(e, at2, x) = w.out) /\ (Thrown(y.out) \/ TrueValue(e, at2, x) = y.out)
    BY TruthOfParts
<1>3. CASE e.k # "local_symbol"
  <2>1. /\ Related("meant", x, Symbols, t, EmptyTable(x))
        /\ Sound(Symbols, t) /\ Remembers(Symbols, A)
        /\ \A u : Known(u) \subseteq Symbols
        /\ \A out : ~Excused("meant", out)
    BY DEF Related, Sound, Remembers, Known, Excused
  <2>2. Keeps("meant", x, Symbols, r, w) /\ Keeps("meant", x, Symbols, v, y)
    BY <1>1, <1>3, <2>1, ExpressionKeeps
  <2> HIDE DEF r, v, w, y
  <2>3. /\ Thrown(r.out) \/ (r.out = w.out /\ Just(r.table, x))
        /\ Thrown(v.out) \/ (v.out = y.out /\ Just(v.table, x))
    BY <2>1, <2>2 DEF Keeps, Related
  <2>4. /\ Thrown(r.out) \/ (r.out = TrueType(e, at2, x) /\ Just(r.table, x))
        /\ Thrown(v.out) \/ (v.out = TrueValue(e, at2, x) /\ Just(v.table, x))
    BY <1>2, <2>3
  <2>5. QED BY <2>4 DEF r, v
<1>4. CASE e.k = "local_symbol"
  <2> DEFINE s == e.name
             f == Exported(s, t)
  <2>1. at1 = at2
    BY <1>4 DEF SameFor, IsClosed
  <2>2. r = SymbolTypeOf(s, at1, t, A) /\ v = SymbolEvaluate(s, at1, t, A)
    BY <1>4 DEF TypeOf, Evaluate
  <2> HIDE DEF r, v
  <2>3. /\ Thrown(r.out) \/ (s \in Symbols /\ r.out = TrueType(f, at1, x) /\ Just(r.table, x))
        /\ Thrown(v.out) \/ (s \in Symbols /\ v.out = TrueValue(f, at1, x) /\ Just(v.table, x))
    <3>1. /\ LET z == SymbolTypeOf(s, at1, t, A) IN
             \/ Thrown(z.out)
             \/ s \in Symbols /\ z.out = TrueType(Exported(s, t), at1, x) /\ Just(z.table, x)
          /\ LET z == SymbolEvaluate(s, at1, t, A) IN
             \/ Thrown(z.out)
             \/ s \in Symbols /\ z.out = TrueValue(Exported(s, t), at1, x) /\ Just(z.table, x)
        BY <1>1, SymbolIsMeant
    <3>2. QED BY <2>2, <3>1
  <2>4. f = Exported(s, EmptyTable(x))
    BY EmptyIsTable DEF Exported, Just
  <2>5. /\ w = SymbolTypeOf(s, at2, EmptyTable(x), Truth)
        /\ y = SymbolEvaluate(s, at2, EmptyTable(x), Truth)
    BY <1>4 DEF TypeOf, Evaluate
  <2>6. Forgetful(Truth, x)
    BY TruthForgets
  <2> HIDE DEF f
  <2>7. s \in Symbols => w.out = TrueType(f, at2, x) /\ y.out = TrueValue(f, at2, x)
    BY <2>4, <2>5, <2>6, SymbolAlone DEF TrueType, TrueValue
  <2> HIDE DEF w, y
  <2>8. /\ Thrown(r.out) \/ (r.out = TrueType(e, at2, x) /\ Just(r.table, x))
        /\ Thrown(v.out) \/ (v.out = TrueValue(e, at2, x) /\ Just(v.table, x))
    BY <1>2, <2>1, <2>3, <2>7
  <2>9. QED BY <2>8 DEF r, v
<1>5. QED BY <1>3, <1>4

(* What the calls of a stack for n are: n calls, one of them outermost.     *)
LEMMA AnswerUnfold ==
    ASSUME NEW n \in Nat, NEW e, NEW at, NEW t
    PROVE  /\ AskType(e, at, t) \notin Questions =>
                /\ Answer(AskType(e, at, t), Answers[n]) = Yield(OutOfMemory, t)
                /\ Answer(AskValue(e, at, t), Answers[n]) = Yield(OutOfMemory, t)
           /\ AskType(e, at, t) \in Questions =>
                /\ Answer(AskType(e, at, t), Answers[0]) = Yield(StackOverflow, t)
                /\ Answer(AskValue(e, at, t), Answers[0]) = Yield(StackOverflow, t)
                /\ Answer(AskType(e, at, t), Answers[n + 1]) = TypeOf(e, at, t, Answers[n])
                /\ Answer(AskValue(e, at, t), Answers[n + 1]) = Evaluate(e, at, t, Answers[n])
<1> DEFINE p == AskType(e, at, t)
           q == AskValue(e, at, t)
<1>1. /\ p \in Questions <=> q \in Questions
      /\ p.ask = "type_of" /\ p.of = e /\ p.at = at /\ p.table = t
      /\ q.ask = "evaluate" /\ q.of = e /\ q.at = at /\ q.table = t
    BY AskFields
<1>2. Answers[0] = NoCall /\ Answers[n + 1] = OneCall(Answers[n])
    BY AnswersUnfold
<1> HIDE DEF p, q
<1>3. p \notin Questions => /\ Answer(p, Answers[n]) = Yield(OutOfMemory, t)
                            /\ Answer(q, Answers[n]) = Yield(OutOfMemory, t)
    BY <1>1 DEF Answer
<1>4. ASSUME p \in Questions
      PROVE  /\ Answer(p, Answers[0]) = Yield(StackOverflow, t)
             /\ Answer(q, Answers[0]) = Yield(StackOverflow, t)
             /\ Answer(p, Answers[n + 1]) = TypeOf(e, at, t, Answers[n])
             /\ Answer(q, Answers[n + 1]) = Evaluate(e, at, t, Answers[n])
    BY <1>1, <1>2, <1>4 DEF Answer, NoCall, OneCall
<1>5. QED BY <1>3, <1>4 DEF p, q

LEMMA AnswersAreTruthful ==
    ASSUME NEW x, Closed(x) PROVE \A n \in Nat : Truthful(Answers[n], x)
<1> DEFINE T == {n \in Nat : Truthful(Answers[n], x)}
<1>1. ASSUME NEW n \in Nat, NEW e, NEW at, NEW t, AskType(e, at, t) \notin Questions
      PROVE  /\ Thrown(Answer(AskType(e, at, t), Answers[n]).out)
             /\ Thrown(Answer(AskValue(e, at, t), Answers[n]).out)
    BY <1>1, AnswerUnfold, KindsDiffer, YieldFields
<1>2. 0 \in T
  <2>1. \A e, at, t : /\ Thrown(Answer(AskType(e, at, t), Answers[0]).out)
                      /\ Thrown(Answer(AskValue(e, at, t), Answers[0]).out)
    BY <1>1, AnswerUnfold, KindsDiffer, YieldFields
  <2>2. QED BY <2>1 DEF Truthful
<1>3. ASSUME NEW n \in Nat, n \in T PROVE n + 1 \in T
  <2> SUFFICES ASSUME NEW e \in Terms[MaxHeight].expressions,
                      NEW at1 \in Contexts, NEW at2 \in Contexts, SameFor(e, at1, at2),
                      NEW t, Just(t, x)
               PROVE  /\ LET r == Answer(AskType(e, at1, t), Answers[n + 1]) IN
                         Thrown(r.out) \/ (r.out = TrueType(e, at2, x) /\ Just(r.table, x))
                      /\ LET r == Answer(AskValue(e, at1, t), Answers[n + 1]) IN
                         Thrown(r.out) \/ (r.out = TrueValue(e, at2, x) /\ Just(r.table, x))
    BY DEF Truthful
  <2>1. CASE AskType(e, at1, t) \notin Questions
    BY <1>1, <2>1
  <2>2. CASE AskType(e, at1, t) \in Questions
    <3>1. t \in Tables /\ x \in Modules
        BY <2>2, AskFields DEF Tables, Just
    <3>2. AskType(e, at2, EmptyTable(x)) \in Questions
        BY <3>1, AskFields, EmptyIsTable
    <3>3. AreHonest(Answers[n])
        BY AnswersAreHonest
    <3>4. /\ Answer(AskType(e, at1, t), Answers[n + 1]) = TypeOf(e, at1, t, Answers[n])
          /\ Answer(AskValue(e, at1, t), Answers[n + 1]) = Evaluate(e, at1, t, Answers[n])
        BY <2>2, AnswerUnfold
    <3>5. QED BY <1>3, <3>2, <3>3, <3>4, OneCallIsTruthful
  <2>3. QED BY <2>1, <2>2
<1> HIDE DEF T
<1>4. \A n \in Nat : n \in T
    BY <1>2, <1>3, SetInduction
<1>5. QED BY <1>4 DEF T

LEMMA AnswersAreMeant ==
    ASSUME NEW x, Closed(x), NEW n \in Nat, NEW e, NEW at, NEW t, Just(t, x)
    PROVE  /\ LET r == Answer(AskType(e, at, t), Answers[n]) IN
              Thrown(r.out) \/ (r.out = TrueType(e, at, x) /\ Just(r.table, x))
           /\ LET r == Answer(AskValue(e, at, t), Answers[n]) IN
              Thrown(r.out) \/ (r.out = TrueValue(e, at, x) /\ Just(r.table, x))
<1>1. CASE AskType(e, at, t) \notin Questions
    BY <1>1, AnswerUnfold, KindsDiffer, YieldFields
<1>2. CASE AskType(e, at, t) \in Questions
  <2>1. e \in Terms[MaxHeight].expressions /\ at \in Contexts /\ SameFor(e, at, at)
    BY <1>2, AskFields DEF SameFor
  <2>2. QED BY <2>1, AnswersAreTruthful DEF Truthful
<1>3. QED BY <1>1, <1>2

----------------------------------------------------------------------------
(* What is remembered is remembered with all that it took to find it        *)

Retraces(n, x) ==
    \A W \in SUBSET Symbols, m \in Nat : Sim("again", x, W, Answers[n], Answers[m])

(* Finding the type of f again leads to no symbol outside of K.             *)
Settled(f, at, x, K) ==
    \A W \in SUBSET Symbols, m \in Nat, o \in Contexts : \A u :
        LET r == Answer(AskType(f, o, u), Answers[m]) IN
        SameFor(f, at, o) /\ K \subseteq W
        /\ Just(u, x) /\ Known(u) \subseteq W /\ ~Thrown(r.out)
            => Known(r.table) \subseteq W

LEMMA AskedAgain ==
    ASSUME NEW x, NEW n \in Nat, Retraces(n, x), NEW f, NEW at,
           NEW t, Just(t, x), Complete(t, x),
           NEW a, a = Answer(AskType(f, at, t), Answers[n]), ~Thrown(a.out)
    PROVE  /\ Complete(a.table, x)
           /\ Known(t) \subseteq Known(a.table)
           /\ Settled(f, at, x, Known(a.table))
<1>1. AreHonest(Answers[n])
    BY AnswersAreHonest
<1>2. Known(t) \subseteq Known(a.table)
  <2>1. Follows(t, a.table)
    BY <1>1, AskTypeIsHonest DEF Just
  <2>2. QED BY <2>1 DEF Follows, Grows, Known
<1>3. Complete(a.table, x)
  <2> DEFINE V == Known(a.table)
  <2>1. V \in SUBSET Symbols /\ V \subseteq V /\ SameFor(f, at, at) /\ Known(t) \subseteq V
    BY <1>2 DEF Known, SameFor
  <2>2. Sim("again", x, V, Answers[n], Answers[n])
    BY <2>1 DEF Retraces
  <2> HIDE DEF V
  <2>3. Related("again", x, V, t, t)
    BY <2>1 DEF Related
  <2>4. Keeps("again", x, V, a, a)
    BY <2>1, <2>2, <2>3, CallKeeps
  <2>5. QED BY <2>1, <2>4 DEF Keeps, Related, Excused, V
<1>4. Settled(f, at, x, Known(a.table))
  <2> SUFFICES ASSUME NEW W \in SUBSET Symbols, NEW m \in Nat, NEW o \in Contexts,
                      NEW u, SameFor(f, at, o), Known(a.table) \subseteq W,
                      Just(u, x), Known(u) \subseteq W,
                      ~Thrown(Answer(AskType(f, o, u), Answers[m]).out)
               PROVE  Known(Answer(AskType(f, o, u), Answers[m]).table) \subseteq W
    BY DEF Settled
  <2> DEFINE r == Answer(AskType(f, o, u), Answers[m])
  <2>1. Sim("again", x, W, Answers[n], Answers[m])
    BY DEF Retraces
  <2>2. Related("again", x, W, t, u)
    BY DEF Related
  <2>3. Keeps("again", x, W, a, r)
    BY <2>1, <2>2, CallKeeps
  <2>4. QED BY <2>3 DEF Keeps, Related, Excused
<1>5. QED BY <1>2, <1>3, <1>4

LEMMA SymbolRetraces ==
    ASSUME NEW x, Closed(x), NEW n \in Nat, Retraces(n, x), NEW k \in Nat,
           NEW W \in SUBSET Symbols, NEW s, NEW at,
           NEW t1, NEW t2, Related("again", x, W, t1, t2),
           NEW r1, r1 = SymbolTypeOf(s, at, t1, Answers[n]),
           NEW r2, r2 = SymbolTypeOf(s, at, t2, Answers[k]),
           at \in Contexts, r1.out = r2.out,
           ~Thrown(r1.out), ~Thrown(r2.out), Known(r1.table) \subseteq W
    PROVE  Complete(r1.table, x) /\ Known(r2.table) \subseteq W
<1> DEFINE f == Exported(s, t1)
           a1 == Answer(AskType(f, at, Mark(s, t1)), Answers[n])
           a2 == Answer(AskType(f, at, Mark(s, t2)), Answers[k])
<1>1. /\ Just(t1, x) /\ Just(t2, x) /\ Complete(t1, x) /\ Known(t2) \subseteq W
      /\ IsTable(t1) /\ IsTable(t2) /\ t1.exports = x /\ t2.exports = x
    BY DEF Related, Just
<1>2. /\ Just(Mark(s, t1), x) /\ Just(Mark(s, t2), x) /\ Complete(Mark(s, t1), x)
      /\ Known(Mark(s, t1)) = Known(t1) /\ Known(Mark(s, t2)) = Known(t2)
      /\ IsTable(Mark(s, t1)) /\ IsTable(Mark(s, t2))
    BY <1>1, MarkedKnowledge, MarkedTable
<1>3. Exported(s, t2) = f
    BY <1>1 DEF Exported
<1>4. IsTable(a1.table) /\ IsTable(a2.table)
  <2>1. AreHonest(Answers[n]) /\ AreHonest(Answers[k])
    BY AnswersAreHonest
  <2>2. QED BY <1>2, <2>1, AskTypeIsHonest
<1>5. s \in Symbols /\ s \notin t1.evaluated /\ s \notin t2.evaluated
  <2>1. s \notin Symbols \/ s \in t1.evaluated => Thrown(r1.out)
    BY <1>1, <1>4, SymbolTypeOutcome
  <2>2. s \notin Symbols \/ s \in t2.evaluated => Thrown(r2.out)
    BY <1>1, <1>3, <1>4, SymbolTypeOutcome
  <2>3. QED BY <2>1, <2>2
<1>6. IsClosed(f)
    BY <1>1, <1>5, ExportedIsClosed
<1>7. /\ s \in Known(t1) => r1.table = t1
      /\ s \notin Known(t1) =>
            r1.out = a1.out /\ Finds(a1.table, r1.table, s, a1.out)
    BY <1>1, <1>4, <1>5, SymbolTypeOutcome
<1>8. /\ s \in Known(t2) => r2.table = t2
      /\ s \notin Known(t2) =>
            r2.out = a2.out /\ Finds(a2.table, r2.table, s, a2.out)
    BY <1>1, <1>3, <1>4, <1>5, SymbolTypeOutcome
<1> HIDE DEF f, a1, a2
<1>9. s \notin Known(t1) =>
        /\ Known(r1.table) = IF IsSome(a1.out) THEN Known(a1.table) \cup {s} ELSE Known(a1.table)
        /\ \A o : Exported(o, r1.table) = Exported(o, a1.table)
    BY <1>5, <1>7, KnownGrows
<1>10. s \notin Known(t2) =>
        Known(r2.table) = IF IsSome(a2.out) THEN Known(a2.table) \cup {s} ELSE Known(a2.table)
    BY <1>5, <1>8, KnownGrows
<1>11. s \notin Known(t1) =>
        Complete(a1.table, x) /\ Settled(f, at, x, Known(a1.table))
    BY <1>2, <1>7, AskedAgain DEF a1
<1>12. Exported(s, a1.table) = f
  <2>1. AreHonest(Answers[n])
    BY AnswersAreHonest
  <2>2. Follows(Mark(s, t1), a1.table)
    BY <1>2, <2>1, AskTypeIsHonest DEF a1
  <2>3. a1.table.exports = t1.exports
    BY <1>1, <2>2, MarkedTable DEF Follows, Grows
  <2>4. QED BY <2>3 DEF Exported, f
<1>13. CASE s \in Known(t1)
  <2>1. Complete(r1.table, x) /\ Known(t1) \subseteq W
    BY <1>1, <1>7, <1>13
  <2>2. CASE s \in Known(t2)
    BY <1>1, <1>8, <2>1, <2>2
  <2>3. CASE s \notin Known(t2)
    <3>1. ~Thrown(a2.out)
        BY <1>8, <2>3
    <3>2. Known(a2.table) \subseteq W
        BY <1>1, <1>2, <1>13, <2>1, <3>1 DEF Complete, f, a2
    <3>3. QED BY <1>10, <1>13, <2>1, <2>3, <3>2
  <2>4. QED BY <2>1, <2>2, <2>3
<1>14. CASE s \notin Known(t1)
  <2>1. Known(a1.table) \subseteq Known(r1.table)
    BY <1>9, <1>14
  <2>2. Complete(r1.table, x)
    <3> SUFFICES ASSUME NEW o \in Known(r1.table), NEW c \in Contexts, NEW V \in SUBSET Symbols,
                        NEW m \in Nat, NEW u, Just(u, x), Known(r1.table) \subseteq V,
                        Known(u) \subseteq V,
                        NEW r, r = Answer(AskType(Exported(o, r1.table), c, u), Answers[m]),
                        ~Thrown(r.out)
                 PROVE  Known(r.table) \subseteq V
        BY DEF Complete
    <3>1. Exported(o, r1.table) = Exported(o, a1.table) /\ Known(a1.table) \subseteq V
        BY <1>9, <1>14, <2>1
    <3>2. CASE o \in Known(a1.table)
        BY <1>11, <1>14, <3>1, <3>2 DEF Complete
    <3>3. CASE o = s
        <4>1. r = Answer(AskType(f, c, u), Answers[m])
            BY <1>12, <3>1, <3>3
        <4>2. SameFor(f, at, c)
            BY <1>6 DEF SameFor
        <4>3. QED BY <1>11, <1>14, <3>1, <4>1, <4>2 DEF Settled
    <3>4. QED BY <1>9, <1>14, <3>2, <3>3
  <2>3. Known(r2.table) \subseteq W
    <3>1. CASE s \in Known(t2)
        BY <1>1, <1>8, <3>1
    <3>2. CASE s \notin Known(t2)
        <4>1. r2.out = a2.out /\ r1.out = a1.out
            BY <1>7, <1>8, <1>14, <3>2
        <4>2. SameFor(f, at, at)
            BY DEF SameFor
        <4>3. Known(a2.table) \subseteq W
            BY <1>1, <1>2, <1>11, <1>14, <2>1, <4>1, <4>2 DEF a2, Settled
        <4>4. IsSome(a2.out) => s \in W
            BY <1>9, <1>14, <4>1
        <4>5. QED BY <1>10, <3>2, <4>3, <4>4
    <3>3. QED BY <3>1, <3>2
  <2>4. QED BY <2>2, <2>3
<1>15. QED BY <1>13, <1>14

LEMMA SymbolValueRetraces ==
    ASSUME NEW x, NEW n \in Nat, Retraces(n, x), NEW k \in Nat,
           NEW W \in SUBSET Symbols, NEW s, NEW at,
           NEW t1, NEW t2, Related("again", x, W, t1, t2),
           NEW r1, r1 = SymbolEvaluate(s, at, t1, Answers[n]),
           NEW r2, r2 = SymbolEvaluate(s, at, t2, Answers[k]),
           ~Thrown(r1.out), ~Thrown(r2.out), Known(r1.table) \subseteq W
    PROVE  Complete(r1.table, x) /\ Known(r2.table) \subseteq W
<1> DEFINE f == Exported(s, t1)
           a1 == Answer(AskValue(f, at, Mark(s, t1)), Answers[n])
           a2 == Answer(AskValue(f, at, Mark(s, t2)), Answers[k])
<1>1. /\ Just(t1, x) /\ Just(t2, x) /\ Complete(t1, x) /\ Known(t2) \subseteq W
      /\ IsTable(t1) /\ IsTable(t2) /\ t1.exports = x /\ t2.exports = x
    BY DEF Related, Just
<1>2. /\ Just(Mark(s, t1), x) /\ Just(Mark(s, t2), x) /\ Complete(Mark(s, t1), x)
      /\ Known(Mark(s, t1)) = Known(t1) /\ Known(Mark(s, t2)) = Known(t2)
      /\ IsTable(Mark(s, t1)) /\ IsTable(Mark(s, t2))
    BY <1>1, MarkedKnowledge, MarkedTable
<1>3. Exported(s, t2) = f
    BY <1>1 DEF Exported
<1>4. IsTable(a1.table) /\ IsTable(a2.table)
  <2>1. AreHonest(Answers[n]) /\ AreHonest(Answers[k])
    BY AnswersAreHonest
  <2>2. QED BY <1>2, <2>1, AskValueIsHonest
<1>5. /\ r1.out = a1.out /\ IsTable(r1.table) /\ r1.table.exports = a1.table.exports
      /\ r1.table.known_type = a1.table.known_type
    BY <1>1, <1>4, SymbolValueOutcome
<1>6. /\ r2.out = a2.out /\ IsTable(r2.table) /\ r2.table.exports = a2.table.exports
      /\ r2.table.known_type = a2.table.known_type
    BY <1>1, <1>3, <1>4, SymbolValueOutcome
<1>7. /\ Known(r1.table) = Known(a1.table) /\ Known(r2.table) = Known(a2.table)
      /\ Complete(a1.table, x) => Complete(r1.table, x)
    BY <1>5, <1>6, KnowledgeDepends
<1>8. Keeps("again", x, W, a1, a2)
  <2>1. Sim("again", x, W, Answers[n], Answers[k])
    BY DEF Retraces
  <2>2. Related("again", x, W, Mark(s, t1), Mark(s, t2)) /\ SameFor(f, at, at)
    BY <1>1, <1>2 DEF Related, SameFor
  <2>3. QED BY <2>1, <2>2, CallKeeps
<1> HIDE DEF f, a1, a2
<1>9. QED BY <1>5, <1>6, <1>7, <1>8 DEF Keeps, Related, Excused

LEMMA OneCallRetraces ==
    ASSUME NEW x, Closed(x), NEW n \in Nat, Retraces(n, x), NEW k \in Nat,
           NEW W \in SUBSET Symbols,
           NEW e, NEW at1 \in Contexts, NEW at2 \in Contexts, SameFor(e, at1, at2),
           NEW t1, NEW t2, Related("again", x, W, t1, t2),
           NEW r1, NEW r2, r1.out = r2.out, Just(r1.table, x), Just(r2.table, x),
           \/ r1 = TypeOf(e, at1, t1, Answers[n]) /\ r2 = TypeOf(e, at2, t2, Answers[k])
           \/ r1 = Evaluate(e, at1, t1, Answers[n]) /\ r2 = Evaluate(e, at2, t2, Answers[k]),
           ~Thrown(r1.out), ~Thrown(r2.out), Known(r1.table) \subseteq W
    PROVE  Related("again", x, W, r1.table, r2.table)
<1>1. CASE e.k # "local_symbol"
  <2>1. Sim("again", x, W, Answers[n], Answers[k])
    BY DEF Retraces
  <2>2. Remembers(W, Answers[n]) /\ Sound(W, t1)
    BY AnswersAreHonest DEF Remembers, Sound, Related, Just
  <2>3. /\ Keeps("again", x, W, TypeOf(e, at1, t1, Answers[n]), TypeOf(e, at2, t2, Answers[k]))
        /\ Keeps("again", x, W, Evaluate(e, at1, t1, Answers[n]), Evaluate(e, at2, t2, Answers[k]))
    BY <1>1, <2>1, <2>2, ExpressionKeeps
  <2>4. Keeps("again", x, W, r1, r2)
    BY <2>3
  <2>5. QED BY <2>4 DEF Keeps, Excused
<1>2. CASE e.k = "local_symbol"
  <2>1. at1 = at2
    BY <1>2 DEF SameFor, IsClosed
  <2>2. \/ /\ r1 = SymbolTypeOf(e.name, at1, t1, Answers[n])
           /\ r2 = SymbolTypeOf(e.name, at1, t2, Answers[k])
        \/ /\ r1 = SymbolEvaluate(e.name, at1, t1, Answers[n])
           /\ r2 = SymbolEvaluate(e.name, at1, t2, Answers[k])
    BY <1>2, <2>1 DEF TypeOf, Evaluate
  <2>3. Complete(r1.table, x) /\ Known(r2.table) \subseteq W
    BY <2>2, SymbolRetraces, SymbolValueRetraces
  <2>4. QED BY <2>3 DEF Related
<1>3. QED BY <1>1, <1>2

LEMMA AnswersRetrace ==
    ASSUME NEW x, Closed(x) PROVE \A n \in Nat : Retraces(n, x)
<1> DEFINE T == {n \in Nat : Retraces(n, x)}
<1>1. ASSUME NEW n \in Nat, NEW e, NEW at, NEW t,
             NEW r \in {Answer(AskType(e, at, t), Answers[n]), Answer(AskValue(e, at, t), Answers[n])},
             ~Thrown(r.out)
      PROVE  n # 0 /\ AskType(e, at, t) \in Questions
    BY <1>1, AnswerUnfold, KindsDiffer, YieldFields
<1>2. 0 \in T
  <2>1. \A e, at, t : /\ Thrown(Answer(AskType(e, at, t), Answers[0]).out)
                      /\ Thrown(Answer(AskValue(e, at, t), Answers[0]).out)
    BY AnswerUnfold, KindsDiffer, YieldFields
  <2>2. QED BY <2>1 DEF Retraces, Sim, Keeps
<1>3. ASSUME NEW n \in Nat, n \in T PROVE n + 1 \in T
  <2>1. ASSUME NEW W \in SUBSET Symbols, NEW m \in Nat, NEW e, NEW at1 \in Contexts,
               NEW at2 \in Contexts, NEW t1, NEW t2,
               SameFor(e, at1, at2), Related("again", x, W, t1, t2),
               NEW r1, NEW r2,
               \/ /\ r1 = Answer(AskType(e, at1, t1), Answers[n + 1])
                  /\ r2 = Answer(AskType(e, at2, t2), Answers[m])
               \/ /\ r1 = Answer(AskValue(e, at1, t1), Answers[n + 1])
                  /\ r2 = Answer(AskValue(e, at2, t2), Answers[m]),
               ~Thrown(r1.out), Known(r1.table) \subseteq W, ~Thrown(r2.out)
        PROVE  r1.out = r2.out /\ Related("again", x, W, r1.table, r2.table)
    <3>1. /\ n + 1 \in Nat /\ m # 0
          /\ AskType(e, at1, t1) \in Questions /\ AskType(e, at2, t2) \in Questions
        BY <1>1, <2>1
    <3>2. m - 1 \in Nat /\ m = (m - 1) + 1
        BY <3>1
    <3>3. \/ /\ r1 = TypeOf(e, at1, t1, Answers[n])
             /\ r2 = TypeOf(e, at2, t2, Answers[m - 1])
          \/ /\ r1 = Evaluate(e, at1, t1, Answers[n])
             /\ r2 = Evaluate(e, at2, t2, Answers[m - 1])
        BY <2>1, <3>1, <3>2, AnswerUnfold
    <3>4. Just(t1, x) /\ Just(t2, x)
        BY <2>1 DEF Related
    <3>5. r1.out = r2.out /\ Just(r1.table, x) /\ Just(r2.table, x)
      <4>1. e \in Terms[MaxHeight].expressions /\ SameFor(e, at2, at2)
        BY <3>1, AskFields DEF SameFor
      <4>2. Truthful(Answers[n + 1], x) /\ Truthful(Answers[m], x)
        BY <3>1, AnswersAreTruthful
      <4>3. CASE /\ r1 = Answer(AskType(e, at1, t1), Answers[n + 1])
                 /\ r2 = Answer(AskType(e, at2, t2), Answers[m])
        <5>1. r1.out = TrueType(e, at2, x) /\ Just(r1.table, x)
            BY <2>1, <3>4, <4>1, <4>2, <4>3 DEF Truthful
        <5>2. r2.out = TrueType(e, at2, x) /\ Just(r2.table, x)
            BY <2>1, <3>4, <4>1, <4>2, <4>3 DEF Truthful
        <5>3. QED BY <5>1, <5>2
      <4>4. CASE /\ r1 = Answer(AskValue(e, at1, t1), Answers[n + 1])
                 /\ r2 = Answer(AskValue(e, at2, t2), Answers[m])
        <5>1. r1.out = TrueValue(e, at2, x) /\ Just(r1.table, x)
            BY <2>1, <3>4, <4>1, <4>2, <4>4 DEF Truthful
        <5>2. r2.out = TrueValue(e, at2, x) /\ Just(r2.table, x)
            BY <2>1, <3>4, <4>1, <4>2, <4>4 DEF Truthful
        <5>3. QED BY <5>1, <5>2
      <4>5. QED BY <2>1, <4>3, <4>4
    <3>6. Retraces(n, x)
        BY <1>3
    <3>7. QED BY <2>1, <3>2, <3>3, <3>5, <3>6, OneCallRetraces
  <2>2. ASSUME NEW W \in SUBSET Symbols, NEW m \in Nat
        PROVE  Sim("again", x, W, Answers[n + 1], Answers[m])
    <3> SUFFICES ASSUME NEW e \in Terms[MaxHeight].expressions, NEW at1 \in Contexts,
                        NEW at2 \in Contexts, NEW t1, NEW t2,
                        SameFor(e, at1, at2), Related("again", x, W, t1, t2)
                 PROVE  /\ Keeps("again", x, W, Answer(AskType(e, at1, t1), Answers[n + 1]),
                                                Answer(AskType(e, at2, t2), Answers[m]))
                        /\ Keeps("again", x, W, Answer(AskValue(e, at1, t1), Answers[n + 1]),
                                                Answer(AskValue(e, at2, t2), Answers[m]))
        BY DEF Sim
    <3>1. Keeps("again", x, W, Answer(AskType(e, at1, t1), Answers[n + 1]),
                               Answer(AskType(e, at2, t2), Answers[m]))
        BY <2>1 DEF Keeps, Excused
    <3>2. Keeps("again", x, W, Answer(AskValue(e, at1, t1), Answers[n + 1]),
                               Answer(AskValue(e, at2, t2), Answers[m]))
        BY <2>1 DEF Keeps, Excused
    <3>3. QED BY <3>1, <3>2
  <2>3. Retraces(n + 1, x)
    BY <2>2 DEF Retraces
  <2>4. QED BY <2>3
<1> HIDE DEF T
<1>4. \A n \in Nat : n \in T
    BY <1>2, <1>3, SetInduction
<1>5. QED BY <1>4 DEF T

----------------------------------------------------------------------------
(* Also a call that throws leaves a table that is just and complete         *)

Solid(t, x) == Just(t, x) /\ Complete(t, x)

KeepsSolid(A, x) ==
    \A e, at, t : Solid(t, x) =>
        /\ Solid(Answer(AskType(e, at, t), A).table, x)
        /\ Solid(Answer(AskValue(e, at, t), A).table, x)

LEMMA SymbolStaysSolid ==
    ASSUME NEW x, NEW A, AreHonest(A), KeepsSolid(A, x), NEW s, NEW at, NEW t, Solid(t, x)
    PROVE  /\ \/ ~Thrown(SymbolTypeOf(s, at, t, A).out)
              \/ Solid(SymbolTypeOf(s, at, t, A).table, x)
           /\ Solid(SymbolEvaluate(s, at, t, A).table, x)
<1> DEFINE a == Answer(AskType(Exported(s, t), at, Mark(s, t)), A)
           b == Answer(AskValue(Exported(s, t), at, Mark(s, t)), A)
           r == SymbolTypeOf(s, at, t, A)
           v == SymbolEvaluate(s, at, t, A)
<1>1. IsTable(t) /\ IsTable(Mark(s, t)) /\ Solid(Mark(s, t), x)
    BY MarkedTable, MarkedKnowledge DEF Solid, Just
<1>2. IsTable(a.table) /\ IsTable(b.table) /\ Solid(a.table, x) /\ Solid(b.table, x)
  <2>1. IsTable(a.table) /\ IsTable(b.table)
    BY <1>1, AskTypeIsHonest, AskValueIsHonest
  <2>2. Solid(a.table, x) /\ Solid(b.table, x)
    BY <1>1 DEF KeepsSolid
  <2>3. QED BY <2>1, <2>2
<1>3. /\ s \notin Symbols \/ s \in t.evaluated => r.table = t
      /\ s \in Known(t) /\ s \notin t.evaluated => r.table = t
      /\ s \in Symbols \ Known(t) /\ s \notin t.evaluated =>
            r.out = a.out /\ Finds(a.table, r.table, s, a.out)
    BY <1>1, <1>2, SymbolTypeOutcome
<1>4. /\ s \notin Symbols \/ s \in t.evaluated => v.table = t
      /\ s \in Symbols /\ s \notin t.evaluated =>
            /\ IsTable(v.table) /\ v.table.exports = b.table.exports
            /\ v.table.known_type = b.table.known_type
    BY <1>1, <1>2, SymbolValueOutcome
<1> HIDE DEF a, b, r, v
<1>5. Solid(v.table, x)
    BY <1>2, <1>4, KnowledgeDepends DEF Solid
<1>6. ASSUME Thrown(r.out) PROVE Solid(r.table, x)
  <2>1. CASE s \in Symbols \ Known(t) /\ s \notin t.evaluated
    <3>1. ~IsSome(a.out) /\ Finds(a.table, r.table, s, a.out)
        BY <1>3, <1>6, <2>1, KindsDiffer
    <3>2. \A o \in Symbols : r.table.known_type[o] = a.table.known_type[o]
        BY <3>1 DEF Finds
    <3>3. IsTable(r.table) /\ r.table.exports = a.table.exports
        BY <3>1 DEF Finds
    <3>4. r.table.known_type = a.table.known_type
        BY <1>2, <3>2, <3>3 DEF IsTable
    <3>5. QED BY <1>2, <3>3, <3>4, KnowledgeDepends DEF Solid
  <2>2. CASE ~(s \in Symbols \ Known(t) /\ s \notin t.evaluated)
    BY <1>3, <2>2
  <2>3. QED BY <2>1, <2>2
<1>7. QED BY <1>5, <1>6 DEF r, v

LEMMA OneCallStaysSolid ==
    ASSUME NEW x, NEW A, AreHonest(A), KeepsSolid(A, x), NEW e, NEW at, NEW t, Solid(t, x)
    PROVE  /\ \/ e.k = "local_symbol" /\ ~Thrown(TypeOf(e, at, t, A).out)
              \/ Solid(TypeOf(e, at, t, A).table, x)
           /\ Solid(Evaluate(e, at, t, A).table, x)
<1>1. CASE e.k = "lambda"
  <2> DEFINE a == Answer(AskValue(e.bound, at, t), A)
             b == Answer(AskValue(e.parameter, [at EXCEPT !.bound = a.out], a.table), A)
             c == Answer(AskType(e.body, With(a.out, b.out.type, None), b.table), A)
  <2>1. Solid(a.table, x)
    BY DEF KeepsSolid
  <2>2. Solid(b.table, x)
    BY <2>1 DEF KeepsSolid
  <2>3. Solid(c.table, x)
    BY <2>2 DEF KeepsSolid
  <2>4. /\ TypeOfLambda(e, at, t, A).table \in {a.table, b.table, c.table}
        /\ EvaluateLambda(e, at, t, A).table = a.table
    BY LambdaOutcome, LambdaValueOutcome
  <2>5. /\ TypeOf(e, at, t, A) = TypeOfLambda(e, at, t, A)
        /\ Evaluate(e, at, t, A) = EvaluateLambda(e, at, t, A)
    BY <1>1 DEF TypeOf, Evaluate
  <2> HIDE DEF a, b, c
  <2>6. QED BY <2>1, <2>2, <2>3, <2>4, <2>5
<1>2. CASE e.k = "call"
  <2> DEFINE c == Answer(AskType(e.callee, at, t), A)
             f == Answer(AskValue(e.callee, at, c.table), A)
             a == Answer(AskValue(e.argument, at, f.table), A)
             o == Answer(AskType(f.out.body, With(f.out.bound, None, a.out), a.table), A)
  <2>1. Solid(c.table, x)
    BY DEF KeepsSolid
  <2>2. Solid(f.table, x)
    BY <2>1 DEF KeepsSolid
  <2>3. Solid(a.table, x)
    BY <2>2 DEF KeepsSolid
  <2>4. Solid(o.table, x)
    BY <2>3 DEF KeepsSolid
  <2>5. TypeOfCall(e, at, t, A).table \in {c.table, f.table, a.table, o.table}
    BY CallOutcome
  <2>6. TypeOf(e, at, t, A) = TypeOfCall(e, at, t, A) /\ Evaluate(e, at, t, A).table = t
    BY <1>2, YieldFields DEF TypeOf, Evaluate
  <2> HIDE DEF c, f, a, o
  <2>7. QED BY <2>1, <2>2, <2>3, <2>4, <2>5, <2>6
<1>3. CASE e.k = "return"
  <2>1. /\ TypeOf(e, at, t, A) = Answer(AskType(e.result, at, t), A)
        /\ Evaluate(e, at, t, A).table = t
    BY <1>3, YieldFields DEF TypeOf, Evaluate
  <2>2. QED BY <2>1 DEF KeepsSolid
<1>4. CASE e.k = "local_symbol"
  <2>1. /\ TypeOf(e, at, t, A) = SymbolTypeOf(e.name, at, t, A)
        /\ Evaluate(e, at, t, A) = SymbolEvaluate(e.name, at, t, A)
    BY <1>4 DEF TypeOf, Evaluate
  <2>2. QED BY <1>4, <2>1, SymbolStaysSolid
<1>5. CASE e.k \notin {"lambda", "call", "return", "local_symbol"}
    BY <1>5, YieldFields DEF TypeOf, Evaluate
<1>6. QED BY <1>1, <1>2, <1>3, <1>4, <1>5

LEMMA AnswersStaySolid ==
    ASSUME NEW x, Closed(x) PROVE \A n \in Nat : KeepsSolid(Answers[n], x)
<1> DEFINE T == {n \in Nat : KeepsSolid(Answers[n], x)}
<1>1. ASSUME NEW n \in Nat, NEW e, NEW at, NEW t, AskType(e, at, t) \notin Questions
      PROVE  /\ Answer(AskType(e, at, t), Answers[n]).table = t
             /\ Answer(AskValue(e, at, t), Answers[n]).table = t
    BY <1>1, AnswerUnfold, YieldFields
<1>2. 0 \in T
  <2>1. \A e, at, t : /\ Answer(AskType(e, at, t), Answers[0]).table = t
                      /\ Answer(AskValue(e, at, t), Answers[0]).table = t
    BY AnswerUnfold, YieldFields
  <2>2. QED BY <2>1 DEF KeepsSolid
<1>3. ASSUME NEW n \in Nat, n \in T PROVE n + 1 \in T
  <2> DEFINE A == Answers[n + 1]
  <2>1. ASSUME NEW e, NEW at, NEW t, Solid(t, x)
        PROVE  /\ Solid(Answer(AskType(e, at, t), A).table, x)
               /\ Solid(Answer(AskValue(e, at, t), A).table, x)
    <3>1. CASE AskType(e, at, t) \notin Questions
        BY <1>1, <2>1, <3>1
    <3>2. CASE AskType(e, at, t) \in Questions
      <4>1. /\ Answer(AskType(e, at, t), A) = TypeOf(e, at, t, Answers[n])
            /\ Answer(AskValue(e, at, t), A) = Evaluate(e, at, t, Answers[n])
        BY <3>2, AnswerUnfold
      <4>2. AreHonest(Answers[n]) /\ KeepsSolid(Answers[n], x)
        BY <1>3, AnswersAreHonest
      <4>3. \/ ~Thrown(Answer(AskType(e, at, t), A).out)
            \/ Solid(Answer(AskType(e, at, t), A).table, x)
        BY <2>1, <4>1, <4>2, OneCallStaysSolid
      <4>4. Solid(Answer(AskValue(e, at, t), A).table, x)
        BY <2>1, <4>1, <4>2, OneCallStaysSolid
      <4>5. ASSUME ~Thrown(Answer(AskType(e, at, t), A).out)
            PROVE  Solid(Answer(AskType(e, at, t), A).table, x)
        <5>1. n + 1 \in Nat /\ Retraces(n + 1, x) /\ Just(t, x) /\ Complete(t, x)
            BY <2>1, AnswersRetrace DEF Solid
        <5>2. Complete(Answer(AskType(e, at, t), A).table, x)
            BY <4>5, <5>1, AskedAgain
        <5>3. Just(Answer(AskType(e, at, t), A).table, x)
            BY <4>5, <5>1, AnswersAreMeant
        <5>4. QED BY <5>2, <5>3 DEF Solid
      <4>6. QED BY <4>3, <4>4, <4>5
    <3>3. QED BY <3>1, <3>2
  <2> HIDE DEF A
  <2>2. KeepsSolid(A, x)
    BY <2>1 DEF KeepsSolid
  <2>3. QED BY <2>2 DEF A
<1> HIDE DEF T
<1>4. \A n \in Nat : n \in T
    BY <1>2, <1>3, SetInduction
<1>5. QED BY <1>4 DEF T

----------------------------------------------------------------------------
(* A table that knows more answers the same                                 *)

LEMMA SymbolFollows ==
    ASSUME NEW x, NEW n \in Nat, Sim("follow", x, Symbols, Answers[n], Answers[n]),
           NEW s, NEW at,
           NEW t1, NEW t2, Related("follow", x, Symbols, t1, t2),
           NEW r1, r1 = SymbolTypeOf(s, at, t1, Answers[n]),
           NEW r2, r2 = SymbolTypeOf(s, at, t2, Answers[n]),
           at \in Contexts, Closed(x), Just(r1.table, x), Solid(r2.table, x),
           ~Thrown(r1.out), r2.out # OutOfMemory
    PROVE  r1.out = r2.out /\ Related("follow", x, Symbols, r1.table, r2.table)
<1> DEFINE f == Exported(s, t1)
           a1 == Answer(AskType(f, at, Mark(s, t1)), Answers[n])
           a2 == Answer(AskType(f, at, Mark(s, t2)), Answers[n])
<1>1. /\ Just(t1, x) /\ Just(t2, x) /\ Complete(t2, x)
      /\ t1.evaluated = t2.evaluated /\ Known(t1) \subseteq Known(t2)
      /\ IsTable(t1) /\ IsTable(t2) /\ t1.exports = x /\ t2.exports = x
    BY DEF Related, Just
<1>2. /\ Just(Mark(s, t1), x) /\ Just(Mark(s, t2), x) /\ Complete(Mark(s, t2), x)
      /\ Known(Mark(s, t1)) = Known(t1) /\ Known(Mark(s, t2)) = Known(t2)
      /\ IsTable(Mark(s, t1)) /\ IsTable(Mark(s, t2))
      /\ Mark(s, t1).evaluated = t1.evaluated \cup {s}
      /\ Mark(s, t2).evaluated = t2.evaluated \cup {s}
    BY <1>1, MarkedKnowledge, MarkedTable
<1>3. Exported(s, t2) = f
    BY <1>1 DEF Exported
<1>4. /\ IsTable(a1.table) /\ IsTable(a2.table)
      /\ a1.table.evaluated = t1.evaluated \cup {s}
      /\ a2.table.evaluated = t2.evaluated \cup {s}
  <2>1. AreHonest(Answers[n])
    BY AnswersAreHonest
  <2>2. Follows(Mark(s, t1), a1.table) /\ Follows(Mark(s, t2), a2.table)
    BY <1>2, <2>1, AskTypeIsHonest
  <2>3. QED BY <1>2, <2>2 DEF Follows, Grows
<1>5. s \in Symbols /\ s \notin t1.evaluated
  <2>1. s \notin Symbols \/ s \in t1.evaluated => Thrown(r1.out)
    BY <1>1, <1>4, SymbolTypeOutcome
  <2>2. QED BY <2>1
<1>6. /\ s \in Known(t1) => r1.out = t1.known_type[s] /\ r1.table = t1
      /\ s \notin Known(t1) => r1.out = a1.out /\ Finds(a1.table, r1.table, s, a1.out)
    BY <1>1, <1>4, <1>5, SymbolTypeOutcome
<1>7. /\ s \in Known(t2) => r2.out = t2.known_type[s] /\ r2.table = t2
      /\ s \notin Known(t2) => r2.out = a2.out /\ Finds(a2.table, r2.table, s, a2.out)
    BY <1>1, <1>3, <1>4, <1>5, SymbolTypeOutcome
<1>8. s \notin Known(t1) =>
        /\ Known(r1.table) = IF IsSome(a1.out) THEN Known(a1.table) \cup {s} ELSE Known(a1.table)
        /\ r1.table.evaluated = t1.evaluated
  <2>1. s \notin Known(t1) => r1.table.evaluated = t1.evaluated
    BY <1>4, <1>5, <1>6 DEF Finds
  <2> HIDE DEF f, a1
  <2>2. s \notin Known(t1) =>
        Known(r1.table) = IF IsSome(a1.out) THEN Known(a1.table) \cup {s} ELSE Known(a1.table)
    BY <1>5, <1>6, KnownGrows
  <2>3. QED BY <2>1, <2>2
<1>9. s \notin Known(t2) =>
        /\ Known(r2.table) = IF IsSome(a2.out) THEN Known(a2.table) \cup {s} ELSE Known(a2.table)
        /\ r2.table.evaluated = t2.evaluated
  <2>1. s \notin Known(t2) => r2.table.evaluated = t2.evaluated
    BY <1>1, <1>4, <1>5, <1>7 DEF Finds
  <2> HIDE DEF f, a2
  <2>2. s \notin Known(t2) =>
        Known(r2.table) = IF IsSome(a2.out) THEN Known(a2.table) \cup {s} ELSE Known(a2.table)
    BY <1>5, <1>7, KnownGrows
  <2>3. QED BY <2>1, <2>2
<1>10. Just(r1.table, x) /\ Just(r2.table, x) /\ Complete(r2.table, x)
    BY DEF Solid
<1>11. CASE s \in Known(t1)
  <2>1. t1.known_type[s] = TrueType(f, at, x) /\ t2.known_type[s] = TrueType(f, at, x)
    BY <1>1, <1>3, <1>11 DEF Just
  <2>2. QED BY <1>1, <1>6, <1>7, <1>11, <2>1
<1>12. CASE s \in Known(t2) \ Known(t1)
  <2>1. ~Thrown(a1.out)
    BY <1>6, <1>12
  <2>2. a1.out = TrueType(f, at, x)
    BY <1>2, <2>1, AnswersAreMeant
  <2>3. t2.known_type[s] = TrueType(f, at, x)
    BY <1>1, <1>3, <1>12 DEF Just
  <2>4. Known(t2) \in SUBSET Symbols
    BY DEF Known
  <2>5. Known(a1.table) \subseteq Known(t2)
    BY <1>1, <1>2, <1>3, <1>12, <2>1, <2>4 DEF Complete
  <2> HIDE DEF f, a1, a2
  <2>6. r1.out = r2.out /\ r2.table = t2
    BY <1>6, <1>7, <1>12, <2>2, <2>3
  <2>7. r1.table.evaluated = r2.table.evaluated /\ Known(r1.table) \subseteq Known(r2.table)
    BY <1>1, <1>8, <1>12, <2>5, <2>6
  <2>8. QED BY <1>10, <2>6, <2>7 DEF Related
<1>13. CASE s \notin Known(t2)
  <2>1. Related("follow", x, Symbols, Mark(s, t1), Mark(s, t2)) /\ SameFor(f, at, at)
    BY <1>1, <1>2 DEF Related, SameFor
  <2>2. Keeps("follow", x, Symbols, a1, a2)
    BY <2>1, CallKeeps
  <2> HIDE DEF f, a1, a2
  <2>3. s \notin Known(t1) /\ r1.out = a1.out /\ r2.out = a2.out
    BY <1>1, <1>6, <1>7, <1>13
  <2>4. Known(a1.table) \subseteq Symbols
    BY DEF Known
  <2>5. a1.out = a2.out /\ Known(a1.table) \subseteq Known(a2.table)
    BY <2>2, <2>3, <2>4 DEF Keeps, Excused, Related
  <2>6. r1.table.evaluated = r2.table.evaluated /\ Known(r1.table) \subseteq Known(r2.table)
    BY <1>1, <1>8, <1>9, <1>13, <2>3, <2>5
  <2>7. QED BY <1>10, <2>3, <2>5, <2>6 DEF Related
<1>14. QED BY <1>11, <1>12, <1>13

LEMMA SymbolValueFollows ==
    ASSUME NEW x, NEW n \in Nat, Sim("follow", x, Symbols, Answers[n], Answers[n]),
           NEW s, NEW at,
           NEW t1, NEW t2, Related("follow", x, Symbols, t1, t2),
           NEW r1, r1 = SymbolEvaluate(s, at, t1, Answers[n]),
           NEW r2, r2 = SymbolEvaluate(s, at, t2, Answers[n]),
           Just(r1.table, x), Solid(r2.table, x),
           ~Thrown(r1.out), r2.out # OutOfMemory
    PROVE  r1.out = r2.out /\ Related("follow", x, Symbols, r1.table, r2.table)
<1> DEFINE f == Exported(s, t1)
           a1 == Answer(AskValue(f, at, Mark(s, t1)), Answers[n])
           a2 == Answer(AskValue(f, at, Mark(s, t2)), Answers[n])
<1>1. /\ Just(t1, x) /\ Just(t2, x) /\ Complete(t2, x)
      /\ t1.evaluated = t2.evaluated /\ Known(t1) \subseteq Known(t2)
      /\ IsTable(t1) /\ IsTable(t2) /\ t1.exports = x /\ t2.exports = x
    BY DEF Related, Just
<1>2. /\ Just(Mark(s, t1), x) /\ Just(Mark(s, t2), x) /\ Complete(Mark(s, t2), x)
      /\ Known(Mark(s, t1)) = Known(t1) /\ Known(Mark(s, t2)) = Known(t2)
      /\ IsTable(Mark(s, t1)) /\ IsTable(Mark(s, t2))
      /\ Mark(s, t1).evaluated = t1.evaluated \cup {s}
      /\ Mark(s, t2).evaluated = t2.evaluated \cup {s}
    BY <1>1, MarkedKnowledge, MarkedTable
<1>3. Exported(s, t2) = f
    BY <1>1 DEF Exported
<1>4. IsTable(a1.table) /\ IsTable(a2.table)
  <2>1. AreHonest(Answers[n])
    BY AnswersAreHonest
  <2>2. QED BY <1>2, <2>1, AskValueIsHonest
<1>5. s \in Symbols /\ s \notin t1.evaluated
  <2>1. s \notin Symbols \/ s \in t1.evaluated => Thrown(r1.out)
    BY <1>1, <1>4, SymbolValueOutcome
  <2>2. QED BY <2>1
<1>6. /\ r1.out = a1.out /\ IsTable(r1.table) /\ r1.table.exports = a1.table.exports
      /\ r1.table.known_type = a1.table.known_type
      /\ r1.table.evaluated = a1.table.evaluated \ {s}
    BY <1>1, <1>4, <1>5, SymbolValueOutcome
<1>7. /\ r2.out = a2.out /\ IsTable(r2.table) /\ r2.table.exports = a2.table.exports
      /\ r2.table.known_type = a2.table.known_type
      /\ r2.table.evaluated = a2.table.evaluated \ {s}
    BY <1>1, <1>3, <1>4, <1>5, SymbolValueOutcome
<1>8. Known(r1.table) = Known(a1.table) /\ Known(r2.table) = Known(a2.table)
    BY <1>6, <1>7, KnowledgeDepends
<1>9. Keeps("follow", x, Symbols, a1, a2)
  <2>1. Related("follow", x, Symbols, Mark(s, t1), Mark(s, t2)) /\ SameFor(f, at, at)
    BY <1>1, <1>2 DEF Related, SameFor
  <2>2. QED BY <2>1, CallKeeps
<1> HIDE DEF f, a1, a2
<1>10. Known(a1.table) \subseteq Symbols
    BY DEF Known
<1>11. /\ a1.out = a2.out /\ a1.table.evaluated = a2.table.evaluated
       /\ Known(a1.table) \subseteq Known(a2.table)
    BY <1>6, <1>7, <1>9, <1>10 DEF Keeps, Excused, Related
<1>12. QED BY <1>6, <1>7, <1>8, <1>11 DEF Related, Solid

LEMMA AnswersFollow ==
    ASSUME NEW x, Closed(x)
    PROVE  \A n \in Nat : Sim("follow", x, Symbols, Answers[n], Answers[n])
<1> DEFINE T == {n \in Nat : Sim("follow", x, Symbols, Answers[n], Answers[n])}
<1>1. ASSUME NEW n \in Nat, NEW e, NEW at, NEW t,
             NEW r \in {Answer(AskType(e, at, t), Answers[n]), Answer(AskValue(e, at, t), Answers[n])},
             ~Thrown(r.out)
      PROVE  n # 0 /\ AskType(e, at, t) \in Questions
    BY <1>1, AnswerUnfold, KindsDiffer, YieldFields
<1>2. 0 \in T
  <2>1. \A e, at, t : /\ Thrown(Answer(AskType(e, at, t), Answers[0]).out)
                      /\ Thrown(Answer(AskValue(e, at, t), Answers[0]).out)
    BY AnswerUnfold, KindsDiffer, YieldFields
  <2>2. QED BY <2>1 DEF Sim, Keeps
<1>3. ASSUME NEW n \in Nat, n \in T PROVE n + 1 \in T
  <2>1. ASSUME NEW e, NEW at1 \in Contexts, NEW at2 \in Contexts, NEW t1, NEW t2,
               SameFor(e, at1, at2), Related("follow", x, Symbols, t1, t2),
               NEW r1, NEW r2,
               \/ /\ r1 = Answer(AskType(e, at1, t1), Answers[n + 1])
                  /\ r2 = Answer(AskType(e, at2, t2), Answers[n + 1])
               \/ /\ r1 = Answer(AskValue(e, at1, t1), Answers[n + 1])
                  /\ r2 = Answer(AskValue(e, at2, t2), Answers[n + 1]),
               ~Thrown(r1.out), r2.out # OutOfMemory
        PROVE  r1.out = r2.out /\ Related("follow", x, Symbols, r1.table, r2.table)
    <3>1. AskType(e, at1, t1) \in Questions /\ AskType(e, at2, t2) \in Questions
      <4>1. n + 1 \in Nat
        OBVIOUS
      <4>2. AskType(e, at1, t1) \in Questions
        BY <1>1, <2>1, <4>1
      <4>3. AskType(e, at2, t2) \in Questions
        BY <2>1, <4>1, AnswerUnfold, YieldFields
      <4>4. QED BY <4>2, <4>3
    <3>2. \/ /\ r1 = TypeOf(e, at1, t1, Answers[n])
             /\ r2 = TypeOf(e, at2, t2, Answers[n])
          \/ /\ r1 = Evaluate(e, at1, t1, Answers[n])
             /\ r2 = Evaluate(e, at2, t2, Answers[n])
        BY <2>1, <3>1, AnswerUnfold
    <3>3. Just(r1.table, x) /\ Solid(r2.table, x)
      <4>1. n + 1 \in Nat /\ Just(t1, x) /\ Solid(t2, x)
        BY <2>1 DEF Related, Solid
      <4>2. KeepsSolid(Answers[n + 1], x)
        BY <4>1, AnswersStaySolid
      <4>3. Solid(r2.table, x)
        BY <2>1, <4>1, <4>2 DEF KeepsSolid
      <4>4. Just(r1.table, x)
        BY <2>1, <4>1, AnswersAreMeant
      <4>5. QED BY <4>3, <4>4
    <3>4. Sim("follow", x, Symbols, Answers[n], Answers[n])
        BY <1>3
    <3>5. CASE e.k # "local_symbol"
      <4>1. Remembers(Symbols, Answers[n]) /\ Sound(Symbols, t1)
        BY DEF Remembers, Sound
      <4>2. Keeps("follow", x, Symbols, r1, r2)
        BY <2>1, <3>2, <3>4, <3>5, <4>1, ExpressionKeeps
      <4>3. Known(r1.table) \subseteq Symbols
        BY DEF Known
      <4>4. QED BY <2>1, <4>2, <4>3 DEF Keeps, Excused
    <3>6. CASE e.k = "local_symbol"
      <4>1. at1 = at2
        BY <2>1, <3>6 DEF SameFor, IsClosed
      <4>2. \/ /\ r1 = SymbolTypeOf(e.name, at1, t1, Answers[n])
               /\ r2 = SymbolTypeOf(e.name, at1, t2, Answers[n])
            \/ /\ r1 = SymbolEvaluate(e.name, at1, t1, Answers[n])
               /\ r2 = SymbolEvaluate(e.name, at1, t2, Answers[n])
        BY <3>2, <3>6, <4>1 DEF TypeOf, Evaluate
      <4>3. CASE /\ r1 = SymbolTypeOf(e.name, at1, t1, Answers[n])
                 /\ r2 = SymbolTypeOf(e.name, at1, t2, Answers[n])
        <5>1. Closed(x) /\ n \in Nat
            OBVIOUS
        <5>2. Related("follow", x, Symbols, t1, t2) /\ ~Thrown(r1.out) /\ r2.out # OutOfMemory
            BY <2>1
        <5>3. QED BY <3>3, <3>4, <4>3, <5>1, <5>2, SymbolFollows
      <4>4. CASE /\ r1 = SymbolEvaluate(e.name, at1, t1, Answers[n])
                 /\ r2 = SymbolEvaluate(e.name, at1, t2, Answers[n])
        BY <2>1, <3>3, <3>4, <4>4, SymbolValueFollows
      <4>5. QED BY <4>2, <4>3, <4>4
    <3>7. QED BY <3>5, <3>6
  <2>2. Sim("follow", x, Symbols, Answers[n + 1], Answers[n + 1])
    <3> SUFFICES ASSUME NEW e \in Terms[MaxHeight].expressions, NEW at1 \in Contexts,
                        NEW at2 \in Contexts, NEW t1, NEW t2,
                        SameFor(e, at1, at2), Related("follow", x, Symbols, t1, t2)
                 PROVE  /\ Keeps("follow", x, Symbols, Answer(AskType(e, at1, t1), Answers[n + 1]),
                                                       Answer(AskType(e, at2, t2), Answers[n + 1]))
                        /\ Keeps("follow", x, Symbols, Answer(AskValue(e, at1, t1), Answers[n + 1]),
                                                       Answer(AskValue(e, at2, t2), Answers[n + 1]))
        BY DEF Sim
    <3>1. Keeps("follow", x, Symbols, Answer(AskType(e, at1, t1), Answers[n + 1]),
                                      Answer(AskType(e, at2, t2), Answers[n + 1]))
        BY <2>1 DEF Keeps, Excused
    <3>2. Keeps("follow", x, Symbols, Answer(AskValue(e, at1, t1), Answers[n + 1]),
                                      Answer(AskValue(e, at2, t2), Answers[n + 1]))
        BY <2>1 DEF Keeps, Excused
    <3>3. QED BY <3>1, <3>2
  <2>3. QED BY <2>2
<1> HIDE DEF T
<1>4. \A n \in Nat : n \in T
    BY <1>2, <1>3, SetInduction
<1>5. QED BY <1>4 DEF T

----------------------------------------------------------------------------
(* The printer                                                              *)

FreshOf(e, x) == Answer(AskType(e, Outside, EmptyTable(x)), Answers[MaxDepth]).out

IsFresh(shown_type, e, x) == Thrown(FreshOf(e, x)) \/ shown_type \in {FreshOf(e, x), OutOfMemory}

CacheInv ==
    /\ LanguageInv
    /\ Closed(symbols.exports) =>
          /\ Solid(symbols, symbols.exports)
          /\ \A i \in DOMAIN shown : IsFresh(shown[i], symbols.exports[i], symbols.exports)

LEMMA EmptyIsSolid == ASSUME NEW x PROVE Solid(EmptyTable(x), x) /\ Known(EmptyTable(x)) = {}
<1>1. Known(EmptyTable(x)) = {}
    BY EmptyIsTable, NoAnswers DEF Known
<1>2. IsTable(EmptyTable(x)) /\ EmptyTable(x).exports = x
    BY EmptyIsTable
<1>3. QED BY <1>1, <1>2 DEF Solid, Just, Complete

(* A table in use and a new one.                                            *)
LEMMA UsedAnswersFresh ==
    ASSUME NEW x, Closed(x), NEW t, Solid(t, x), t.evaluated = {}, NEW e
    PROVE  IsFresh(Answer(AskType(e, Outside, t), Answers[MaxDepth]).out, e, x)
<1> DEFINE r1 == Answer(AskType(e, Outside, EmptyTable(x)), Answers[MaxDepth])
           r2 == Answer(AskType(e, Outside, t), Answers[MaxDepth])
<1>1. Sim("follow", x, Symbols, Answers[MaxDepth], Answers[MaxDepth])
    BY AnswersFollow, BoundsAreNatural
<1>2. Solid(EmptyTable(x), x) /\ Known(EmptyTable(x)) = {} /\ EmptyTable(x).evaluated = {}
    BY EmptyIsSolid, EmptyIsTable
<1>3. Related("follow", x, Symbols, EmptyTable(x), t) /\ SameFor(e, Outside, Outside)
    BY <1>2 DEF Related, Solid, SameFor
<1>4. Keeps("follow", x, Symbols, r1, r2)
    BY <1>1, <1>3, CallKeeps
<1>5. Known(r1.table) \subseteq Symbols
    BY DEF Known
<1>6. Thrown(r1.out) \/ r2.out \in {r1.out, OutOfMemory}
    BY <1>4, <1>5 DEF Keeps, Excused
<1>7. QED BY <1>6 DEF IsFresh, FreshOf

LEMMA CacheInvInit == Init => CacheInv
<1> SUFFICES ASSUME Init PROVE CacheInv
    OBVIOUS
<1>1. PICK x : symbols = EmptyTable(x)
    BY DEF Init
<1>2. shown = <<>>
    BY DEF Init
<1>3. Solid(symbols, symbols.exports)
    BY <1>1, EmptyIsSolid, EmptyIsTable
<1>4. QED BY <1>2, <1>3, LanguageInvInit DEF CacheInv

LEMMA CacheInvStep == CacheInv /\ [Next]_vars => CacheInv'
<1> SUFFICES ASSUME CacheInv, [Next]_vars PROVE CacheInv'
    OBVIOUS
<1>1. LanguageInv /\ LanguageInv'
    BY LanguageInvStep DEF CacheInv
<1>2. CASE PrintExport
  <2> DEFINE x == symbols.exports
             r == Answer(AskType(x[line], Outside, symbols), Answers[MaxDepth])
  <2>1. /\ symbols' = r.table /\ shown' = Append(shown, r.out)
        /\ Grows(symbols, symbols')
    BY <1>1, <1>2, PrintExportIsHonest
  <2>2. symbols'.exports = x
    BY <2>1 DEF Grows
  <2>3. PICK S : shown \in Seq(S)
    BY <1>1 DEF LanguageInv
  <2>4. line = Len(shown) + 1
    BY <1>1, <1>2 DEF LanguageInv, PrintExport
  <2>5. ASSUME Closed(x)
        PROVE  /\ Solid(symbols', x)
               /\ \A i \in DOMAIN shown' : IsFresh(shown'[i], x[i], x)
    <3>1. Solid(symbols, x) /\ symbols.evaluated = {}
        BY <1>1, <2>5 DEF CacheInv, LanguageInv
    <3>2. KeepsSolid(Answers[MaxDepth], x)
        BY <2>5, AnswersStaySolid, BoundsAreNatural
    <3>3. Solid(symbols', x)
        BY <2>1, <3>1, <3>2 DEF KeepsSolid
    <3>4. IsFresh(r.out, x[line], x)
        BY <2>5, <3>1, UsedAnswersFresh
    <3>5. \A i \in DOMAIN shown : IsFresh(shown[i], x[i], x)
        BY <2>5 DEF CacheInv
    <3> HIDE DEF x, r
    <3>6. /\ DOMAIN shown' = DOMAIN shown \cup {Len(shown) + 1}
          /\ \A i \in DOMAIN shown : shown'[i] = shown[i]
          /\ shown'[Len(shown) + 1] = r.out
        BY <2>1, <2>3, Appended
    <3>7. QED BY <2>4, <3>3, <3>4, <3>5, <3>6
  <2>6. QED BY <1>1, <2>2, <2>5 DEF CacheInv
<1>3. CASE PrintAgain
    BY <1>1, <1>3 DEF PrintAgain, CacheInv
<1>4. CASE UNCHANGED vars
    BY <1>1, <1>4 DEF vars, CacheInv
<1>5. QED BY <1>2, <1>3, <1>4 DEF Next

(* In a module of closed exports, of whatever size and shape, a table that  *)
(* remembers types gives the types that a new table gives, whatever it was  *)
(* asked for before and however that ended: type_of may return a type that  *)
(* is known (language.cpp:423-426) and remember one that it found while     *)
(* other symbols were marked (language.cpp:433-438).                        *)
THEOREM TypesAreTransparent == Spec => []CacheIsTransparent
<1>1. CacheInv => CacheIsTransparent
  <2> SUFFICES ASSUME CacheInv, IsClosedModule
               PROVE  /\ \A i \in DOMAIN shown :
                            IsFresh(shown[i], symbols.exports[i], symbols.exports)
                      /\ \A s \in Symbols : IsSome(symbols.known_type[s]) =>
                            \/ Thrown(FreshOf(Exported(s, symbols), symbols.exports))
                            \/ symbols.known_type[s] = FreshOf(Exported(s, symbols), symbols.exports)
    BY DEF CacheIsTransparent, FreshType, FreshOf, IsFresh
  <2> DEFINE x == symbols.exports
  <2>1. Closed(x) /\ Solid(symbols, x)
    BY DEF IsClosedModule, Closed, CacheInv
  <2>2. \A i \in DOMAIN shown : IsFresh(shown[i], x[i], x)
    BY <2>1 DEF CacheInv
  <2> HIDE DEF x
  <2>3. ASSUME NEW s \in Symbols, IsSome(symbols.known_type[s]),
               ~Thrown(FreshOf(Exported(s, symbols), x))
        PROVE  symbols.known_type[s] = FreshOf(Exported(s, symbols), x)
    <3>1. Outside \in Contexts
        BY DEF Outside, With, Contexts
    <3>2. symbols.known_type[s] = TrueType(Exported(s, symbols), Outside, x)
        BY <2>1, <2>3, <3>1 DEF Solid, Just, Known
    <3>3. Just(EmptyTable(x), x) /\ MaxDepth \in Nat
        BY EmptyIsSolid, BoundsAreNatural DEF Solid
    <3>4. FreshOf(Exported(s, symbols), x) = TrueType(Exported(s, symbols), Outside, x)
        BY <2>1, <2>3, <3>3, AnswersAreMeant DEF FreshOf
    <3>5. QED BY <3>2, <3>4
  <2>4. QED BY <2>2, <2>3 DEF x
<1>2. Spec => []CacheInv
    BY CacheInvInit, CacheInvStep, PTL DEF Spec
<1>3. QED BY <1>1, <1>2, PTL

=============================================================================
