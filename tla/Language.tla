------------------------------ MODULE Language ------------------------------
(***************************************************************************)
(* The expression language of test/language.cpp: type_of and evaluate over *)
(* expressions, the local_symbol_table through which the exports of a      *)
(* module see each other, and the pretty printer that asks for the type of *)
(* each export.                                                            *)
(*                                                                         *)
(* type_of and evaluate call each other and the table, which remembers the *)
(* types it has found and marks the symbols it is working on.  They return *)
(* an optional or throw; here they return what came out and the table as   *)
(* they leave it.  The C++ stack is reduced to the number of calls of      *)
(* type_of and evaluate that can be nested: Answers[n] answers every       *)
(* question for which n nested calls are enough.                           *)
(***************************************************************************)
EXTENDS Naturals, Sequences

CONSTANTS
    Keys,         \* the names of the exports, in order
    Modules,      \* the modules: the expressions exported under Keys
    MaxDepth,     \* bound: calls that can be nested on the stack
    MaxHeight,    \* bound: height of the types, values and expressions
    MaxPrints     \* bound: times the module is printed

ASSUME BoundsAreNatural == MaxDepth \in Nat /\ MaxHeight \in Nat /\ MaxPrints \in Nat

ASSUME KeysAreNames == Keys \in Seq(STRING)

Symbols == {Keys[i] : i \in DOMAIN Keys}

----------------------------------------------------------------------------
(* Types, values, expressions and results                                   *)

IntegerType          == [k |-> "integer_type"]
UnitType             == [k |-> "tuple_type"]
TypeType             == [k |-> "type_type"]
FunctionType(p, r)   == [k |-> "function_type", parameter |-> p, result |-> r]
GenericFunction(p)   == [k |-> "generic_function_type", parameter |-> p]

Integer              == [k |-> "integer"]
Unit                 == [k |-> "tuple"]
TypeValue(t)         == [k |-> "type", type |-> t]
Closure(bound, body) == [k |-> "closure", bound |-> bound, body |-> body]

Literal(v)           == [k |-> "literal", value |-> v]
LocalSymbol(s)       == [k |-> "local_symbol", name |-> s]
Argument             == [k |-> "argument"]
BoundValue           == [k |-> "bound_value"]
Return(e)            == [k |-> "return", result |-> e]
Call(f, a)           == [k |-> "call", callee |-> f, argument |-> a]
Lambda(b, p, e)      == [k |-> "lambda", bound |-> b, parameter |-> p, body |-> e]

(* The types, values and expressions of a height up to h.                   *)
Terms[h \in Nat] ==
    IF h = 0 THEN [types |-> {}, values |-> {}, expressions |-> {}]
    ELSE LET t == Terms[h - 1] IN
        [types |->
            {IntegerType, UnitType, TypeType}
            \cup [k : {"function_type"}, parameter : t.types, result : t.types]
            \cup [k : {"generic_function_type"}, parameter : t.types],
         values |->
            {Integer, Unit}
            \cup [k : {"type"}, type : t.types]
            \cup [k : {"closure"}, bound : t.values, body : t.expressions],
         expressions |->
            {Argument, BoundValue}
            \cup [k : {"literal"}, value : t.values]
            \cup [k : {"local_symbol"}, name : STRING]
            \cup [k : {"return"}, result : t.expressions]
            \cup [k : {"call"}, callee : t.expressions, argument : t.expressions]
            \cup [k : {"lambda"}, bound : t.expressions, parameter : t.expressions,
                  body : t.expressions]]

None                 == [k |-> "none"]
Throws(what)         == [k |-> "throws", what |-> what]
NotImplemented       == Throws("not implemented")
DependsOnItself      == Throws("depends on itself")
StackOverflow        == Throws("stack overflow")
OutOfMemory          == Throws("out of memory")

IsSome(out)          == out.k \notin {"none", "throws"}
Thrown(out)          == out.k = "throws"

Yield(out, table)    == [out |-> out, table |-> table]

(* The next call, unless this one threw.                                    *)
AndThen(r, Next1(_, _)) == IF Thrown(r.out) THEN r ELSE Next1(r.out, r.table)

----------------------------------------------------------------------------
(* The symbol table                                                         *)

EmptyTable(exports) ==
    [exports     |-> exports,
     known_type  |-> [s \in Symbols |-> None],
     known_value |-> [s \in Symbols |-> None],
     evaluated   |-> {}]           \* the symbols with is_being_evaluated

Tables ==
    [exports     : Modules,
     known_type  : [Symbols -> Terms[MaxHeight].types \cup {None}],
     known_value : [Symbols -> Terms[MaxHeight].values \cup {None}],
     evaluated   : SUBSET Symbols]

(* The first export of that name.                                           *)
Exported(s, table) ==
    table.exports[CHOOSE i \in DOMAIN Keys : Keys[i] = s /\ \A j \in 1 .. i - 1 : Keys[j] # s]

Mark(s, table)     == [table EXCEPT !.evaluated = @ \cup {s}]
Unmark(s, table)   == [table EXCEPT !.evaluated = @ \ {s}]

----------------------------------------------------------------------------
(* Questions: the calls of type_of and evaluate                             *)

(* What a call hands down: the bound value, the type of the argument and    *)
(* the argument, each of them optional.                                     *)
With(bound, argument_type, argument) ==
    [bound |-> bound, argument_type |-> argument_type, argument |-> argument]
Outside == With(None, None, None)

AskType(e, at, table)  == [ask |-> "type_of", of |-> e, at |-> at, table |-> table]
AskValue(e, at, table) == [ask |-> "evaluate", of |-> e, at |-> at, table |-> table]

(* The calls whose arguments fit into memory.                               *)
Contexts ==
    LET t == Terms[MaxHeight] IN
    [bound : t.values \cup {None}, argument_type : t.types \cup {None},
     argument : t.values \cup {None}]
Questions ==
    [ask : {"type_of", "evaluate"}, of : Terms[MaxHeight].expressions, at : Contexts,
     table : Tables]

(* What a call returns; it throws if what it is given does not fit.         *)
Answer(q, answers) == IF q \in Questions THEN answers[q] ELSE Yield(OutOfMemory, q.table)

----------------------------------------------------------------------------
(* local_symbol_table                                                       *)

(* Seeded fault: the mark stays when an exception passes.                   *)
Leave_MarkStays(s, r) ==
    IF Thrown(r.out) THEN r ELSE Yield(r.out, Unmark(s, r.table))

(* BOOST_SCOPE_EXIT                                                         *)
Leave(s, r) == Yield(r.out, Unmark(s, r.table))

(* Seeded fault: the type is found again although it is known.              *)
SymbolTypeOf_FindsAgain(s, at, table, answers) ==
    CASE s \notin Symbols                   -> Yield(NotImplemented, table)
      [] s \in Symbols \cap table.evaluated -> Yield(DependsOnItself, table)
      [] OTHER ->
            LET r == Leave(s, Answer(AskType(Exported(s, table), at, Mark(s, table)), answers)) IN
            IF IsSome(r.out)
            THEN Yield(r.out, [r.table EXCEPT !.known_type[s] = r.out])
            ELSE r

(* local_symbol_table::type_of                                              *)
SymbolTypeOf(s, at, table, answers) ==
    CASE s \notin Symbols                    -> Yield(NotImplemented, table)
      [] s \in Symbols \cap table.evaluated  -> Yield(DependsOnItself, table)
      [] s \in Symbols \ table.evaluated /\ IsSome(table.known_type[s]) ->
            Yield(table.known_type[s], table)
      [] OTHER ->
            LET r == Leave(s, Answer(AskType(Exported(s, table), at, Mark(s, table)), answers)) IN
            IF IsSome(r.out)
            THEN Yield(r.out, [r.table EXCEPT !.known_type[s] = r.out])
            ELSE r

(* local_symbol_table::evaluate, which never looks at known_value           *)
SymbolEvaluate(s, at, table, answers) ==
    CASE s \notin Symbols                   -> Yield(NotImplemented, table)
      [] s \in Symbols \cap table.evaluated -> Yield(DependsOnItself, table)
      [] OTHER ->
            LET r == Leave(s, Answer(AskValue(Exported(s, table), at, Mark(s, table)), answers)) IN
            IF IsSome(r.out)
            THEN Yield(r.out, [r.table EXCEPT !.known_value[s] = r.out])
            ELSE r

----------------------------------------------------------------------------
(* evaluate                                                                 *)

EvaluateLambda(e, at, table, answers) ==
    AndThen(Answer(AskValue(e.bound, at, table), answers), LAMBDA new_bound, t1 :
        IF IsSome(new_bound)
        THEN Yield(Closure(new_bound, e.body), t1)
        ELSE Yield(NotImplemented, t1))

Evaluate(e, at, table, answers) ==
    CASE e.k = "literal"      -> Yield(e.value, table)
      [] e.k = "lambda"       -> EvaluateLambda(e, at, table, answers)
      [] e.k = "bound_value"  -> Yield(at.bound, table)
      [] e.k = "argument"     -> Yield(at.argument, table)
      [] e.k = "local_symbol" -> SymbolEvaluate(e.name, at, table, answers)
      [] OTHER                -> Yield(NotImplemented, table)

----------------------------------------------------------------------------
(* type_of                                                                  *)

(* type_of of a value is there for types only.                              *)
TypeOfValue(v) == IF v.k = "type" THEN TypeType ELSE NotImplemented

(* Seeded fault: the type of a function is that of its result.              *)
TypeOfBody_ResultOnly(e, new_bound, parameter, table, answers) ==
    CASE parameter.k = "none" -> Yield(None, table)
      [] parameter.k = "type" ->
            Answer(AskType(e.body, With(new_bound, parameter.type, None), table), answers)
      [] OTHER -> Yield(NotImplemented, table)

(* A lambda whose parameter type is known is a function; a generic one if   *)
(* the type of its result depends on the value of its argument.             *)
TypeOfBody(e, new_bound, parameter, table, answers) ==
    CASE parameter.k = "none" -> Yield(None, table)
      [] parameter.k = "type" ->
            AndThen(Answer(AskType(e.body, With(new_bound, parameter.type, None), table), answers),
                LAMBDA result, t1 :
                    Yield(IF IsSome(result) THEN FunctionType(parameter.type, result)
                                            ELSE GenericFunction(parameter.type), t1))
      [] OTHER -> Yield(NotImplemented, table)

(* Seeded fault: the parameter is evaluated with the caller's bound value.  *)
TypeOfLambda_CallersBound(e, at, table, answers) ==
    AndThen(Answer(AskValue(e.bound, at, table), answers), LAMBDA new_bound, t1 :
    AndThen(Answer(AskValue(e.parameter, at, t1), answers), LAMBDA parameter, t2 :
        TypeOfBody(e, new_bound, parameter, t2, answers)))

TypeOfLambda(e, at, table, answers) ==
    AndThen(Answer(AskValue(e.bound, at, table), answers), LAMBDA new_bound, t1 :
    AndThen(Answer(AskValue(e.parameter, [at EXCEPT !.bound = new_bound], t1), answers),
        LAMBDA parameter, t2 : TypeOfBody(e, new_bound, parameter, t2, answers)))

(* The type of a generic function's result is that of its body, given the   *)
(* value of the argument.                                                   *)
TypeOfGenericCall(e, at, table, answers) ==
    AndThen(Answer(AskValue(e.callee, at, table), answers), LAMBDA callee, t1 :
    AndThen(Answer(AskValue(e.argument, at, t1), answers), LAMBDA passed, t2 :
        IF IsSome(passed) /\ callee.k = "closure"
        THEN Answer(AskType(callee.body, With(callee.bound, None, passed), t2), answers)
        ELSE Yield(NotImplemented, t2)))

TypeOfCall(e, at, table, answers) ==
    AndThen(Answer(AskType(e.callee, at, table), answers), LAMBDA callee, t1 :
        CASE callee.k = "function_type"         -> Yield(callee.result, t1)
          [] callee.k = "generic_function_type" -> TypeOfGenericCall(e, at, t1, answers)
          [] OTHER                              -> Yield(NotImplemented, t1))

TypeOf(e, at, table, answers) ==
    CASE e.k = "literal"      -> Yield(TypeOfValue(e.value), table)
      [] e.k = "lambda"       -> TypeOfLambda(e, at, table, answers)
      [] e.k = "argument"     -> Yield(at.argument_type, table)
      [] e.k = "return"       -> Answer(AskType(e.result, at, table), answers)
      [] e.k = "call"         -> TypeOfCall(e, at, table, answers)
      [] e.k = "local_symbol" -> SymbolTypeOf(e.name, at, table, answers)
      [] OTHER                -> Yield(NotImplemented, table)

NoCall == [q \in Questions |-> Yield(StackOverflow, q.table)]

OneCall(answers) ==
    [q \in Questions |->
        IF q.ask = "type_of" THEN TypeOf(q.of, q.at, q.table, answers)
                             ELSE Evaluate(q.of, q.at, q.table, answers)]

(* What the calls return when n calls fit on the stack.                     *)
Answers[n \in Nat] == IF n = 0 THEN NoCall ELSE OneCall(Answers[n - 1])

----------------------------------------------------------------------------
(* pretty_print of a module                                                 *)

(* The expressions of any kind.                                             *)
Expressions == Terms[MaxHeight].expressions

(* Whether pretty_print has a text for an expression: it throws at a        *)
(* literal that holds a closure.  Each of the types here has a text.        *)
IsPrintable[e \in Expressions] ==
    CASE e.k = "literal" -> e.value.k # "closure"
      [] e.k = "return"  -> IsPrintable[e.result]
      [] e.k = "call"    -> IsPrintable[e.callee] /\ IsPrintable[e.argument]
      [] e.k = "lambda"  ->
            IsPrintable[e.bound] /\ IsPrintable[e.parameter] /\ IsPrintable[e.body]
      [] OTHER           -> TRUE

VARIABLES
    symbols,      \* the local_symbol_table of the module
    line,         \* the export that pretty_print is at
    shown,        \* the types printed by the pretty_print that runs
    prints        \* how often pretty_print was called

vars == <<symbols, line, shown, prints>>

Init ==
    /\ symbols \in {EmptyTable(exports) : exports \in Modules}
    /\ line = 1
    /\ shown = <<>>
    /\ prints = 1

(* The type of the next export is asked for and printed, and then its       *)
(* expression.  An exception from either ends the printing and leaves the   *)
(* table to the caller.                                                     *)
PrintExport ==
    /\ line \in DOMAIN Keys
    /\ LET r == Answer(AskType(symbols.exports[line], Outside, symbols), Answers[MaxDepth]) IN
       /\ symbols' = r.table
       /\ shown' = Append(shown, r.out)
       /\ line' = IF Thrown(r.out) \/ ~IsPrintable[symbols.exports[line]]
                  THEN Len(Keys) + 1
                  ELSE line + 1
    /\ UNCHANGED prints

(* The environment: a caller that keeps the table may print the module      *)
(* again, after a printing that came to its end or threw.  It cannot when   *)
(* the stack or the memory was exhausted, which ends the program.           *)
PrintAgain ==
    /\ line \notin DOMAIN Keys
    /\ ~ \E i \in DOMAIN shown : shown[i] \in {StackOverflow, OutOfMemory}
    /\ prints < MaxPrints
    /\ prints' = prints + 1
    /\ line' = 1
    /\ shown' = <<>>
    /\ UNCHANGED symbols

Next == PrintExport \/ PrintAgain

Spec == Init /\ [][Next]_vars

----------------------------------------------------------------------------

(* An expression that means the same wherever it is used: a function that   *)
(* takes neither its bound value nor its parameter type from its caller.    *)
IsClosed(e) ==
    /\ e.k = "lambda"
    /\ e.bound.k = "literal"
    /\ e.parameter.k \in {"literal", "bound_value"}

IsClosedModule == \A i \in DOMAIN Keys : IsClosed(symbols.exports[i])

(* What a table that has not been asked for anything says of e.             *)
FreshType(e) ==
    Answer(AskType(e, Outside, EmptyTable(symbols.exports)), Answers[MaxDepth]).out

(* No symbol stays marked when a call into the table is over, however the   *)
(* call ended; a mark that stayed would make later uses of the symbol look  *)
(* like a cycle (language.cpp:428-432, 460-464).                            *)
MarksAreReleased == symbols.evaluated = {}

(* A remembered type is never replaced: a symbol has one type from then on, *)
(* also where it is used inside of another function (language.cpp:423-426,  *)
(* 438).                                                                    *)
KnownTypesAreKept ==
    [][\A s \in Symbols : IsSome(symbols.known_type[s]) =>
            symbols'.known_type[s] = symbols.known_type[s]]_vars

(* In a module of closed exports a table that remembers types gives the     *)
(* types that a new one gives, whatever it was asked for before; it may give*)
(* one where a new table throws (language.cpp:419-439).                     *)
CacheIsTransparent ==
    IsClosedModule =>
        /\ \A i \in DOMAIN shown :
              LET fresh == FreshType(symbols.exports[i]) IN
              Thrown(fresh) \/ shown[i] \in {fresh, OutOfMemory}
        /\ \A s \in Symbols :
              LET fresh == FreshType(Exported(s, symbols)) IN
              IsSome(symbols.known_type[s]) =>
                  Thrown(fresh) \/ symbols.known_type[s] = fresh

(* The type and the value of an export agree: a closure has a function type *)
(* and a type has the type of types (language.cpp:485-488, 529-537, 643-649)*)
TypeFitsValue ==
    \A i \in DOMAIN shown :
        LET t == shown[i]
            v == Answer(AskValue(symbols.exports[i], Outside, symbols), Answers[MaxDepth]).out IN
        IsSome(t) /\ IsSome(v) =>
            IF v.k = "closure"
            THEN t.k \in {"function_type", "generic_function_type"}
            ELSE v.k = "type" /\ t = TypeType

(* A symbol that depends on itself is reported (language.cpp:419-422,       *)
(* 455-458), so the nesting of calls stays bounded.                         *)
RecursionIsReported == StackOverflow \notin {shown[i] : i \in DOMAIN shown}

=============================================================================
