----------------------------- MODULE MCLanguage -----------------------------
(***************************************************************************)
(* Language for TLC: modules of two small expressions, among them those of *)
(* the tests and expressions that refer to each other, to themselves and   *)
(* to nothing; and modules of three functions that need nothing but each   *)
(* other, since whether a table remembers only shows when one export asks  *)
(* for another while a third is being asked for.                           *)
(***************************************************************************)
EXTENDS Language

TwoKeys   == <<"x", "y">>
ThreeKeys == <<"x", "y", "z">>

AnInteger    == Literal(Integer)
AType        == Literal(TypeValue(IntegerType))
TypeLiterals == {Literal(TypeValue(t)) : t \in {IntegerType, UnitType, TypeType}}
References   == {LocalSymbol("x"), LocalSymbol("y")}
Atoms        == References \cup {Argument, BoundValue, LocalSymbol("unknown"), AnInteger, AType}
Calls        == {Call(f, a) : f \in References, a \in {Argument, AnInteger, AType}}
CallsOfCalls == {Call(Call(f, AType), AnInteger) : f \in References}
Generics     == {Lambda(Argument, BoundValue, e) :
                    e \in {Return(Argument)} \cup References \cup Calls}

Bodies    == {Return(Argument)} \cup Atoms \cup Calls \cup CallsOfCalls \cup Generics
Functions == {Lambda(Literal(b), p, e) :
                b \in {Unit, TypeValue(IntegerType)},
                p \in TypeLiterals \cup {BoundValue, Argument},
                e \in Bodies}

(* A function that has a type but no text: its bound value is a closure.    *)
BindsAClosure ==
    Lambda(Literal(Closure(Unit, Argument)), Literal(TypeValue(TypeType)), Return(Argument))

(* A function of types that takes nothing from whoever uses it.             *)
ClosedFunction(e) == Lambda(Literal(Unit), Literal(TypeValue(TypeType)), e)

Exports == Atoms \cup Functions

(* The ways a function uses another: its type, its value or both.           *)
Uses(f) == {f, Call(f, AType), Lambda(f, Literal(TypeValue(TypeType)), Return(Argument))}

(* Functions that use the same export, each with an argument of its own.    *)
Users == {Lambda(Literal(Unit), p, LocalSymbol("x")) : p \in TypeLiterals}

(* Two exports of any kind; an export and two users of it; three functions  *)
(* that use each other.                                                     *)
SmallModules ==
    ((Exports \cup {BindsAClosure}) \X Exports \X {ClosedFunction(Return(Argument))})
    \cup (Exports \X Users \X Users)
    \cup [1 .. 3 -> {ClosedFunction(e) :
                       e \in {Return(Argument)} \cup UNION {Uses(LocalSymbol(s)) : s \in Symbols}}]

FewModules == [1 .. 2 -> {ClosedFunction(e) : e \in Bodies}]

=============================================================================
