-------------------------- MODULE GraphValuesProofs --------------------------
(***************************************************************************)
(* Theorems about GraphValues, for listings of any size, all numbers and   *)
(* both values of Radix, that of the code included.                        *)
(***************************************************************************)
EXTENDS GraphValues, TLAPS

----------------------------------------------------------------------------
(* Numbers                                                                  *)

LEMMA CharsAreDigits ==
  ASSUME NEW d \in 0 .. Radix - 1
  PROVE  SignedChar(d) \in Chars /\ UnsignedChar(SignedChar(d)) = d
  BY RadixAssumption DEF SignedChar, UnsignedChar, Chars

(* The four digits of a number.                                             *)
LEMMA DigitsInBase256 ==
  ASSUME NEW n \in Nat, n <= 4294967295
  PROVE  /\ n % 256 \in 0 .. 255 /\ (n \div 256) % 256 \in 0 .. 255
         /\ (n \div 65536) % 256 \in 0 .. 255 /\ (n \div 16777216) % 256 \in 0 .. 255
         /\ n = (n % 256) + 256 * (((n \div 256) % 256) + 256 * (((n \div 65536) % 256)
                   + 256 * ((n \div 16777216) % 256)))
  <1>1. n \div 65536 = (n \div 256) \div 256
    BY SMT
  <1>2. n \div 16777216 = (n \div 65536) \div 256
    BY SMT
  <1>3. /\ n = (n % 256) + 256 * (n \div 256)
        /\ n % 256 \in 0 .. 255 /\ n \div 256 \in Nat
    BY SMT
  <1>4. \A m \in Nat : /\ m = (m % 256) + 256 * (m \div 256)
                       /\ m % 256 \in 0 .. 255 /\ m \div 256 \in Nat
    BY SMT
  <1>5. n \div 65536 \in Nat /\ n \div 16777216 \in 0 .. 255
    BY SMT
  <1>6. n \div 256 = ((n \div 256) % 256) + 256 * (n \div 65536) /\ (n \div 256) % 256 \in 0 .. 255
    BY SMT, <1>1, <1>3, <1>4
  <1>7. n \div 65536 = ((n \div 65536) % 256) + 256 * (n \div 16777216) /\ (n \div 65536) % 256 \in 0 .. 255
    BY SMT, <1>2, <1>4, <1>5
  <1>8. n \div 16777216 = (n \div 16777216) % 256
    BY SMT, <1>5
  <1>9. QED
    BY SMT, <1>3, <1>5, <1>6, <1>7, <1>8

LEMMA DigitsInBase4 ==
  ASSUME NEW n \in Nat, n <= 255
  PROVE  /\ n % 4 \in 0 .. 3 /\ (n \div 4) % 4 \in 0 .. 3
         /\ (n \div 16) % 4 \in 0 .. 3 /\ (n \div 64) % 4 \in 0 .. 3
         /\ n = (n % 4) + 4 * (((n \div 4) % 4) + 4 * (((n \div 16) % 4)
                   + 4 * ((n \div 64) % 4)))
  <1>1. n \div 16 = (n \div 4) \div 4
    BY SMT
  <1>2. n \div 64 = (n \div 16) \div 4
    BY SMT
  <1>3. /\ n = (n % 4) + 4 * (n \div 4)
        /\ n % 4 \in 0 .. 3 /\ n \div 4 \in Nat
    BY SMT
  <1>4. \A m \in Nat : /\ m = (m % 4) + 4 * (m \div 4)
                       /\ m % 4 \in 0 .. 3 /\ m \div 4 \in Nat
    BY SMT
  <1>5. n \div 16 \in Nat /\ n \div 64 \in 0 .. 3
    BY SMT
  <1>6. n \div 4 = ((n \div 4) % 4) + 4 * (n \div 16) /\ (n \div 4) % 4 \in 0 .. 3
    BY SMT, <1>1, <1>3, <1>4
  <1>7. n \div 16 = ((n \div 16) % 4) + 4 * (n \div 64) /\ (n \div 16) % 4 \in 0 .. 3
    BY SMT, <1>2, <1>4, <1>5
  <1>8. n \div 64 = (n \div 64) % 4
    BY SMT, <1>5
  <1>9. QED
    BY SMT, <1>3, <1>5, <1>6, <1>7, <1>8

LEMMA Digits ==
  ASSUME NEW n \in UInt32
  PROVE  LET d0 == n % Radix
             d1 == (n \div Radix) % Radix
             d2 == (n \div (Radix * Radix)) % Radix
             d3 == (n \div (Radix * Radix * Radix)) % Radix
         IN  /\ d0 \in 0 .. Radix - 1 /\ d1 \in 0 .. Radix - 1
             /\ d2 \in 0 .. Radix - 1 /\ d3 \in 0 .. Radix - 1
             /\ n = d0 + Radix * (d1 + Radix * (d2 + Radix * d3))
  <1>1. CASE Radix = 256
    <2>1. Radix * Radix = 65536 /\ Radix * Radix * Radix = 16777216 /\ Radix - 1 = 255
      BY SMT, <1>1
    <2>2. Radix * Radix * Radix * Radix - 1 = 4294967295
      BY SMT, <1>1
    <2>3. n \in Nat /\ n <= 4294967295
      BY SMT, <2>2 DEF UInt32, UInt32Range
    <2>4. QED
      BY SMT, <1>1, <2>1, <2>3, DigitsInBase256
  <1>2. CASE Radix = 4
    <2>1. Radix * Radix = 16 /\ Radix * Radix * Radix = 64 /\ Radix - 1 = 3
      BY SMT, <1>2
    <2>2. Radix * Radix * Radix * Radix - 1 = 255
      BY SMT, <1>2
    <2>3. n \in Nat /\ n <= 255
      BY SMT, <2>2 DEF UInt32, UInt32Range
    <2>4. QED
      BY SMT, <1>2, <2>1, <2>3, DigitsInBase4
  <1>3. QED
    BY <1>1, <1>2, RadixAssumption

(* uint32_to_le writes four chars from which the number can be read back.   *)
LEMMA EncodingIsExact ==
  ASSUME NEW n \in UInt32
  PROVE  /\ Uint32ToLe(n) \in Seq(Chars)
         /\ FromLittleEndian(Uint32ToLe(n)) = n
  <1> DEFINE d0 == n % Radix
             d1 == (n \div Radix) % Radix
             d2 == (n \div (Radix * Radix)) % Radix
             d3 == (n \div (Radix * Radix * Radix)) % Radix
  <1>1. /\ d0 \in 0 .. Radix - 1 /\ d1 \in 0 .. Radix - 1
        /\ d2 \in 0 .. Radix - 1 /\ d3 \in 0 .. Radix - 1
        /\ n = d0 + Radix * (d1 + Radix * (d2 + Radix * d3))
    BY Digits
  <1>2. Uint32ToLe(n) = <<SignedChar(d0), SignedChar(d1), SignedChar(d2), SignedChar(d3)>>
    BY DEF Uint32ToLe
  <1> HIDE DEF d0, d1, d2, d3
  <1>3. Uint32ToLe(n) \in Seq(Chars)
    <2>1. /\ SignedChar(d0) \in Chars /\ SignedChar(d1) \in Chars
          /\ SignedChar(d2) \in Chars /\ SignedChar(d3) \in Chars
      BY <1>1, CharsAreDigits
    <2>2. QED
      BY <1>2, <2>1
  <1>4. FromLittleEndian(Uint32ToLe(n)) = d0 + Radix * (d1 + Radix * (d2 + Radix * d3))
    BY <1>1, <1>2, CharsAreDigits DEF FromLittleEndian
  <1>5. QED
    BY <1>1, <1>3, <1>4

(* Below twice a modulus, the remainder differs by the modulus at most once.*)
LEMMA Remainder ==
  ASSUME NEW m \in Nat, m > 0, NEW x \in Nat, x < m + m
  PROVE  x % m \in 0 .. m - 1 /\ (x = x % m \/ x = (x % m) + m)
  <1>1. x % m \in 0 .. m - 1
    BY SMT
  <1>2. x = (x % m) + m * (x \div m) /\ x \div m \in Int
    BY SMT
  <1>3. x \div m = 0 \/ x \div m = 1
    BY SMT
  <1>4. QED
    BY SMT, <1>1, <1>2, <1>3

(* uint32_add loses 2^32 at most once.                                      *)
LEMMA SumWrapsOnce ==
  ASSUME NEW a \in UInt32, NEW b \in UInt32
  PROVE  /\ (a + b) % UInt32Range \in UInt32
         /\ \E q \in 0 .. 1 : ((a + b) % UInt32Range) + q * UInt32Range = a + b
  <1>1. UInt32Range \in Nat /\ UInt32Range > 0
    BY SMT, RadixAssumption DEF UInt32Range
  <1>2. a + b \in Nat /\ a + b < UInt32Range + UInt32Range
    BY SMT, <1>1 DEF UInt32
  <1>3. /\ (a + b) % UInt32Range \in 0 .. UInt32Range - 1
        /\ \/ a + b = (a + b) % UInt32Range
           \/ a + b = ((a + b) % UInt32Range) + UInt32Range
    BY <1>1, <1>2, Remainder
  <1>4. (a + b) % UInt32Range \in UInt32
    BY <1>3 DEF UInt32
  <1>5. CASE a + b = (a + b) % UInt32Range
    <2>1. ((a + b) % UInt32Range) + 0 * UInt32Range = a + b
      BY SMT, <1>1, <1>3, <1>5
    <2>2. QED
      BY <1>4, <2>1
  <1>6. CASE a + b = ((a + b) % UInt32Range) + UInt32Range
    <2>1. ((a + b) % UInt32Range) + 1 * UInt32Range = a + b
      BY SMT, <1>1, <1>3, <1>6
    <2>2. QED
      BY <1>4, <2>1
  <1>7. QED
    BY <1>3, <1>5, <1>6

----------------------------------------------------------------------------
(* Values and types                                                         *)

WellFormed(v) ==
    IF IsListing(v)
    THEN /\ DOMAIN v.entries \subseteq Keys
         /\ \A key \in DOMAIN v.entries : IsAtom(v.entries[key])
    ELSE IsAtom(v)

(* v has the type t, and a listing has no entry that t does not name.       *)
ExactlyOfType(v, t) ==
    /\ WellFormed(v)
    /\ Conforms(v, t)
    /\ IsListing(v) => DOMAIN v.entries = DOMAIN t.entries

(* A value can be used wherever its type can.                               *)
LEMMA FitsConforms ==
  ASSUME NEW v, NEW t, NEW u, Conforms(v, t), Fits(t, u)
  PROVE  Conforms(v, u)
  BY DEF Conforms, Fits, IsListing, HasEntryOfType

(* Inserting never takes away a type that was known.                        *)
LEMMA InsertKeepsTypes ==
  ASSUME NEW key \in Keys, NEW v \in Insertable,
         ExactlyOfType(current, type), Insert(key, v)
  PROVE  ExactlyOfType(current', type')
  <1> DEFINE entries == current.entries
             inserted == InsertEntry(entries, key, v)
  <1>1. /\ IsListing(current) /\ IsListing(type)
        /\ current' = Listing(inserted)
        /\ DOMAIN entries = DOMAIN type.entries
    BY DEF Insert, ExactlyOfType, Conforms, IsListing
  <1>2. current'.entries = inserted /\ current'.kind = "listing"
    BY <1>1 DEF Listing
  <1>3. /\ DOMAIN inserted = DOMAIN entries \cup {key}
        /\ \A k \in DOMAIN inserted : inserted[k] = IF k \in DOMAIN entries THEN entries[k] ELSE v
    BY DEF InsertEntry
  <1>4. IsAtom(v)
    BY NumbersAssumption DEF Insertable, Plain, Number, IsAtom
  <1>5. WellFormed(current')
    <2>1. /\ DOMAIN entries \subseteq Keys
          /\ \A k \in DOMAIN entries : IsAtom(entries[k])
      BY <1>1 DEF ExactlyOfType, WellFormed
    <2>2. QED
      BY <1>2, <1>3, <1>4, <2>1 DEF WellFormed, IsListing
  <1>6. \A k \in DOMAIN entries : HasEntryOfType(current', k, type.entries[k])
    <2>1. \A k \in DOMAIN entries : entries[k].kind = type.entries[k]
      BY <1>1 DEF ExactlyOfType, Conforms, HasEntryOfType
    <2>2. QED
      BY <1>2, <1>3, <2>1 DEF HasEntryOfType
  <1>7. CASE key \in DOMAIN type.entries
    <2>1. type' = type
      BY <1>7 DEF Insert
    <2>2. DOMAIN inserted = DOMAIN type'.entries
      BY <1>1, <1>3, <1>7, <2>1
    <2>3. QED
      BY <1>1, <1>2, <1>5, <1>6, <2>1, <2>2 DEF ExactlyOfType, Conforms, IsListing
  <1>8. CASE key \notin DOMAIN type.entries
    <2> DEFINE types == [k \in DOMAIN type.entries \cup {key} |->
                            IF k = key THEN v.kind ELSE type.entries[k]]
    <2>1. type' = Listing(types)
      BY <1>8 DEF Insert
    <2>2. type'.kind = "listing" /\ type'.entries = types
      BY <2>1 DEF Listing
    <2>3. DOMAIN inserted = DOMAIN types
      BY <1>1, <1>3
    <2>4. HasEntryOfType(current', key, types[key])
      BY <1>1, <1>2, <1>3, <1>8 DEF HasEntryOfType
    <2>5. \A k \in DOMAIN types : HasEntryOfType(current', k, types[k])
      BY <1>1, <1>6, <1>8, <2>4
    <2> HIDE DEF types
    <2>6. QED
      BY <1>2, <1>5, <2>2, <2>3, <2>5 DEF ExactlyOfType, Conforms, IsListing
  <1>9. QED
    BY <1>7, <1>8

(* What uint32_add finds and returns.                                       *)
LEMMA SumOfPair ==
  ASSUME NEW v, WellFormed(v), Conforms(v, PairType)
  PROVE  /\ Uint32Add(v) \in UInt32
         /\ \E q \in 0 .. 1 : Uint32Add(v) + q * UInt32Range
               = v.entries["first"].number + v.entries["second"].number
  <1>1. /\ IsListing(v)
        /\ \A key \in {"first", "second"} :
              key \in DOMAIN v.entries /\ v.entries[key].kind = "uint32"
    BY DEF Conforms, PairType, Listing, IsListing, HasEntryOfType
  <1>2. \A key \in {"first", "second"} : v.entries[key].number \in UInt32
    BY <1>1 DEF WellFormed, IsAtom, PlainKinds
  <1>3. QED
    BY <1>2, SumWrapsOnce DEF Uint32Add

(* What a command returns: its output and the directory it worked in.       *)
LEMMA OutputOfCommand ==
  ASSUME NEW path, path.kind = "absolute_path"
  PROVE  /\ ExactlyOfType(Listing([output |-> Blob(<<>>), destination |-> path]),
                          Listing([output |-> "blob", destination |-> "absolute_path"]))
         /\ ExactlyOfType(Listing([output |-> Blob(<<>>), build |-> path]),
                          Listing([output |-> "blob", build |-> "absolute_path"]))
  <1>1. IsAtom(path) /\ IsAtom(Blob(<<>>)) /\ Blob(<<>>).kind = "blob"
    BY DEF IsAtom, Blob, PlainKinds
  <1>2. QED
    BY <1>1 DEF ExactlyOfType, WellFormed, Conforms, Listing, IsListing, HasEntryOfType, Keys

(* A transformation that accepts a value returns one of its output type.    *)
LEMMA TransformKeepsTypes ==
  ASSUME NEW v, WellFormed(v), NEW t \in Transformations \ Identities, Conforms(v, Input(t))
  PROVE  ExactlyOfType(Transform(t, v), Output(t))
  <1>1. CASE t = "uint32_to_le"
    <2>1. Conforms(v, AtomicType("uint32"))
      BY <1>1 DEF Input
    <2>2. IsAtom(v) /\ v.kind = "uint32"
      BY <2>1 DEF WellFormed, Conforms, AtomicType, IsListing
    <2>3. v.number \in UInt32
      BY <2>2 DEF IsAtom, PlainKinds
    <2>4. Uint32ToLe(v.number) \in Seq(Chars)
      BY <2>3, EncodingIsExact
    <2>5. Transform(t, v) = Blob(Uint32ToLe(v.number)) /\ Output(t) = AtomicType("blob")
      BY <1>1 DEF Transform, Output, Identities
    <2>6. QED
      BY <2>4, <2>5 DEF ExactlyOfType, WellFormed, Conforms, IsListing, Blob, AtomicType, IsAtom
  <1>2. CASE t = "uint32_add"
    <2>1. Conforms(v, PairType)
      BY <1>2 DEF Input
    <2>2. Uint32Add(v) \in UInt32
      BY <2>1, SumOfPair
    <2>3. Transform(t, v) = Number(Uint32Add(v)) /\ Output(t) = AtomicType("uint32")
      BY <1>2 DEF Transform, Output, Identities
    <2>4. QED
      BY <2>2, <2>3 DEF ExactlyOfType, WellFormed, Conforms, IsListing, Number, AtomicType, IsAtom
  <1>3. CASE t = "clone"
    <2>1. Conforms(v, Listing([repository |-> "uri", destination |-> "absolute_path",
                               git |-> "absolute_path"]))
      BY <1>3 DEF Input, Identities
    <2>2. v.entries["destination"].kind = "absolute_path"
      BY <2>1 DEF Conforms, HasEntryOfType, Listing, IsListing
    <2>3. Transform(t, v)
            = Listing([output |-> Blob(<<>>), destination |-> v.entries["destination"]])
      BY <1>3 DEF Transform, Identities
    <2>4. Output(t) = Listing([output |-> "blob", destination |-> "absolute_path"])
      BY <1>3 DEF Output, Identities
    <2>5. QED
      BY <2>2, <2>3, <2>4, OutputOfCommand
  <1>4. CASE t \in {"cmake_generate", "cmake_build"}
    <2>1. v.entries["build"].kind = "absolute_path"
      BY <1>4 DEF Input, Identities, Conforms, HasEntryOfType, Listing, IsListing
    <2>2. Transform(t, v) = Listing([output |-> Blob(<<>>), build |-> v.entries["build"]])
      BY <1>4 DEF Transform, Identities
    <2>3. Output(t) = Listing([output |-> "blob", build |-> "absolute_path"])
      BY <1>4 DEF Output, Identities
    <2>4. QED
      BY <2>1, <2>2, <2>3, OutputOfCommand
  <1>5. QED
    BY <1>1, <1>2, <1>3, <1>4 DEF Transformations, Identities, Commands

----------------------------------------------------------------------------
(* The inductive invariant: the client knows the type of the value at hand  *)
(* exactly, so nothing else can be said to be missing from it.              *)

ValueInv ==
    /\ ExactlyOfType(current, type)
    /\ called \in Transformations \cup {"none"}
    /\ outcome \in {"ok", "mismatch", "command_failed"}
    /\ MismatchIsCallersFault

LEMMA EmptyListingIsTyped == ExactlyOfType(EmptyListing, EmptyListing)
  BY DEF ExactlyOfType, WellFormed, Conforms, EmptyListing, Listing, IsListing

LEMMA ValueInit == Init => ValueInv
  BY EmptyListingIsTyped DEF Init, ValueInv, MismatchIsCallersFault

LEMMA ValueReturns ==
  ASSUME ValueInv, NEW t \in Transformations, Returns(t)
  PROVE  ValueInv'
  <1>1. /\ current' = Transform(t, current) /\ type' = Output(t) /\ called' = t
        /\ outcome' = "ok" /\ Accepts(t, current) /\ (t \in Identities => Fits(type, Input(t)))
    BY DEF Returns, Calls
  <1>2. WellFormed(current) /\ Conforms(current, type)
    BY DEF ValueInv, ExactlyOfType
  <1>3. Conforms(current, Input(t))
    BY <1>1, <1>2, FitsConforms DEF Accepts
  <1>4. ExactlyOfType(Transform(t, current), Output(t))
    <2>1. CASE t \in Identities
      <3>1. Transform(t, current) = current /\ Output(t) = Input(t) /\ Input(t).kind # "listing"
        BY <2>1 DEF Transform, Output, Input, Identities, AtomicType
      <3>2. QED
        BY <1>2, <1>3, <3>1 DEF ExactlyOfType, Conforms, IsListing
    <2>2. CASE t \notin Identities
      BY <1>2, <1>3, <2>2, TransformKeepsTypes
    <2>3. QED
      BY <2>1, <2>2
  <1>5. QED
    BY <1>1, <1>4 DEF ValueInv, MismatchIsCallersFault

LEMMA ValueMismatches ==
  ASSUME ValueInv, NEW t \in Transformations, Mismatches(t)
  PROVE  ValueInv'
  <1>1. /\ called' = t /\ outcome' = "mismatch" /\ current' = current /\ type' = type
        /\ ~Accepts(t, current)
    BY DEF Mismatches, Calls
  <1>2. ~Fits(type, Input(t))
    BY <1>1, FitsConforms DEF Accepts, ValueInv, ExactlyOfType
  <1>3. QED
    BY <1>1, <1>2 DEF ValueInv, MismatchIsCallersFault

LEMMA ValueStep == ValueInv /\ [Next]_graphVars => ValueInv'
  <1> SUFFICES ASSUME ValueInv, [Next]_graphVars
               PROVE  ValueInv'
    OBVIOUS
  <1>1. CASE NewListing
    BY <1>1, EmptyListingIsTyped DEF NewListing, ValueInv, MismatchIsCallersFault
  <1>2. CASE \E key \in Keys, v \in Insertable : Insert(key, v)
    <2>1. PICK key \in Keys, v \in Insertable : Insert(key, v)
      BY <1>2
    <2>2. ExactlyOfType(current', type')
      BY <2>1, InsertKeepsTypes DEF ValueInv
    <2>3. called' = called /\ outcome' = "ok"
      BY <2>1 DEF Insert
    <2>4. QED
      BY <2>2, <2>3 DEF ValueInv, MismatchIsCallersFault
  <1>3. CASE \E t \in Transformations : Returns(t)
    BY <1>3, ValueReturns
  <1>4. CASE \E t \in Transformations : CommandFails(t)
    BY <1>4 DEF CommandFails, Calls, ValueInv, MismatchIsCallersFault
  <1>5. CASE \E t \in Transformations : Mismatches(t)
    BY <1>5, ValueMismatches
  <1>6. CASE Ended \/ UNCHANGED graphVars
    BY <1>6 DEF Ended, graphVars, ValueInv, MismatchIsCallersFault
  <1>7. QED
    BY <1>1, <1>2, <1>3, <1>4, <1>5, <1>6 DEF Next

LEMMA ValuesKeepInv == Spec => []ValueInv
  <1>1. QED
    BY ValueInit, ValueStep, PTL DEF Spec

(* Every value stays one of those graph.hpp can hold.                       *)
THEOREM GraphTypeCorrect == Spec => []TypeOK
  <1>1. ValueInv => TypeOK
    BY DEF ValueInv, ExactlyOfType, WellFormed, TypeOK
  <1>2. QED
    BY ValuesKeepInv, <1>1, PTL

(* The client's types are never wrong, however it chains transformations.   *)
THEOREM TypesAreAlwaysTrue == Spec => []TypesAreTrue
  <1>1. ValueInv => TypesAreTrue
    BY DEF ValueInv, ExactlyOfType, TypesAreTrue
  <1>2. QED
    BY ValuesKeepInv, <1>1, PTL

(* Only a call that the declared types do not allow can mismatch.           *)
THEOREM WellTypedCallsSucceed == Spec => []MismatchIsCallersFault
  <1>1. ValueInv => MismatchIsCallersFault
    BY DEF ValueInv
  <1>2. QED
    BY ValuesKeepInv, <1>1, PTL

(* Adding and then encoding loses nothing but a carry, for all 2^64 pairs.  *)
THEOREM SumIsAlwaysEncodedExactly == Spec => []SumIsEncodedExactly
  <1>1. ValueInv => SumIsEncodedExactly
    <2> SUFFICES ASSUME ValueInv, Conforms(current, PairType)
                 PROVE  \E q \in 0 .. 1 :
                            FromLittleEndian(Uint32ToLe(Uint32Add(current))) + q * UInt32Range
                              = current.entries["first"].number + current.entries["second"].number
      BY DEF SumIsEncodedExactly
    <2>1. WellFormed(current)
      BY DEF ValueInv, ExactlyOfType
    <2>2. /\ Uint32Add(current) \in UInt32
          /\ \E q \in 0 .. 1 : Uint32Add(current) + q * UInt32Range
                = current.entries["first"].number + current.entries["second"].number
      BY <2>1, SumOfPair
    <2>3. FromLittleEndian(Uint32ToLe(Uint32Add(current))) = Uint32Add(current)
      BY <2>2, EncodingIsExact
    <2>4. QED
      BY <2>2, <2>3
  <1>2. QED
    BY ValuesKeepInv, <1>1, PTL

============================================================================
