---------------------------- MODULE GraphValues ----------------------------
(***************************************************************************)
(* Values, types and transformations of server/graph.hpp, with the typed   *)
(* transformations of test/graph.cpp and those of examples/graph.cpp that  *)
(* launch a command.                                                       *)
(*                                                                         *)
(* A client builds a listing entry by entry and hands a value from one     *)
(* transformation to the next.  Types are known to the client only: a      *)
(* transformation looks at the value it gets.  type is what the client     *)
(* concludes from what it inserted and from the output types declared.     *)
(*                                                                         *)
(* A uri, a path or what a command printed is reduced to its being there.  *)
(* A uint32 has four digits in base Radix, each of which fits a char.      *)
(***************************************************************************)
EXTENDS Integers, Sequences, FiniteSets

CONSTANTS
    Radix,        \* values of a char: 256; 4 lets TLC enumerate
    Numbers,      \* bound: the uint32 values a client inserts
    MaxEntries    \* bound: entries of a listing

UInt32Range == Radix * Radix * Radix * Radix

UInt32 == 0 .. UInt32Range - 1

ASSUME RadixAssumption == Radix \in {4, 256}
ASSUME NumbersAssumption == Numbers \subseteq UInt32
ASSUME MaxEntriesAssumption == MaxEntries \in Nat

VARIABLES
    current,      \* the value at hand
    type,         \* the type the client takes it to have
    called,       \* the transformation called last
    outcome       \* how that call ended

graphVars == <<current, type, called, outcome>>

----------------------------------------------------------------------------
(* Values and types                                                         *)

Keys == {"first", "second", "repository", "git", "destination", "cmake",
         "source", "build", "parallelism", "output"}

(* atomic_type                                                              *)
PlainKinds == {"uri", "filesystem_directory_ownership", "absolute_path", "path_segment"}
AtomicTypes == PlainKinds \cup {"blob", "uint32"}

(* static_cast<char>: char is signed on the platforms the project builds on.*)
SignedChar(b) == IF b < Radix \div 2 THEN b ELSE b - Radix
UnsignedChar(c) == IF c < 0 THEN c + Radix ELSE c
Chars == {SignedChar(b) : b \in 0 .. Radix - 1}

Plain(k)  == [kind |-> k]
Number(n) == [kind |-> "uint32", number |-> n]
Blob(b)   == [kind |-> "blob", content |-> b]

IsAtom(v) ==
    \/ v.kind \in PlainKinds
    \/ v.kind = "uint32" /\ v.number \in UInt32
    \/ v.kind = "blob" /\ v.content \in Seq(Chars)

Listing(entries) == [kind |-> "listing", entries |-> entries]

AtomicType(k) == [kind |-> k]

IsListing(v) == v.kind = "listing"

(* Seeded fault: the entry that is there already is replaced.               *)
InsertEntry_Replaces(entries, key, entry) ==
    [k \in DOMAIN entries \cup {key} |-> IF k = key THEN entry ELSE entries[k]]

(* What std::map::insert does with a key that is there already: nothing.    *)
InsertEntry(entries, key, entry) ==
    [k \in DOMAIN entries \cup {key} |->
        IF k \in DOMAIN entries THEN entries[k] ELSE entry]

(* find_entry_of_type returns a pointer and not a null pointer.             *)
HasEntryOfType(list, key, k) ==
    /\ key \in DOMAIN list.entries
    /\ list.entries[key].kind = k

Conforms(v, t) ==
    /\ v.kind = t.kind
    /\ IsListing(t) => \A key \in DOMAIN t.entries : HasEntryOfType(v, key, t.entries[key])

(* A value of type t can be used where one of type u is asked for: nobody   *)
(* minds further entries of a listing.                                      *)
Fits(t, u) ==
    /\ t.kind = u.kind
    /\ IsListing(u) => \A key \in DOMAIN u.entries :
          key \in DOMAIN t.entries /\ t.entries[key] = u.entries[key]

----------------------------------------------------------------------------
(* Transformations                                                          *)

Identities == {"identity_uint32", "identity_absolute_path", "identity_blob"}
Commands == {"clone", "cmake_generate", "cmake_build"}
Transformations == Identities \cup Commands \cup {"uint32_to_le", "uint32_add"}

(* make_pair_type                                                           *)
PairType == Listing([key \in {"first", "second"} |-> "uint32"])

(* typed_transformation::input.  The transformations of examples/graph.cpp  *)
(* are declared without types; these are the entries they look for.         *)
Input(t) ==
    CASE t \in {"identity_uint32", "uint32_to_le"} -> AtomicType("uint32")
      [] t = "identity_absolute_path" -> AtomicType("absolute_path")
      [] t = "identity_blob" -> AtomicType("blob")
      [] t = "uint32_add" -> PairType
      [] t = "clone" -> Listing([repository |-> "uri", destination |-> "absolute_path",
                                 git |-> "absolute_path"])
      [] t = "cmake_generate" -> Listing([cmake |-> "absolute_path",
                                          source |-> "absolute_path",
                                          build |-> "absolute_path"])
      [] t = "cmake_build" -> Listing([cmake |-> "absolute_path", build |-> "absolute_path",
                                       parallelism |-> "uint32"])

(* typed_transformation::output                                             *)
Output(t) ==
    CASE t \in {"identity_uint32", "uint32_add"} -> AtomicType("uint32")
      [] t = "identity_absolute_path" -> AtomicType("absolute_path")
      [] t \in {"identity_blob", "uint32_to_le"} -> AtomicType("blob")
      [] t = "clone" -> Listing([output |-> "blob", destination |-> "absolute_path"])
      [] t \in {"cmake_generate", "cmake_build"} ->
            Listing([output |-> "blob", build |-> "absolute_path"])

(* Seeded fault: a listing with further entries is refused.                 *)
Accepts_NothingElse(t, v) ==
    t \in Identities \/
        /\ Conforms(v, Input(t))
        /\ IsListing(v) => DOMAIN v.entries = DOMAIN Input(t).entries

(* What a transformation tests before it does anything else; identity tests *)
(* nothing, whatever types it is declared with.                             *)
Accepts(t, v) == t \in Identities \/ Conforms(v, Input(t))

(* Seeded fault: the sum is not truncated to 32 bits.                       *)
Uint32Add_Wide(list) == list.entries["first"].number + list.entries["second"].number

Uint32Add(list) == (list.entries["first"].number + list.entries["second"].number) % UInt32Range

(* Seeded fault: the third digit is not shifted far enough.                 *)
Uint32ToLe_ShiftedTwice(n) ==
    <<SignedChar(n % Radix),
      SignedChar((n \div Radix) % Radix),
      SignedChar((n \div Radix) % Radix),
      SignedChar((n \div (Radix * Radix * Radix)) % Radix)>>

Uint32ToLe(n) ==
    <<SignedChar(n % Radix),
      SignedChar((n \div Radix) % Radix),
      SignedChar((n \div (Radix * Radix)) % Radix),
      SignedChar((n \div (Radix * Radix * Radix)) % Radix)>>

(* The value a transformation returns for a value it accepts.               *)
Transform(t, v) ==
    CASE t \in Identities -> v
      [] t = "uint32_to_le" -> Blob(Uint32ToLe(v.number))
      [] t = "uint32_add" -> Number(Uint32Add(v))
      [] t = "clone" -> Listing([output |-> Blob(<<>>), destination |-> v.entries["destination"]])
      [] t \in {"cmake_generate", "cmake_build"} ->
            Listing([output |-> Blob(<<>>), build |-> v.entries["build"]])

----------------------------------------------------------------------------
(* The client                                                               *)

EmptyListing == Listing([key \in {} |-> key])

Init ==
    /\ current = EmptyListing
    /\ type = EmptyListing
    /\ called = "none"
    /\ outcome = "ok"

NewListing ==
    /\ outcome = "ok"
    /\ current' = EmptyListing
    /\ type' = EmptyListing
    /\ called' = "none"
    /\ UNCHANGED outcome

(* entries.insert                                                           *)
Insert(key, v) ==
    /\ outcome = "ok"
    /\ IsListing(current)
    /\ Cardinality(DOMAIN current.entries \cup {key}) <= MaxEntries
    /\ current' = Listing(InsertEntry(current.entries, key, v))
    /\ type' = IF key \in DOMAIN type.entries THEN type
               ELSE Listing([k \in DOMAIN type.entries \cup {key} |->
                                IF k = key THEN v.kind ELSE type.entries[k]])
    /\ UNCHANGED <<called, outcome>>

(* The transformation is called; only identity has to trust its caller.     *)
Calls(t) ==
    /\ outcome = "ok"
    /\ t \in Identities => Fits(type, Input(t))
    /\ called' = t

Returns(t) ==
    /\ Calls(t)
    /\ Accepts(t, current)
    /\ current' = Transform(t, current)
    /\ type' = Output(t)
    /\ UNCHANGED outcome

(* git or cmake fails, and the transformation throws.                       *)
CommandFails(t) ==
    /\ t \in Commands
    /\ Calls(t)
    /\ Accepts(t, current)
    /\ outcome' = "command_failed"
    /\ UNCHANGED <<current, type>>

(* input_type_mismatch, which expect_value throws, or a failed requirement  *)
(* of the test.  No command has been launched.                              *)
Mismatches(t) ==
    /\ Calls(t)
    /\ ~Accepts(t, current)
    /\ outcome' = "mismatch"
    /\ UNCHANGED <<current, type>>

(* The exception has ended the client.                                      *)
Ended ==
    /\ outcome # "ok"
    /\ UNCHANGED graphVars

Insertable == {Plain(k) : k \in PlainKinds} \cup {Number(n) : n \in Numbers}

Next ==
    \/ NewListing
    \/ \E key \in Keys, v \in Insertable : Insert(key, v)
    \/ \E t \in Transformations : Returns(t) \/ CommandFails(t) \/ Mismatches(t)
    \/ Ended

Spec == Init /\ [][Next]_graphVars

----------------------------------------------------------------------------

(* Every variable keeps to its type; in particular a listing holds only     *)
(* atoms here, and a uint32 stays in its range (test/graph.cpp:33).         *)
TypeOK ==
    /\ IF IsListing(current)
       THEN /\ DOMAIN current.entries \subseteq Keys
            /\ \A key \in DOMAIN current.entries : IsAtom(current.entries[key])
       ELSE IsAtom(current)
    /\ called \in Transformations \cup {"none"}
    /\ outcome \in {"ok", "mismatch", "command_failed"}

(* A value has the type its client concludes from what it inserted first    *)
(* under a key and from the declared outputs of the transformations, along  *)
(* any chain of them (graph.hpp:88-93).                                     *)
TypesAreTrue == Conforms(current, type)

(* A chain in which each output type fits the next input type never throws  *)
(* "input type mismatch" and never fails a requirement: a mismatch is the   *)
(* fault of a call the types did not allow (graph.hpp:73-84).               *)
MismatchIsCallersFault == outcome = "mismatch" => ~Fits(type, Input(called))

FromLittleEndian(b) ==
    UnsignedChar(b[1]) + Radix * (UnsignedChar(b[2]) + Radix * (UnsignedChar(b[3])
        + Radix * UnsignedChar(b[4])))

(* Whatever pair of numbers is added and then encoded, the four chars of    *)
(* the blob are the digits of the sum modulo 2^32, in spite of the overflow *)
(* of the sum and of the sign of a char (test/graph.cpp:18-21, 33).         *)
SumIsEncodedExactly ==
    Conforms(current, PairType) =>
        \E q \in 0 .. 1 :
            FromLittleEndian(Uint32ToLe(Uint32Add(current))) + q * UInt32Range
                = current.entries["first"].number + current.entries["second"].number

============================================================================
