--------------------------------- MODULE Binpack ---------------------------------
(***************************************************************************)
(* The generator of hw5_codegen/example (gen/codegen.go), and the Unpack   *)
(* methods it writes (pack/marshaller.go).                                 *)
(*                                                                         *)
(* A file is a sequence of types, [name, struct, marked, fields]: struct   *)
(* false for what is none, marked if a comment of its group begins with    *)
(* "cgen: binpack".  A field is [name, type, skip], skip for the tag       *)
(* cgen:"-".  A method written is [type, code, whole]: the fields it reads,*)
(* and whether the generator lived to its end.  Strings are sequences of   *)
(* bytes.                                                                  *)
(***************************************************************************)
EXTENDS Integers, SequencesExt

CONSTANT Base   \* 256, the number of values of a byte

ASSUME BinpackAssumption == Base \in Nat \ {0}

-----------------------------------------------------------------------------
(* Faulty variants of some definitions below.                              *)

(* fields are unpacked whatever their tag                                  *)
Unskipped(field) == TRUE

-----------------------------------------------------------------------------
(* needCodegen of a struct                                                 *)
Marked(type) == type.struct /\ type.marked

Packed(field) == ~field.skip

Supported(field) == field.type \in {"int", "string"}

(* The statements of an Unpack: a field is read as an int or as a string,  *)
(* until one with another type ends the generator.                         *)
StatementsUpTo(type) ==
  LET upTo[k \in 0..Len(type.fields)] ==
        LET m == upTo[k - 1]
            field == type.fields[k]
        IN  IF k = 0 THEN [type |-> type.name, code |-> <<>>, whole |-> TRUE]
            ELSE IF ~m.whole \/ ~Packed(field) THEN m
            ELSE IF Supported(field) THEN [m EXCEPT !.code = Append(@, field)]
            ELSE [m EXCEPT !.whole = FALSE]
  IN  upTo

Statements(type) == StatementsUpTo(type)[Len(type.fields)]

(* The methods written: all, or up to the first that cannot be finished    *)
MethodsUpTo(file) ==
  LET upTo[k \in 0..Len(file)] ==
        LET methods == upTo[k - 1]
        IN  IF k = 0 THEN <<>>
            ELSE IF ~Marked(file[k]) \/ (methods # <<>> /\ ~Last(methods).whole) THEN methods
            ELSE Append(methods, Statements(file[k]))
  IN  upTo

Generate(file) == MethodsUpTo(file)[Len(file)]

(* only a generated file that is whole can be used                         *)
Usable(methods) == \A m \in ToSet(methods) : m.whole

MethodOf(methods, name) == CHOOSE m \in ToSet(methods) : m.type = name

-----------------------------------------------------------------------------
(* A uint32 is four bytes, the lowest first                                *)
Word == 4
Modulus == Base * (Base * (Base * Base))

Uint32(b) == b[1] + Base * (b[2] + Base * (b[3] + Base * b[4]))

Zero(n) == [i \in 1..n |-> 0]

(* binary.Read of n bytes.  The generated code ignores its error: with too *)
(* few bytes left the variable stays zero and the reader is at its end.    *)
Read(rest, n) == IF Len(rest) >= n THEN SubSeq(rest, 1, n) ELSE Zero(n)
Rest(rest, n) == SubSeq(rest, n + 1, Len(rest))

UnpackInt(s, field) ==
  [in |-> [s.in EXCEPT ![field.name] = Uint32(Read(s.rest, Word))], rest |-> Rest(s.rest, Word)]

UnpackString(s, field) ==
  LET n    == Uint32(Read(s.rest, Word))
      rest == Rest(s.rest, Word)
  IN  [in |-> [s.in EXCEPT ![field.name] = Read(rest, n)], rest |-> Rest(rest, n)]

UnpackField(s, field) ==
  IF field.type = "int" THEN UnpackInt(s, field) ELSE UnpackString(s, field)

Execution(code, in, data) ==
  LET after[k \in 0..Len(code)] ==
        IF k = 0 THEN [in |-> in, rest |-> data] ELSE UnpackField(after[k - 1], code[k])
  IN  after

Unpack(method, in, data) == Execution(method.code, in, data)[Len(method.code)].in

-----------------------------------------------------------------------------
(* What Unpack reads, as the Perl of pack/unpack.go writes it: pack("L",   *)
(* n) of an int, pack("L/a*", s) of a string                               *)
Bytes(n) ==
  <<n % Base, (n \div Base) % Base, ((n \div Base) \div Base) % Base,
    (((n \div Base) \div Base) \div Base) % Base>>

Pack(field, v) ==
  IF field.type = "int" THEN Bytes(v[field.name])
  ELSE Bytes(Len(v[field.name])) \o v[field.name]

(* the first k fields of a struct                                          *)
PackUpTo(fields, v) ==
  LET upTo[k \in 0..Len(fields)] ==
        IF k = 0 THEN <<>>
        ELSE IF fields[k].skip THEN upTo[k - 1] ELSE upTo[k - 1] \o Pack(fields[k], v)
  IN  upTo

PackAll(type, v) == PackUpTo(type.fields, v)[Len(type.fields)]

(* Of data packed from v and cut, Unpack gives every field that is whole   *)
(* its value modulo the range of a uint32; the one that is cut and those   *)
(* behind it become zero without an error, a string with its length if     *)
(* that is there.  Fields that are not packed stay as they were.           *)
FieldOf(field, v, left) ==
  IF field.type = "int" THEN IF left >= Word THEN v[field.name] % Modulus ELSE 0
  ELSE IF left >= Word + Len(v[field.name]) THEN v[field.name]
  ELSE IF left >= Word THEN Zero(Len(v[field.name]))
  ELSE <<>>

Recovers(type, v, in, data, out) ==
  \A k \in DOMAIN type.fields :
    LET field == type.fields[k]
        before == PackUpTo(type.fields, v)[k - 1]
    IN  out[field.name] = IF field.skip THEN in[field.name]
                          ELSE FieldOf(field, v, Len(data) - Len(before))

(* The generator writes an Unpack for the structs of marked groups and no  *)
(* others.  It ends at a field that is neither int nor string, and what it *)
(* leaves then is cut within a method, so that nobody can use it.          *)
GeneratesMarked(file, methods) ==
  LET structs == {t \in ToSet(file) : t.struct /\ t.marked}
      written == {m.type : m \in ToSet(methods)}
  IN  IF \E t \in structs : \E f \in ToSet(t.fields) : ~f.skip /\ f.type \notin {"int", "string"}
      THEN written \subseteq {t.name : t \in structs} /\ ~Last(methods).whole
      ELSE written = {t.name : t \in structs} /\ \A m \in ToSet(methods) : m.whole

-----------------------------------------------------------------------------
(* A struct of a file, values for its fields, and data packed from them    *)
(* and cut: the types of a file have different names, and so have the      *)
(* fields of a struct; the length of a string fits into a uint32.          *)
IsStruct(t) ==
  /\ t.fields \in Seq(ToSet(t.fields))
  /\ \A i, k \in DOMAIN t.fields : t.fields[i].name = t.fields[k].name => i = k
  /\ \A k \in DOMAIN t.fields : t.fields[k].skip \in BOOLEAN

IsGoFile(file) ==
  /\ file \in Seq(ToSet(file))
  /\ \A i, k \in DOMAIN file : file[i].name = file[k].name => i = k
  /\ \A k \in DOMAIN file : IsStruct(file[k])

IsValueOf(field, v) ==
  \/ field.type = "int" /\ v[field.name] \in Int
  \/ /\ field.type = "string"
     /\ v[field.name] \in Seq(0..(Base - 1)) /\ Len(v[field.name]) < Modulus

ArePacked(type, v, in, data) ==
  /\ in = [name \in DOMAIN in |-> in[name]]
  /\ \A f \in ToSet(type.fields) :
       f.name \in DOMAIN in /\ (Packed(f) /\ Supported(f) => IsValueOf(f, v))
  /\ \E cut \in 0..Len(PackAll(type, v)) : data = SubSeq(PackAll(type, v), 1, cut)
==================================================================================
