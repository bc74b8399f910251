----------------------------------- MODULE I2s -----------------------------------
(***************************************************************************)
(* i2s of hw8_i2s/i2s.go, which fills a Go variable from decoded JSON.     *)
(*                                                                         *)
(* Data is [kind, value] with kind "float64", "string" or "bool", "slice"  *)
(* with a sequence of data, "map" with a function from keys to data, or    *)
(* "nil" for null.  A float is a number of halves.  A variable is          *)
(* [kind, value] with kind "int", "string", "bool", "slice" or "struct"    *)
(* (a function from field names); a slice also has the zero of its         *)
(* elements.  An outcome is [status, out]: what the variable holds after   *)
(* "ok", a "mismatch" of types, or a "panic".                              *)
(***************************************************************************)
EXTENDS Integers, SequencesExt

-----------------------------------------------------------------------------
(* Faulty variants of some definitions below.                              *)

(* a field goes on although one before it failed                           *)
NeverStops(outcome) == outcome.status = "panic"

-----------------------------------------------------------------------------
(* int64(f) cuts off towards zero                                          *)
Int64(halves) == IF halves >= 0 THEN halves \div 2 ELSE -((-halves) \div 2)

(* The kind a variable must have to take data of a kind                    *)
Takes(kind) ==
  CASE kind = "float64" -> "int" [] kind = "map" -> "struct" [] OTHER -> kind

Scalar(data) == IF data.kind = "float64" THEN Int64(data.value) ELSE data.value

Zeros(field, n) == [field EXCEPT !.value = [i \in 1..n |-> field.zero]]

Outcome(status, out) == [status |-> status, out |-> out]

(* is what follows left out?                                               *)
Stops(outcome) == outcome.status # "ok"

(* All outcomes of goUnder: a map is walked in any order.  A null has no   *)
(* type to ask for its kind, a key without a field finds no value.         *)
RECURSIVE goUnder(_, _)

(* after outcome o, fill the part of o.out at index k from data            *)
Under(o, k, data) ==
  IF k \notin DOMAIN o.out.value THEN {Outcome("panic", o.out)}
  ELSE {Outcome(IF u.status = "ok" THEN o.status ELSE u.status,
                [o.out EXCEPT !.value[k] = u.out]) : u \in goUnder(data, o.out.value[k])}

(* fill the elements i, i + 1, ... of a slice                              *)
RECURSIVE Elements(_, _, _)
Elements(o, i, data) ==
  IF i > Len(data) \/ Stops(o) THEN {o}
  ELSE UNION {Elements(u, i + 1, data) : u \in Under(o, i, data[i])}

(* fill fields from some keys of a map                                     *)
RECURSIVE MapKeys(_, _, _)
MapKeys(o, keys, data) ==
  IF keys = {} \/ Stops(o) THEN {o}
  ELSE UNION {UNION {MapKeys(u, keys \ {k}, data) : u \in Under(o, k, data[k])} : k \in keys}

goUnder(data, field) ==
  IF data.kind = "nil" THEN {Outcome("panic", field)}
  ELSE IF Takes(data.kind) # field.kind THEN {Outcome("mismatch", field)}
  ELSE CASE data.kind = "slice" ->
              Elements(Outcome("ok", Zeros(field, Len(data.value))), 1, data.value)
         [] data.kind = "map" -> MapKeys(Outcome("ok", field), DOMAIN data.value, data.value)
         [] OTHER -> {Outcome("ok", [field EXCEPT !.value = Scalar(data)])}

i2s(data, out, pointer) ==
  IF pointer THEN goUnder(data, out) ELSE {Outcome("mismatch", out)}

-----------------------------------------------------------------------------
(* Has data, wherever it lies, the type of the variable?                   *)
RECURSIVE Conforms(_, _)
Conforms(data, field) ==
  /\ Takes(data.kind) = field.kind
  /\ data.kind = "slice" => \A i \in DOMAIN data.value : Conforms(data.value[i], field.zero)
  /\ data.kind = "map" => \A k \in DOMAIN data.value :
                            k \in DOMAIN field.value /\ Conforms(data.value[k], field.value[k])

(* The variable with data of its type                                      *)
RECURSIVE Filled(_, _)
Filled(data, field) ==
  [field EXCEPT !.value =
     CASE data.kind = "slice" -> [i \in DOMAIN data.value |-> Filled(data.value[i], field.zero)]
       [] data.kind = "map"   -> [k \in DOMAIN @ |-> IF k \in DOMAIN data.value
                                                      THEN Filled(data.value[k], @[k]) ELSE @[k]]
       [] data.kind = "float64" ->
            CHOOSE n \in -50..50 : 2 * n - data.value \in {-1, 0, 1} /\ 2 * n * n <= data.value * n
       [] OTHER -> data.value]

(* Data of the type of the variable fills it, whatever the order of maps;  *)
(* other data never does.                                                  *)
ConvertsAll(data, field, outcome) ==
  IF Conforms(data, field) THEN outcome = Outcome("ok", Filled(data, field))
  ELSE outcome.status # "ok"

(* A null, or a key without a field, where i2s may come to it              *)
RECURSIVE HasNullOrUnknown(_, _)
HasNullOrUnknown(data, field) ==
  \/ data.kind = "nil"
  \/ /\ data.kind = "slice" /\ field.kind = "slice"
     /\ \E i \in DOMAIN data.value : HasNullOrUnknown(data.value[i], field.zero)
  \/ /\ data.kind = "map" /\ field.kind = "struct"
     /\ \E k \in DOMAIN data.value :
          k \notin DOMAIN field.value \/ HasNullOrUnknown(data.value[k], field.value[k])

(* What an error leaves in the variable: each part is as it was, or filled *)
(* as it should be; elements of a slice are filled from the first on, and  *)
(* those behind the one that failed are zero.                              *)
RECURSIVE PartlyFilled(_, _, _)
PartlyFilled(data, field, out) ==
  \/ out = field
  \/ Conforms(data, field) /\ out = Filled(data, field)
  \/ /\ data.kind = "slice" /\ field.kind = "slice"
     /\ DOMAIN out.value = DOMAIN data.value
     /\ \E n \in DOMAIN data.value :
          /\ \A i \in 1..n - 1 : Conforms(data.value[i], field.zero)
                                   /\ out.value[i] = Filled(data.value[i], field.zero)
          /\ PartlyFilled(data.value[n], field.zero, out.value[n])
          /\ \A i \in n + 1..Len(data.value) : out.value[i] = field.zero
  \/ /\ data.kind = "map" /\ field.kind = "struct"
     /\ \A k \in DOMAIN field.value :
          IF k \in DOMAIN data.value THEN PartlyFilled(data.value[k], field.value[k], out.value[k])
          ELSE out.value[k] = field.value[k]
     /\ \A j, k \in DOMAIN data.value \cap DOMAIN field.value :
          (j # k /\ ~Conforms(data.value[j], field.value[j])
                 /\ ~Conforms(data.value[k], field.value[k]))
            => field.value[j] = out.value[j] \/ field.value[k] = out.value[k]
==================================================================================
