-------------------------------- MODULE Programs --------------------------------
(***************************************************************************)
(* Three of the sequential programs, each behaviour one of them once: the  *)
(* handlers that hw5_codegen generates for a type of a file, asked with a  *)
(* request; the Unpack its example generates for a struct of a file, on    *)
(* data; and the FastSearch of hw3_bench on a file of users.               *)
(***************************************************************************)
EXTENDS Handlers, Binpack, FastSearch

CONSTANTS Requests,  \* [file, api, req]: a request for a type of a Go file
          Files,     \* the files to search
          Unpacks    \* [file, type, v, in, data]: data packed from the values v
                     \* of a type of a Go file, to unpack into in

VARIABLES task,    \* the program and its input
          output   \* what it gave, in a set, once it has ended

InitHandler ==
  \E r \in Requests :
    task = [program |-> "handler", file |-> r.file, api |-> r.api, req |-> r.req]

InitSearch == \E file \in Files : task = [program |-> "search", file |-> file]

InitUnpack ==
  \E u \in Unpacks :
    task = [program |-> "unpack", file |-> u.file, type |-> u.type,
            v |-> u.v, in |-> u.in, data |-> u.data]

InitPrograms == output = {} /\ (InitHandler \/ InitSearch \/ InitUnpack)

Run(name) == task.program = name /\ output = {} /\ UNCHANGED task

RunHandler ==
  Run("handler") /\ output' = {Respond(task.file, task.api, task.req)}

RunSearch == Run("search") /\ output' = {Fast(task.file)}

RunUnpack ==
  /\ Run("unpack")
  /\ LET methods == Generate(task.file)
     IN  output' = {IF Usable(methods)
                    THEN Unpack(MethodOf(methods, task.type.name), task.in, task.data)
                    ELSE task.in}

NextPrograms == RunHandler \/ RunSearch \/ RunUnpack

SpecPrograms == InitPrograms /\ [][NextPrograms]_<<task, output>>

Ran(name) == task.program = name /\ output # {}
Output == CHOOSE o \in output : TRUE

-----------------------------------------------------------------------------
(* The generated file builds for the files that are said to, and for no    *)
(* others.  Its handlers answer by the file they are generated from: a path*)
(* without a method is not found, a request is refused for authorisation,  *)
(* for its method, or for the first of its fields, in the order of the     *)
(* struct, that breaks one of the rules that govern it.  The method is     *)
(* called for the requests that break none, and for no others.             *)
AnswersInOrder ==
  Ran("handler") => Output = Answer(task.file, task.api, task.req)

(* What hw5.md says of the handlers (lines 15-35): they build whatever the *)
(* names and tags are, look at the method before the authorisation, check  *)
(* each field by its own tag, with the default in the place of an empty    *)
(* value, and name the field that is wrong.  The generator does not keep   *)
(* any of this; the run that checks it shows the first.                    *)
AnswersAsDocumented ==
  Ran("handler") => Output = Documented(task.file, task.api, task.req)

(* FastSearch prints what SlowSearch prints on every file as both expect   *)
(* it.  On others one of them panics, unless a line is too long for the    *)
(* scanner or a name is missing.                                           *)
FastPrintsAsSlow == Ran("search") => AgreesWithSlow(task.file, Output)

(* The example generator writes an Unpack for marked structs and no others.*)
(* It recovers what was packed; of data that is cut, the fields before the *)
(* cut.                                                                    *)
UnpackRecovers ==
  Ran("unpack") =>
    /\ GeneratesMarked(task.file, Generate(task.file))
    /\ Usable(Generate(task.file)) =>
         Recovers(task.type, task.v, task.in, task.data, Output)

-----------------------------------------------------------------------------
(* Inputs for which all but AnswersAsDocumented is so: any Go file whose   *)
(* tags have each rule once and any request; any lines a JSON decoder may  *)
(* find; and data packed from the fields of a marked struct, cut anywhere. *)
RequestsDescribed ==
  \A r \in Requests : IsApiFile(r.file) /\ r.req.auth \in BOOLEAN

FilesAreLines == \A file \in Files : AreLines(file.lines)

DataPacked ==
  \A u \in Unpacks :
    /\ IsGoFile(u.file) /\ u.type \in ToSet(u.file) /\ Marked(u.type)
    /\ ArePacked(u.type, u.v, u.in, u.data)
=================================================================================
