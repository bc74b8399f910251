------------------------------- MODULE FastSearch -------------------------------
(***************************************************************************)
(* FastSearch and SlowSearch of hw3_bench, which list the users of a file  *)
(* who have a browser for Android and one from Microsoft.                  *)
(*                                                                         *)
(* A file is [lines, newline]: newline if one ends the last line.  The     *)
(* empty file has no line and no newline.  A line is [json, list, browsers,*)
(* name, email, long]: json "object", "null" or "broken"; list, name and   *)
(* email "good" if of the type expected, "other" or "none"; long if it     *)
(* does not fit into the buffer of a bufio.Scanner.                        *)
(* What a search prints is [panicked, found, browsers]: lines of users and *)
(* how many browsers were seen, nothing if it panicked.                    *)
(***************************************************************************)
EXTENDS Naturals, FiniteSets, SequencesExt

CONSTANTS Android, MSIE,  \* browsers with this word in their names
          NoString        \* browsers in a list that are no strings

Nothing == [found |-> <<>>, seen |-> {}, i |-> 0, end |-> "", user |-> <<>>]

Panics(s) == [s EXCEPT !.end = "panic"]

Printed(s) ==
  LET printed == IF s.end = "panic" THEN Nothing ELSE s
  IN  [panicked |-> s.end = "panic", found |-> printed.found,
       browsers |-> Cardinality(printed.seen)]

Mobile(browsers)    == ToSet(browsers) \cap Android
Microsoft(browsers) == ToSet(browsers) \cap MSIE

-----------------------------------------------------------------------------
(* Faulty variants of some definitions below.                              *)

(* the user declared outside the loop: a list stays until the next one     *)
OneUser(line, before) == IF line.list = "good" THEN line.browsers ELSE before

-----------------------------------------------------------------------------
(* FastSearch: line by line.  The decoder fails on any value that has not  *)
(* the type of its field, and leaves out what is missing or null.          *)
Fails(line) ==
  \/ line.json = "broken"
  \/ /\ line.json = "object"
     /\ \/ "other" \in {line.list, line.name, line.email}
        \/ ToSet(line.browsers) \cap NoString # {}

Decoded(line, before) == IF line.list = "good" THEN line.browsers ELSE <<>>

(* one pass over the browsers, seenBrowsers a map                          *)
FastUser(s, line) ==
  LET browsers == Decoded(line, s.user)
      user == [i |-> s.i, name |-> line.name, email |-> line.email]
  IN  [s EXCEPT !.user = browsers,
                !.i = @ + 1,
                !.seen = @ \cup Mobile(browsers) \cup Microsoft(browsers),
                !.found = IF Mobile(browsers) # {} /\ Microsoft(browsers) # {}
                          THEN Append(@, user) ELSE @]

(* A scanner ends at a line that is too long, and nobody asks it why.      *)
FastLine(s, line) ==
  IF s.end # "" THEN s
  ELSE IF line.long THEN [s EXCEPT !.end = "scanner"]
  ELSE IF Fails(line) THEN Panics(s)
  ELSE FastUser(s, line)

FastAfter(lines) ==
  LET after[k \in 0..Len(lines)] == IF k = 0 THEN Nothing ELSE FastLine(after[k - 1], lines[k])
  IN  after

Fast(file) == Printed(FastAfter(file.lines)[Len(file.lines)])

-----------------------------------------------------------------------------
(* SlowSearch: decodes all lines first, one of which is empty, which no    *)
(* decoder takes, if the file ends with a newline or is empty.             *)
SlowDecodes(file) ==
  /\ ~file.newline /\ file.lines # <<>>
  /\ \A k \in DOMAIN file.lines : file.lines[k].json # "broken"

(* two passes over the browsers, those that are no strings left out; it    *)
(* needs the email of those it finds, and prints any name                  *)
SlowUser(s, line) ==
  LET user == [i |-> s.i, name |-> IF line.name = "good" THEN "good" ELSE "%!s", email |-> "good"]
      android  == Mobile(line.browsers)
      isFound  == android # {} /\ Microsoft(line.browsers) # {}
      next     == [s EXCEPT !.i = @ + 1]
  IN  IF s.end # "" THEN s
      ELSE IF line.json # "object" \/ line.list # "good" THEN next
      ELSE IF isFound /\ line.email # "good" THEN Panics(s)
      ELSE [next EXCEPT !.seen = (@ \cup android) \cup Microsoft(line.browsers),
                        !.found = IF isFound THEN Append(@, user) ELSE @]

SlowAfter(lines) ==
  LET after[k \in 0..Len(lines)] == IF k = 0 THEN Nothing ELSE SlowUser(after[k - 1], lines[k])
  IN  after

Slow(file) == Printed(IF SlowDecodes(file) THEN SlowAfter(file.lines)[Len(file.lines)]
                      ELSE Panics(Nothing))

-----------------------------------------------------------------------------
(* A line as a decoder may find it: only a list has browsers, and only an  *)
(* object has values.                                                      *)
IsLine(line) ==
  /\ line.json \in {"object", "null", "broken"}
  /\ {line.list, line.name, line.email} \subseteq {"good", "other", "none"}
  /\ line.list # "good" => line.browsers = <<>>
  /\ line.json # "object" => {line.list, line.name, line.email} = {"none"}

IsFile(file) == file.newline => file.lines # <<>>

AreLines(lines) == lines \in Seq(ToSet(lines)) /\ \A k \in DOMAIN lines : IsLine(lines[k])

(* A file as both expect it: one user a line, each value of its type, and  *)
(* at least one user                                                       *)
Regular(file) ==
  /\ ~file.newline /\ file.lines # <<>>
  /\ \A k \in DOMAIN file.lines :
       LET line == file.lines[k]
       IN  ~line.long /\ ~Fails(line) /\ line.name = "good" /\ line.email = "good"

(* What FastSearch prints in the place of SlowSearch is wrong only if the  *)
(* scanner stopped early or a user has no name; on regular files both      *)
(* print.                                                                  *)
AgreesWithSlow(file, printed) ==
  /\ Regular(file) => ~printed.panicked /\ printed = Slow(file)
  /\ (~printed.panicked /\ ~Slow(file).panicked /\ printed # Slow(file)) =>
       \E k \in DOMAIN file.lines :
         LET line == file.lines[k]
         IN  line.long \/ (line.json = "object" /\ line.name = "none")
=================================================================================
