----------------------------- MODULE Generator -----------------------------
(***************************************************************************)
(* cmd/authzed-codegen and the writing half of internal/generator: a run   *)
(* reads the schema, renders one object file per definition, schema.gen.go *)
(* and, with --emit-opa, one opa.gen.go per package, and writes them one   *)
(* after the other over what earlier runs left.  It can be refused before  *)
(* it writes, fail on a file gofmt does not parse, or be stopped anywhere. *)
(* Between runs the schema is edited, and deployed to SpiceDB.             *)
(***************************************************************************)
EXTENDS Naturals, Sequences

CONSTANTS
  Schemas,    \* schemas SpiceDB's compiler accepts
  Rendering,  \* what a run makes of each: [refused, objects, schema, opa]
  Formatted,  \* texts that gofmt parses
  Edits,      \* pairs of schemas, before and after an edit
  Origins,    \* what the first run finds: [source, disk]
  MaxStops    \* runs that are stopped

Listed(q) == {q[i] : i \in DOMAIN q}
ListedInAny(orders) == UNION {Listed(q) : q \in orders}

Objects(s) == Listed(Rendering[s].objects)
OPA(s)     == ListedInAny(Rendering[s].opa)

FilesIn(r) == Listed(r.objects) \cup {r.schema} \cup ListedInAny(r.opa)
Files(s)   == FilesIn(Rendering[s])

Absent  == [kind |-> "absent"]
Partial == [kind |-> "partial"]

AllFiles == UNION {Files(s) : s \in Schemas}
Paths    == {f.path : f \in AllFiles} \cup UNION {DOMAIN o.disk : o \in Origins}
Texts    == {f.text : f \in AllFiles} \cup UNION {{o.disk[p] : p \in DOMAIN o.disk} : o \in Origins}

\* Rendering[s].opa has the orders in which a map of packages can be walked.
ASSUME RenderingAssumption ==
  /\ DOMAIN Rendering = Schemas
  /\ \A s \in Schemas : /\ Rendering[s].refused \in BOOLEAN
                        /\ Rendering[s].objects \in Seq(Files(s))
                        /\ Rendering[s].opa # {} /\ Rendering[s].opa \subseteq Seq(Files(s))
                        /\ \A q \in Rendering[s].opa : {q[i] : i \in DOMAIN q} = OPA(s)

ASSUME EditsAssumption   == Edits \subseteq Schemas \X Schemas
ASSUME OriginsAssumption == \A o \in Origins : o.source \in Schemas
ASSUME StopsAssumption   == MaxStops \in Nat

VARIABLES
  source,  \* the schema file
  live,    \* the schema SpiceDB has
  disk,    \* the output directory
  text,    \* the schema the current or last run has read
  emitOPA, \* its --emit-opa
  phase,   \* where main is
  todo,    \* files the current function has still to write
  open,    \* the first of them is open, and empty
  exit,    \* how the last run ended, "none" while there is no such run
  stops

vars == <<source, live, disk, text, emitOPA, phase, todo, open, exit, stops>>

TypeOK ==
  /\ source \in Schemas /\ live \in Schemas /\ text \in Schemas
  /\ disk \in [Paths -> Texts \cup {Absent, Partial}]
  /\ emitOPA \in BOOLEAN
  /\ phase \in {"idle", "objects", "schema", "opa"}
  /\ todo \in Seq(Files(text))
  /\ open \in BOOLEAN /\ (open => todo # <<>>)
  /\ exit \in {"none", "ok", "error", "stopped"}
  /\ (phase # "idle" => exit = "none") /\ (phase = "idle" => todo = <<>>)
  /\ stops \in 0 .. MaxStops

Init ==
  \E o \in Origins :
    /\ source = o.source /\ live = o.source /\ text = o.source
    /\ disk = [p \in Paths |-> IF p \in DOMAIN o.disk THEN o.disk[p] ELSE Absent]
    /\ emitOPA = FALSE /\ phase = "idle" /\ todo = <<>> /\ open = FALSE
    /\ exit = "none" /\ stops = 0

-----------------------------------------------------------------------------
(* Around the runs.                                                        *)

\* External: somebody edits the schema file.
Edit ==
  /\ \E e \in Edits : e[1] = source /\ source' = e[2]
  /\ UNCHANGED <<live, disk, text, emitOPA, phase, todo, open, exit, stops>>

\* External: somebody writes the schema to SpiceDB.
Deploy ==
  /\ live' = source
  /\ UNCHANGED <<source, disk, text, emitOPA, phase, todo, open, exit, stops>>

-----------------------------------------------------------------------------
(* main.                                                                   *)

\* Mutant: the next run takes up what this one has left.
Exit_KeepsTodo(how) == phase' = "idle" /\ todo' = todo /\ open' = FALSE /\ exit' = how

Exit(how) == phase' = "idle" /\ todo' = <<>> /\ open' = FALSE /\ exit' = how

\* Mutant: nothing to do when schema.gen.go has the schema already.
Start_Digest(flag) ==
  /\ phase = "idle"
  /\ text' = source
  /\ emitOPA' = flag
  /\ IF Rendering[source].refused \/ disk[Rendering[source].schema.path] = Rendering[source].schema.text
     THEN Exit(IF Rendering[source].refused THEN "error" ELSE "ok")
     ELSE /\ phase' = "objects" /\ todo' = Rendering[source].objects
          /\ open' = FALSE /\ exit' = "none"
  /\ UNCHANGED <<source, live, disk, stops>>

\* main: the schema is read once; a refused one ends the run before it writes.
Start(flag) ==
  /\ phase = "idle"
  /\ text' = source
  /\ emitOPA' = flag
  /\ IF Rendering[source].refused
     THEN Exit("error")
     ELSE /\ phase' = "objects" /\ todo' = Rendering[source].objects
          /\ open' = FALSE /\ exit' = "none"
  /\ UNCHANGED <<source, live, disk, stops>>

\* GenerateObjectSource has returned.
BeginSchema ==
  /\ phase = "objects" /\ todo = <<>>
  /\ phase' = "schema"
  /\ todo' = << Rendering[text].schema >>
  /\ UNCHANGED <<source, live, disk, text, emitOPA, open, exit, stops>>

\* GenerateSchemaSource has returned; packages come in the order of a map.
BeginOPA ==
  /\ phase = "schema" /\ todo = <<>> /\ emitOPA
  /\ phase' = "opa"
  /\ todo' \in Rendering[text].opa
  /\ UNCHANGED <<source, live, disk, text, emitOPA, open, exit, stops>>

Finish ==
  /\ todo = <<>>
  /\ phase = "opa" \/ (phase = "schema" /\ ~emitOPA)
  /\ Exit("ok")
  /\ UNCHANGED <<source, live, disk, text, emitOPA, stops>>

-----------------------------------------------------------------------------
(* Writing a file.                                                         *)

\* format.Source fails: the files before this one are written.
Reject ==
  /\ todo # <<>> /\ ~open
  /\ Head(todo).text \notin Formatted
  /\ Exit("error")
  /\ UNCHANGED <<source, live, disk, text, emitOPA, stops>>

\* os.WriteFile opens the file and truncates it.
Open ==
  /\ todo # <<>> /\ ~open
  /\ Head(todo).text \in Formatted
  /\ disk' = [disk EXCEPT ![Head(todo).path] = Partial]
  /\ open' = TRUE
  /\ UNCHANGED <<source, live, text, emitOPA, phase, todo, exit, stops>>

\* Then it writes.
Write ==
  /\ open
  /\ disk' = [disk EXCEPT ![Head(todo).path] = Head(todo).text]
  /\ todo' = Tail(todo)
  /\ open' = FALSE
  /\ UNCHANGED <<source, live, text, emitOPA, phase, exit, stops>>

\* The run is killed, or an operation of the file system fails.
Stop ==
  /\ phase # "idle" /\ stops < MaxStops
  /\ Exit("stopped")
  /\ stops' = stops + 1
  /\ UNCHANGED <<source, live, disk, text, emitOPA>>

-----------------------------------------------------------------------------
Run == BeginSchema \/ BeginOPA \/ Finish \/ Reject \/ Open \/ Write

Next == Edit \/ Deploy \/ (\E flag \in BOOLEAN : Start(flag)) \/ Run \/ Stop

\* main runs by itself once it is started.
Spec == Init /\ [][Next]_vars /\ WF_vars(Run)

-----------------------------------------------------------------------------
\* A run that reports success.
Finished == phase = "idle" /\ exit = "ok"

\* What the current or last run renders.
Ran == Objects(text) \cup {Rendering[text].schema} \cup IF emitOPA THEN OPA(text) ELSE {}

\* The file at f's path is one of the run's, to the last byte.
Current(f) == \E g \in Ran : g.path = f.path /\ disk[f.path] = g.text

(* Whatever earlier runs left, of other schemas, cut short, half written:  *)
(* when a run reports success all it renders is on disk.                   *)
FinishedIsCurrent == Finished => \A f \in Ran : Current(f)
=============================================================================
