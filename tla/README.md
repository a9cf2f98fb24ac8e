# Verification of authzed-codegen

authzed-codegen turns a SpiceDB schema into typed Go: one type per definition, with methods that
create, delete, purge, read, check and look up relationships through an *engine* that talks gRPC
to SpiceDB. This directory holds TLA+ models of its core, the TLC runs that check them and the
TLAPS proofs about them. Paths and lines below are those of the repository.

## 1. Inventory

| Component | Where | State | Operations |
|---|---|---|---|
| spicedb.Engine | `pkg/authz/spicedb/crud.go` | `token`, `setTokenTime`, `durationExpire`; no lock | four `CreateRelations*`, `DeleteRelations`, `DeleteRelationsMatching`, `CheckPermission*`, `LookupResources*`, `LookupSubjects*`, `ReadRelations`, `HasPublic*`, `SetSnapshotToken`, `DiffSchema` |
| Generated object client | `internal/templates/object.go.tmpl` | none of its own: an object is its ID | per relation `Create`, `Delete`, `Purge`, `Read`, per object `PurgeRelations`, `PurgeRelationsAsSubject`, per permission `Check`, `Lookup...` |
| Permission input resolver | `internal/generator/generator.go:302-572` | cache and visited set of one run | `ParseDefinitions`, `GetPermissionTree`, `resolveTransitive` |
| Subject references | `internal/generator/generator.go:574-608` | none | which types a purge as subject has to visit |
| Schema adapter | `internal/generator/adapter.go`, `internal/utilstr` | none | names types, fields and packages, lowers SpiceDB's compiled schema to views, rejects what cannot be generated, collects caveats and usersets per permission |
| Source emission | `internal/generator/generator.go:30-300`, `cmd/authzed-codegen/main.go` | files under the output path | renders, formats and writes one file per definition, `schema.gen.go`, `opa.gen.go` |
| OPA builtins | `internal/generator/opa.go`, `internal/templates/opa.go.tmpl` | none | `check_*` and `lookup_*` over an engine, registered per package |
| Checked-in clients | `example/schema.zed`, `example/authzed/` | none | three packages generated from one schema |
| Schema drift | `internal/templates/schema.go.tmpl`, `authz.go:57-91` | none | `VerifySchema` sorts SpiceDB's diffs into four buckets |
| authz package | `pkg/authz/authz.go` | the global `DefaultEngine` | consistency mode in the context, `RelationFilter`, ID conversions, errors |
| Caveat serialization | `crud.go:391-468`, `adapter.go:383-470` | none | Go values to `structpb` and back to types |
| Test sandbox | `pkg/authz/spicedbtest` | a container | start, write schema with retries, close |
| OPA demo | `example/opa-demo` | none | registers the builtins, evaluates one policy |
| SpiceDB | external | relationships, revisions | transactions, reads at a revision, expiry, garbage collection |

How they interact. The command compiles the schema with SpiceDB's compiler, adapts it, resolves
permissions and renders the templates, once, sequentially. At run time an application calls the
generated methods from any number of goroutines; each method calls the process-wide engine once
per branch of the schema; each engine call is one RPC (writes, purges, reads) or one per ID
(checks, lookups). The engine's only state, the token of the last write and its time, is
written by every write and read by every read.

What is hard here, and what makes each part correct:

- *Engine.* Goroutines share two unprotected fields; answers are handled in another order than
  SpiceDB commits; answers get lost; the window ends between any two steps. Correct means: a read
  sees the writes it must see, one call is answered from one snapshot, the
  fully-consistent override wins over whatever is cached.
- *Relation writes.* One method is several transactions. It can fail between them, interleave
  with another caller's, and leave a batch behind that is applied later. CREATE and TOUCH differ
  when a relationship is already there, or has expired and is not collected. Correct means: nil tells the
  truth about every subject, an error leaves a prefix, an expired relationship is no obstacle to renewing it.
- *Cleanup.* A purge as subject is one delete per referencing type, fails in parts, and is
  repeated. Correct means: it misses no type, relation or sub-relation, it stays on its
  object, and repeating it ends.
- *Resolver.* Recursion, one cache for all permissions, and an iteration order that Go randomizes. Correct
  means: it ends, it finds every type that can hold the permission and no other, whatever
  the order.

- *Queries.* One method makes several engine calls, each with a consistency of its own, of several RPCs or
  of a stream that may break. Correct means: yes and no are both true, conditional is told from either,
  a list is whole or an error, who is left out of it is told of by the wildcard, and the OPA builtins say what the
  typed methods say.
- *Generator.* A run writes file after file in place over what earlier runs left, can stop anywhere,
  and nothing compares what it wrote with a schema until a client runs. Correct means: success tells
  the truth about the output directory, what is accepted compiles, and a client that
  `VerifySchema` clears does what its methods say under the live schema.

The hazards are listed with their lines in `PROJECT.json`.

## 2. Modules

### Engine

`Engine.tla` is the token cache with several goroutines. A goroutine is at a program counter:

| Code | Actions |
|---|---|
| a write method builds its updates and sends them | `BeginWrite` |
| SpiceDB commits, or it or the network fails | `Commit`, `WriteFails` |
| `setToken` (crud.go:52-56), statement by statement | `WriteReturns`, `StoreWord` (twice), `StoreTime` |
| `SetSnapshotToken` | `SetSnapshotToken`, `StoreWord`, `StoreTime` |
| `getConsistencySnapshot` (69-92) | `BeginRead`, `CheckWindow`, `LoadWord` (twice) |
| the loop of one RPC per ID | `CheckID`, `ReadReturns` |
| other clients, wall clock | `OtherCommit`, `Tick` |

A Go string is a pointer and a length, so `e.token` is stored and loaded in two accesses, in either
order, and a reader may see the words of two tokens: a data race, whose outcomes are the choices of
`StoreWord` and `LoadWord`. Stores become visible in program order and reads are not reordered,
except for the two words: what amd64 guarantees for the code Go's compiler emits here.
SpiceDB is a counter of committed revisions and a read at revision r sees exactly the writes up to
r; a token that was torn is one SpiceDB cannot decode, so the read fails (`EvalRevs` is empty), which
is why a torn token is bad but never grants anything. A read may also fail at any moment
(`ReadReturns`). Revision 0 stands for the empty string of a new engine.

Variables after `left` are history: no guard reads them.

`TokenCache.tla` is the abstract specification: what an application may rely on, without tokens,
clocks or words. A read begins with what it must reflect (`floor`: with the override all that any caller was told is
written, otherwise the last isolated write), settles once on the newest revision, on one revision not older than `floor`, or on any,
and finds its IDs granted there. `Engine` implements it (`ImplementsTokenCache`): `call` is made of `mode`, the
loaded pointer, `floor` and `obs`; stores, ticks and failed writes are stutters,
`CheckWindow` past the window and the last `LoadWord` are `Choose`, `StoreTime` is `Report`.

### RelationWrites

`RelationWrites.tla` is `Create<Rel>Relations` and `Delete<Rel>Relations` of one relation, with
the engine methods they call. `AllowedTypes` is the relation: a sequence of branches with type,
sub-relation, caveat, expiration and wildcard. A request is a `<Rel>Objects` value; `Batches` is the
sequence of RPCs the generated method makes of it; `Begin`, `Serve`, `NextBranch`, `Refused` are the
method's control flow, `GiveUp` a context that ends. SpiceDB's side, `Accepts`, `After`, `ServeLate`,
`Expire` and `Collect`, is external: a batch is one transaction; CREATE fails on an existing
relationship, an expired one included until it is collected (crud.go:97-99 says so); TOUCH and
DELETE do not; a relationship that the schema does not allow is refused.

Batches are sets of IDs: the order within a batch, and duplicates, are left out. Caveat arguments
are reduced to the caveat's name, expirations to never, ahead and past.

`Disambiguated` is the rule by which `flattenAllowedTypes` rejects a relation; `ASSUME` makes it part of
every instance.

### Queries

`Queries.tla` is one call of a generated read method or an OPA builtin, while others write. SpiceDB is the
history of its stores: what each subject has on each resource at each revision, `"no"`, `"cond"` or
`"has"`; for a read, which rows the relation has. A slot is an input field of a Check method. `Relation` is the list of allowed types of the
relation that is read; `Unique` keeps the first of each subject type, as `uniqueByNamespace` does, so a type has a wildcard reader
(`WildcardTypes`) only if its first entry is the wildcard. A read asks by subject type alone, so usersets of the type come with it (`OpenRows`).

| Code | Definitions |
|---|---|
| which fields or keys are asked for, and in which order | `Plan`, from `Filled` (typed), `Present` (OPA, `subjectEntries`), `First` (lookups) |
| nothing given: `ErrNoInput`, false, or an empty list | `NothingGiven` |
| an engine call takes its consistency | `Snapshot`; module `Engine` says which it can be |
| `CheckPermission*`, one RPC per ID; `errorIfDenied`, `checkOneGranted` | `CheckID`, `NextSlot`, `Verdict` |
| `LookupResources*` per ID, `LookupSubjects*`, `ReadRelations` | `OpenResources`, `OpenSubjects`, `OpenRows`, `Recv`, `RecvRow`, `EndOfStream` |
| the generated method's own treatment of the lists | `Project`, `Concrete`, `StarFound`, `DefiniteOnly` |
| an RPC fails or a stream breaks | `Fails` |
| others write, through this engine or not | `Commit`, `SetToken` |

The window and the races of the token are `Engine`'s subject: here an engine call without the override is
pinned to some token of the past or to nothing. Lists of IDs and results are sets. The caveat context of a call is one
of three: not given, satisfying the caveat, or not. SpiceDB need not list a subject its wildcard covers. It
sends with the wildcard the subjects excluded from it (`ExcludedSubjects`), which the engine drops: being told of the wildcard does not mean
that everyone has the permission, and no property says so.

### Cleanup

`Cleanup.tla` is the three purge verbs, `subjectReferences`, and `DeleteRelationsMatching`. `Filters` are the
filters a purge sends; `Matches` is what SpiceDB makes of a filter, where an empty field
matches everything; `Scope` says what a purge is about and is independent of the filters. Each delete
can succeed, be refused, be applied with its answer lost, or be given up on and applied at any time
later. `Order` is the order of `sort.Strings`. The caller repeats a purge that returned
an error (`Retry`), as the README and the method's comment (object.go.tmpl:160) tell it to.

### Resolver

`PermissionTree.tla` is the part of the resolution of permission input types that is a function of
the schema: `Legs` is `ParseDefinitions`, `AppendNew` is `add`. `Resolver.tla` is the walk: `Resolve`, `AddTypes`, `AddCached`, `Revisit`,
`Call` and `Return` are `GetPermissionTree` and `resolveTransitive` with an explicit stack, of which the
`visited` map is the set of keys. `\E k \in roots` is Go's map iteration. Lists of types keep their
order. Definitions without permissions are left out.

`Accepted` (external) is what SpiceDB asks of a schema that is written to it: every allowed type is defined, no name of a definition is
both a relation and a permission, an arrow starts at a relation. The command compiles the schema without these checks, and the
code skips the parts of an arrow it cannot find; no client of a schema SpiceDB refuses can be used, so
`ASSUME ResolverAssumption` leaves such schemas out. An arrow may still end at nothing.

The second half of `PermissionTree` is the meaning the result is compared with: `InputTypes(s, k)`
collects the types of everything that can be reached from `k`, by SpiceDB's reading of the
expressions, and `InputList(s, k)` is their order: in each round every permission's list is `Collected` anew
from the lists of the round before, as often as there are permissions. `InputTree.tla`
is the abstract specification. It knows of a schema only what its operator constants say, which `Resolver` fills in: permissions get their lists one by one and for good, each as `InputList`
says, or for mutual recursion some part of `InputTypes` without repetition. `Resolver` implements it
with `tree` as the finished part of the cache (`ImplementsInputTree`). `README.md:445-446` says that a cycle such as `p = p + q` ends the
program with an error; the code has no such error, and `Terminates` shows that recursion is resolved.

### The generator

| Module | Models |
|---|---|
| `SchemaForms` | external: what SpiceDB's compiler hands to the generator, as constructors |
| `Adapter` | `adapter.go` and `utilstr`: Go names, `flattenAllowedTypes`, lowering of rewrites, caveats and usersets per permission, parameter types; `Refused` is every error before the first file |
| `SourceFiles` | `object.go.tmpl`, `schema.go.tmpl`, `opa.go.tmpl` with the view methods they call: what each file says. `Formats` and `Compiles` are gofmt's and the compiler's part (external) |
| `Generator` | `main` and the loops that write: `Start`, `BeginSchema`, `BeginOPA`, `Finish`, `Reject`, `Open`, `Write`, `Stop` |
| `SchemaDrift` | `VerifySchema`, `bucketDrift`, `IsBreaking`, `IsClean`, over an external `Diffs` |
| `ExampleSchema` | `example/schema.zed`, definition by definition |
| `BookingsvcClient`, `MenusvcClient`, `ExtsvcClient` | the files checked in under `example/authzed`, in the constructors of `ClientForms` |
| `Codegen` | all of these together: runs over files with contents, and the clients built from them next to the live schema |

A file is reduced to what differs between schemas: per relation the branches of `Create` (field,
type, engine method, sub-relation, caveat, expiration) and the wildcard readers, per permission its inputs, usersets and
caveats, the `Args` structs with their Go types, the types a purge as subject visits, the registered
builtins. What the methods do with these is the subject of `RelationWrites`, `Queries` and
`Cleanup`. Go identifiers are sequences of words, so that names that differ in the schema can meet in Go (`PackageName`
drops the underscores, `SnakeToPascal` capitalizes after them). `MCNames` tells TLC the words of each name and their order.
`ASSUME WordsAssumption` says that a name is what its words make. Two things are outside this abstraction: words that are empty
(`a__b`) and words that begin with a digit (`user_1` and `user1` are both `User1` in Go). A nested
rewrite is lowered by its path in the expression, which does without a RECURSIVE operator.

`Compiled` (external, in `Codegen`) is what SpiceDB's compiler has seen to in any schema it hands on: names are of the
schema's alphabet, and no two definitions, relations or permissions of one kind, or parameters of one
caveat, have one name; and of schemas that are not refused, what the resolver asks (`Accepted`).
`ASSUME CodegenAssumption` makes it part of every instance, and fixes `Rendering` to what `Catalog` renders to.

`Generator` itself knows nothing of contents: `Rendering[s]` is what a run makes of schema `s`. Its
states hold labels of texts; `Codegen` looks up in `Library` what a label says. os.WriteFile is two steps,
since it truncates before it writes. The schema file is edited at any time, and read once by a run
(`text`); `Deploy` writes it to SpiceDB (`live`).

`ExampleSchema` and the client modules were written independently of each other, from `schema.zed`
and from the Go files: that the one renders to the other (`RoundTrip`) is evidence that `Adapter`
and `SourceFiles` translate the code rightly.

Mutants, the operators whose name has a suffix such as `Touches_CaveatFirst`, are plausible
mistakes in the definition they follow. They are used by no specification; substituted for it,
they make a property fail, which shows the property can.

## 3. Runs

| Run | Instance | Shows |
|---|---|---|
| engine | 2 goroutines, 3 revisions, 4 ticks, window 1, up to 2 IDs | all safety properties of `Engine`, refinement of `TokenCache` |
| engine_own_writes | the same | `ReadYourOwnWrites` fails (finding 1) |
| relation_writes | 2 callers, 5 branches, 3 requests, 1 lost answer | all properties of `RelationWrites` |
| relation_writes_userset | the same | `DeleteRevokes` fails (finding 2) |
| queries | 4 slots, 2 IDs and the wildcard, 2 resources, 18 stores, 92 calls, one commit | truth of checks and lookups, agreement of OPA and typed methods, subjects, wildcards, reads |
| queries_opa_check | the stores and calls of queries, no commit | `OPACheckMatches` fails (finding 5) |
| queries_wildcard | the same | `WildcardIsExposed` fails (finding 6) |
| cleanup | a user and a team, 4 allowed types, 1 failure | completeness and footprint of purges, retries end |
| cleanup_unset_id | a team with ID `""` | the footprint fails (finding 3) |
| resolver | 2304 schemas of 3 definitions and 3 permissions | exactness, termination, refinement of `InputTree` |
| resolver_recursion | one schema | `RecursionIsExact` fails (finding 4) |
| generator | 15 schemas, 6 edits, 1 stopped run, 9 directories to start from | truth of success, round trip of the example, compilation, builtins, drift against writes and purges |

Bounds.

- *Engine.* A stale or torn token needs two writers, a reader can be either of them between its
  writes, and other clients commit through `OtherCommit`. Three revisions allow two racing writes and a
  third write after them; two IDs are the least at which a conjunction can be split. The window
  is one tick and the clock goes on for three after the start: long enough to write, expire and write again. Lengths
  of tokens differ between consecutive revisions, so that mixed words need not fit.
- *RelationWrites.* The relation has a branch for each engine method and operation: CREATE with and without a
  caveat, TOUCH with an expiration and a caveat, a userset, a wildcard. The requests meet on
  one subject in two branches, leave out the expirations, and name a type both plainly and as a
  userset. One ID is enough since a batch is all or nothing.
- *Queries.* Two types whose tree order and alphabetical order differ, a userset of a type that is no slot and one of a type that is,
  and two IDs for one of the types are the least
  at which an order, a conjunction within a type and one across types can go wrong. Two resources let a stream
  break half-way. One commit suffices to make an old and a new answer differ; the store it leads to is any of the others.
- *Cleanup.* Two objects, one of them on both sides of a relationship and referenced by two types, one of
  these through a userset. One failure or lost answer is each kind of failing delete in turn, and
  the retry after it meets what the first attempt left.
- *Resolver.* Each permission has one or two operands, from pools that contain direct and mutual recursion,
  recursion through arrows within and between definitions, arrows to relations, to permissions and to nothing,
  `self`, and a userset. Two permissions of one definition and one of another are the least with a
  cycle inside a cycle.
- *Generator.* One schema is the example, 21 definitions of three packages, over the checked-in
  files; the others have one to four definitions: a base that is edited to gain or lose a definition,
  to use a caveat, wildcard and expiration, to hold a definition called `opa`, or to have a name gofmt stumbles over; two that
  are refused; six that the generator takes although the result does not compile, of which one (`Twins`) is only
looked at by an `ASSUME`. `Edits` are the pairs
  in which files are left over, change meaning, or become unreachable. One stopped run leaves
  a half-written directory for the runs after it, which any number of times read the same or
  an edited schema, with or without `--emit-opa`.

What `FinishedCompiles`, `BuiltinsMatchChecks`, `WritesAccepted`, `CleanPurges` and `KeysArePrivate` ask of a package:
`Tidy`, its directory holds no file of an earlier schema (nothing removes these); `Fitting` and `Plain`, the
schema has none of the clashes the generator does not see. These are: a caveat that two definitions of the
package use, or two caveats of one local name; a subject of another package or whose name has several words; `t` beside `t:*`; two
prefixes of one package; definitions called `opa`, `wildcards`, `caveats` or `expirations`, which are the names of a file or
of fields of their own; permissions in a definition without a relation or purge; and a sub-relation and a caveat that give one
field: `team#join` and `team` with one of two caveats, called `join`, are both `TeamJoin` in `<Rel>Objects`. The last one came
up in the proof of `OutputCompiles`. Names made of a definition's and a relation's name
(`DocOwnerObjects`) are not compared with each other. `ASSUME Unsound` in `MCGenerator` says that each of the six schemas that
break one of these conditions is accepted and does not compile, so that none is there for nothing.
`KeysArePrivate` is what `detectPermCaveatCollisions` is for: a schema of the instance is refused by it.

`resolver` and `resolver_recursion` say `CHECK_DEADLOCK FALSE`: a resolver that is done stops. The other systems never do
and deadlock is checked.

Fairness. `Cleanup`: weak fairness of a purge's own steps (a sequential method whose RPCs answer or
fail) and of the caller's retry, which is the documented use; nothing is assumed of other
clients, of late deletes, or of deletes succeeding, except that `MaxLost` of them fail. `Resolver`: weak fairness of the
whole step, since a sequential program runs. `Engine`, `RelationWrites` and `Queries` have safety properties only. `Generator`
states weak fairness of a run's own steps, since `main` is sequential; no property needs it.

## 4. Findings

1. *Own writes can be missed.* Two goroutines write through one engine; the older revision's
   answer is handled last. The other goroutine's next check is pinned to it and does not see its own
   write, against `docs/spec-009-consistency-mode-opt-in.md:189`. What does hold is
   `ReadYourIsolatedWrites`, and with one writing goroutine that is the documented promise.
2. *Userset grants cannot be revoked by `Delete<Rel>Relations`.* `DeleteRelations` leaves out the sub-relation. Where
   the relation also allows the plain type the call returns nil and deletes the plain grant
   instead; otherwise SpiceDB refuses. `README.md:455` says Delete revokes. The purge verbs do cover usersets.
3. *A purge with an unset ID deletes the whole type.* The filter is not empty, so it is not rejected,
   against `docs/scope-relationship-cleanup-verbs.md:49` and spec-014:249.
4. *Mutual recursion gives short input lists,* which depend on the iteration order, against the
   comment at generator.go:386-393. `TameIsExact` and `OutermostIsExact` say where the result is right.
5. *The OPA check grants an empty list.* `{"extsvc/user": []}` makes an engine call with no IDs, which returns nil;
   the typed method returns `ErrNoInput`. `README.md:392` says they match. `OPAAgrees` says where they do.
6. *A caveated wildcard can be told by no method.* `Lookup<Perm><Type>Subjects` takes `*` out of `Definite`, and
   `Lookup<Perm><Type>WildcardSubjects` sends no caveat context and counts only definite answers. When the context of the call satisfies the
   wildcard's caveat, `*` is definite in the first and conditional in the second, so neither tells of those who have the
   permission by it, against `pkg/authz/authz.go:283-287`. `docs/spec-008:293` (C10) says that the generated lookups do not strip `*` at all; the
   template (line 348) does. `SubjectsAreCovered` says what does hold, with `Hidden` as the exception.

Others have no run of their own.

- *A type and its wildcard in one relation do not compile.* `user | user:*` are two groups of one entry, both
  named `User`, so `<Rel>Objects` has the field twice, against `internal/generator/adapter_test.go:109-112`. It is the schema `Both` of
  `ASSUME Unsound`; `schema.zed` has no such relation.
- *Some wildcards have no reader.* `docs/spec-005-read-with-metadata.md:209` gives every wildcard entry its `Read<Rel><Type>Wildcard`; the template
  makes one only where the wildcard is the first entry of its subject type (`ASSUME WildcardReaders`). In `user#member | user:*` it is not, and
  the wildcard's row is in no method's answer.
- A sub-relation and a caveat of one name can make one field (`Twins`, above), which no document of the repository speaks of.
- An expired grant of one allowed type makes a `Create` of another fail until it is collected: the expiring branch touches, the
  other one creates. `docs/spec-004` (lines 383 and 392) has the collision avoided for expiring types and says of the others
  that nothing changes; `ExpiredBlocksOnlyOthers` says that it is the only way an expired grant gets in the way.
- Arrows to relations contribute no input types, against `README.md:443-445`; `TameIsExact` and `OutermostIsExact` leave such permissions out.
- The OPA lookup and the typed lookup choose different types when given several, the first in the order of the namespaces and the
  first in the order of the permission tree, against `docs/spec-013-opa-go-builtins-codegen.md:154`; `OPAAgrees` compares lookups by
  a single type.

## 5. Proofs

For every value of the constants that satisfies the named assumptions. The theorems below say of a specification what holds in all
its behaviours; each rests on an inductive invariant, with one lemma per action or group of actions, and TLC's runs
check the same properties on their instances.

`EngineProofs.tla` (`EngineAssumption`: the window and the bounds are naturals, a token's length is 0 only
for the empty token):

- `TypeCorrect`: `Spec => []TypeOK`, one step per action.
- `Invariants`: `Spec => [](WriteInv /\ ReadInv)`. The five safety properties are not inductive.
  `WriteInv` says what a writer has stored at each program counter, that an isolated writer is the
  only one in flight and that the cached words are a mixture of writes still in flight and the last settled one, so that a settled
  write stays in the cache until a newer one overwrites it. `ReadInv` says the same of the words a reader has
  loaded, word by word. Each is preserved by every action (`WriteInvStep`, `ReadInvStep`).
- `NeverEmptyPin`, `IsolatedWritesAreRead`, `QuietTokenIsExact`, `PinnedCallsAreAtomic` and
  `FullReadsAreFresh`, one for each property, follow from these.
- `CacheImplemented`: `Spec => ImplementsTokenCache`. Each action maps to one of `TokenCache`'s or to a stutter
  (`CacheStep`); the invariants above give what `Report`, `Choose` and `Answer` ask for.

`CleanupProofs.tla` (`CleanupAssumption`: allowed types are of the schema's definitions and have a name):

- `FiltersCover`: every relationship in the scope of a purge is matched by one of its filters, the one
  for the relationship's resource type; this is where `subjectReferences` must list every type.
- `TypeCorrect`, and from it `PurgesComplete`: `Spec => []PurgedIsGone`. The inductive invariant `Covered` says that
  while a purge runs each relationship of its scope is still matched by a filter to come, or was granted
  meanwhile, or is of a type whose delete failed.
- `PurgesStayOnObject`: `Spec => PurgeStaysOnObject`, under the hypothesis that no object has an empty type or ID;
  run `cleanup_unset_id` shows that the hypothesis is needed.

`GeneratorProofs.tla`, first of `Generator` (`RenderingAssumption`: a run writes the files it renders, packages in any order;
`EditsAssumption`, `OriginsAssumption`, `StopsAssumption`):

- `TypeCorrect`: `Spec => []TypeOK`.
- `SuccessIsCurrent`: `Spec => []FinishedIsCurrent`, for any schemas, edits, leftovers and number of stopped
  runs. A file that is written later can have the path of an earlier one, so the property is that the path has one of
  the run's files. The inductive invariant `RunInv` adds that what is left to write is rendered (`TodoIsRendered`) and that while a run is
  in progress every file it renders is still to be written, or current, or open (`NothingSkipped`).

then of `Codegen` (`CodegenAssumption`, `WordsAssumption`), for every catalog of schemas that are `Compiled`:

- `OutputCompiles`: `Spec => []FinishedCompiles`. `BuiltinsMatch`: `Spec => []BuiltinsMatchChecks`. `WritesAreAccepted`:
  `Spec => []WritesAccepted`. `PurgesAreClean`: `Spec => []CleanPurges`. `CaveatKeysArePrivate`: `Spec => []KeysArePrivate`.

These say something of states in which the last run reported success. Of such a state (`Settled`) three invariants
are needed: `TypeOK`, `FinishedIsCurrent`, and that the run's schema was not refused (`RefusedIsReported`). They give `OutputIs`: the files
of an orderly package are the sources of its definitions and, with `--emit-opa`, its builtins. No two definitions share a path there
(`PathsDiffer`), so that "one of the run's files" is the file itself. What is left is about `Adapter` and `SourceFiles`, for any schema:

- *Writes.* `NothingRemoved` and `NothingAdded` turn `~IsBreaking` and `IsClean` of `BucketDrift` back into facts about both schemas. Every branch of
  `Create` sends what its allowed type allows (`CreatesAre`, `SentIs`), and the live schema allows it too (`TakenIs`).
- *Purges.* `PurgesAgree`: without drift, both schemas have the same definitions that allow a type.
- *Keys.* The caveats of a check are those `detectPermCaveatCollisions` compares (`CheckCaveatsAre`), and each `Args` struct has the
  parameters of its caveat (`ArgsAre`, `ParamsAre`); a package has no two caveats of one local name.
- *Builtins.* `BuiltinsAre`: the registered pairs are exactly the permissions of the package, each once; `BuiltinNames`: the words of
  the name fix the pair, since a definition goes by one word.
- *Fields.* `FieldsDiffer`: two branches of one relation have different fields. It is here that `Ambiguous` must reject what it
  rejects and that `Endings` must keep sub-relations and caveats apart. `InputsFieldsDiffer` is the same of `Check<Perm>Inputs`, and
  rests on the input lists being free of repetition.
- *Uses.* `DeclaresDiffer` and `UsesDeclared`: declared names differ within a package, and every name a file uses is one of
  them. The types of a permission's inputs may come from far away, through arrows and other definitions; a package
  whose relations allow only its own types is closed under that (`PackageInside`, from `InputListInside` of `PermissionTreeProofs`).

`SequenceLemmas.tla` has no theorem of its own to show: what the other modules need of sequences, and of recursive functions.
Induction is `NatSetInduction`, over a set of numbers: a module states what it wants to show of n as membership of a set that it
constructs. `Loop` is a recursion over 1 .. n as a function, `Rounds` the equation it satisfies,
and `AppendAdds`, `KeptAre` describe the two loops the code has most of, appending to a list and filtering one, and `Mapped`, `MappedOnce`,
`OneThenRest` what becomes of a list whose elements are renamed or put behind another.

`RelationWritesProofs.tla` (`WritesAssumption`: the relation is unambiguous, so what `flattenAllowedTypes` lets through; a wildcard has no
sub-relation; requests give each branch a set of IDs):

- `WritesTypeCorrect`: `Spec => []TypeOK`, and `FailuresLeaveAPrefix`: `Spec => []FailureLeavesAPrefix`. The inductive invariant
  `CallInv` is the types, with `Progress` of each caller: `todo` is the rest of the batches its request makes, the passed
  ones were applied, and of the batch in hand SpiceDB has applied nothing or everything.
- `DeletesRevoke` and `CreatesGrant`: `Spec => []P` for P `DirectDeleteRevokes` and `CreatedIsGranted`. The invariant `StoreInv` adds to
  `CallInv` what each subject of a passed batch is in the store: revoked (`Revoked`) or granted (`Granted`), unless others, a lost batch,
  or the clock had a hand in it since, which the history variable `others` notes.
- `StoreIsAdmitted`: `Spec => []SchemaInv`, SpiceDB holds only what an allowed type admits, before and after it expires; and from it
  `ExpiredGrantsAreRenewed`: `Spec => ExpiredBlocksOnlyOthers`. What refuses a CREATE is a stored relationship; if it has expired,
  an expiring allowed type admits it, and that is not the refused branch, which would have touched it.

`QueriesProofs.tla` (`QueriesAssumption`: the two orders list the same slots, and a call is one the generated methods can be given):

- `QueriesTypeCorrect`: `Spec => []TypeOK`, and `CallsKeepTheirShape`: `Spec => []Shape`. `Shape` says that a call asks for nothing it
  was not given, that what is collected fits its method, and that every engine call honours the override.
- `GrantsAreTrue`, `DenialsAreTrue`, `LookupsAreExact`, `SubjectsAreTold` and `ReadsShareTheRows`: `Spec => []P` for `GrantedIsTrue`,
  `DeniedIsTrue`, `LookupIsExact`, `SubjectsAreCovered` and `ReadsAreWhole`. A method is of one of four families,
  and each family has its invariant (`CheckInv`, `LookupInv`, `SubjectInv`, `ReadInv`): each ID of a check is pending or was granted at a
  fresh revision; of a lookup, every resource that all fresh revisions hold was delivered or is still owed by the stream,
  and none else; of a lookup of subjects and of a read, what was delivered and what is owed are those of one fresh revision (`SubjectsOf`,
  `RowsAt`). An answer stays true when others commit, since that only adds
  a revision it may be from (`Grows`).
- `BuiltinsAgree`: `Spec => []OPAAgrees`.

`PermissionTreeProofs.tla` (`Accepted` is a hypothesis of its lemmas): what the operators on schemas return. Every leg names types of the schema
or one of its permissions (`LegsAre`), what is below a permission is closed (`BelowIs`) and adds to its input types
(`InputTypesBelow`); a set of lists, each of which holds what its legs are worth, holds all input types (`Complete`); the list of a permission without
mutual recursion no longer changes after as many rounds as it needs permissions (`ListSettles`), so `InputList`
is what one more `Collected` makes of it (`ListIsCollected`). A set of types that no relation and no permission leads out of (`Inside`) holds
all input types of its permissions (`InputListInside`).

`ResolverProofs.tla` (`ResolverAssumption`, except for `WalksOnce`):

- `WalksOnce`: `Spec => []EachOnce`, for every schema. The inductive invariant adds that the stack is a
  sequence of frames (`Framed`). With it the walk's depth is bounded by the number of permissions.
- `ResolverTypeCorrect`: `Spec => []TypeOK`.
- `TameGetAll` and `OutermostGetsAll`: `Spec => []TameIsExact` and `Spec => []OutermostIsExact`. In the inductive invariant
  `WalkInv` the stack is a chain of callers, each waiting for the one above it (`Chain`), and what a frame, or a finished
  permission, has gathered from the legs it has dealt with is all they are worth, except for legs that are part of a mutual recursion, of
  which it has part (`Met`, `Known`). `FirstInv` is for the outermost permission: until it is finished, whatever the recursion cut off was
  collected somewhere in the stack, and so ends up in it. `Complete` turns this into exactness.
- `TreeImplemented`: `Spec => ImplementsInputTree`. `ListInv` adds the order: without mutual recursion a frame has
  the types that `Collected` makes of the legs dealt with. `Return` is `Publish`, and every other step of the walk a stutter.

Only model-checked: `RetriesSucceed` and `Terminates`, since liveness under fairness is out of the prover's reach; and `RoundTrip`, which is
not about every schema but about one: that `Rendered(ExampleSchema)` are the checked-in files is a computation with 21 definitions and the words
of their names, whose result TLC finds at once and the provers would have to be led through line by line. What `RoundTrip` needs
besides, that a run which reports success has written what its schema renders, is `SuccessIsCurrent`.


## 6. Not modelled

- The conversion of OPA terms, and what OPA does with a builtin registered twice.
- `serializeCaveatMap` and `coerceCaveatValue`: conversions of single values without a state.
- Doc comments and the expressions of caveats in the comparison of schemas, and with them
  `CaveatExprChanged` and the fourth bucket; Go names joined from a definition's and a member's; the text of the templates around what
  differs; flag parsing and the wording of errors.
- Replacing `DefaultEngine` while calls run: every model has one engine.
- The test sandbox and the OPA demo: one starts a container for tests, the other shows one policy.

## 7. Plan

Done: `Engine`, `TokenCache`, `EngineProofs`, `RelationWrites`, `RelationWritesProofs`, `Queries`, `QueriesProofs`, `Cleanup`,
`CleanupProofs`, `PermissionTree`, `PermissionTreeProofs`, `Resolver`, `ResolverProofs`, `InputTree`, `SequenceLemmas`, `Adapter`, `SourceFiles`,
`SchemaDrift`, the example, `Generator`, `GeneratorProofs`, `Codegen`.

1. `Relationships`, an abstract store, implemented by `RelationWrites` and `Cleanup` when nothing fails.
2. `Fitting` without the condition that all definitions of a package have one prefix.
3. The conversions of caveat values, the sandbox's retry loop.
