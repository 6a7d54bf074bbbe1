# A TLA+ model of paperminer

paperminer is a daemon beside the document archive Paperless-ngx. It looks for
documents with a *todo* tag, downloads them, lets plugins extract *facts* from
their files (title, date, correspondent, tags ...) and writes the facts to
Paperless. Source paths below are relative to `src/`.

## 1. Inventory

| Component | State it keeps | Operations | Interacts with |
|---|---|---|---|
| Patch builder (`internal/cataloger/patchbuilder.go`) | wanted fields and tags of one document | newPatchBuilder, setTag, unsetTag, setFacts, build | resolvers (names to IDs) |
| Task and updater (`internal/cataloger/task.go`, `updater.go`, `workflow.go`) | document as listed, metadata, snapshot, retry record of one attempt | loadTask, newUpdater, Do (applyFacts, markFailed), CheckModified, patchDocument, SaveResult | Paperless (5 kinds of requests), store, resolvers, extraction |
| Task store (`internal/store`, `internal/core/store.go`) | retry records by document version, in a file that does not survive a restart | Get, Upsert, Prune | tasks, pruner |
| Store pruner (`internal/core/storepruner.go`) | none | deletes records not updated for 24 h | store, poller |
| Resolver (`internal/objectresolver/resolver.go` and one provider per kind) | calls in flight, by name (singleflight) | GetByName, GetOrCreateByName | Paperless; called by all workers |
| Walk (`internal/cataloger/walk.go`) | documents seen, worker pool | walkDocuments | Paperless (pages of documents), tasks |
| Poller (`internal/poller`) | timer, notification channel | poll, Poll | runs the walk and the pruner |
| Program (`internal/core/program.go`, `workflowenv.go`) | environment, error group, context | Run, notifyPostConsume | everything |
| HTTP server (`internal/httpsrv`) | listener, open requests | ListenAndServe | program; POST /notify/post-consume |
| Extraction (`internal/document`, `internal/facter`, `internal/fsutil`) | temporary directories, plugin results | ExtractFacts, ExtractVariantFacts, Group.Extract, Best | Paperless (downloads), plugins |
| Object permissions (`internal/objectresolver/all.go`, `permissions.go`) | IDs that get rights on new objects | resolve owner, users, groups by name, once at startup | Paperless; all resolvers |
| In-memory resolvers (`internal/objectresolver/memprovider.go`) | objects by name | create, listByName | plugged into the resolver by tests |
| Plugin registry, sketch plugin, logging, flags, test support | - | - | - |

How they interact: `Program.Run` starts the HTTP server and, once it listens,
the two workflows, each a polling loop. A poll of the cataloger is a walk; the
walk hands every document to one of several workers; a worker makes one attempt
at it: load the retry record, look up the daemon's tags, extract facts, build a
patch, check for conflicts, PATCH, save the record. A poll of the other
workflow prunes the store. A request to the HTTP server puts a token into the
cataloger's channel.

What is hard about it, and what makes each part correct:

- **Patch builder.** It sends differences only; leaving out one too many loses a
  fact. The patch must take the document to what the facts want.
- **Task and updater.** Users, the server and the pruner act between any two
  requests; requests fail, answers are lost, the daemon restarts. No user's edit
  is undone, a cataloged document is not marked failed, back-off and the maximum
  of retries are kept, and every document is dealt with in the end.
- **Resolver.** Look-up and creation are separate requests made by concurrent
  workers. One object per name, one answer for one name.
- **Walk.** The listing is paged and changes while it is read, by the walk's own
  workers too. No document is processed twice at once, none is forgotten, and
  the walk ends.
- **Poller.** Notifications and cancellation race with the poll and the timer.
  No wake-up is lost.
- **Program and server.** Goroutines of one group wait for each other while
  signals and failures come at any time. It starts in order and always ends.
- **Startup and object permissions.** A dozen fallible steps, the store's temporary
  directory among them, and one request per name while accounts may be renamed.
  Nothing is left behind, and rights are neither wider nor narrower than
  configured.
- **Extraction.** Concurrent plugins, a deadline, clean-up on every path. The
  result does not depend on the order of the plugins, nothing is left behind.

## 2. Modules

| Module | What it models | Used by |
|---|---|---|
| `PatchBuilder` | the builder as operators (no state) | `DocumentTask` extends it |
| `MCPatchBuilder` | a document patched with any facts, repeatedly | runs `patch_*` |
| `Cataloging` | what the daemon promises to do to documents, each in one step (abstract) | `DocumentTask` implements it |
| `Dispatch` | what walk and attempts take for granted of each other (abstract) | `Walk` and `DocumentTask` implement it |
| `DocumentTask` | attempts, store, pruner, restarts, Paperless and its users | `MCDocumentTask`, runs `task_*` |
| `Resolver` | one resolver, its callers, the server's objects | `MCResolver`, runs `resolver_*` |
| `Walk` | the walk, its workers and the listing | run `walk_pages` |
| `Poller` | the loops and the notification channel | `Program` extends it |
| `Startup` | Run up to the error group: validation, store directory, names of users and groups | `Program` extends it |
| `Program` | the startup at large, error group, server, signals | `MCProgram`, runs `program_*`, `poller_jitter` |
| `Extraction` | the extraction of one document's facts | run `extraction_outcomes` |
| `PatchBuilderProofs`, `MCPatchBuilderProofs`, `DocumentTaskProofs`, `CatalogingProofs`, `ResolverProofs`, `WalkProofs`, `ExtractionProofs` | theorems about the module they are named after (`CatalogingProofs`: that `DocumentTask` implements `Cataloging` and `Dispatch`) | - |
| `ProgramProofs` | theorems about `Program` and with it `Startup` and `Poller` | - |

The modules meet at their boundaries instead of being composed into one state
space that TLC could not finish:

- `Walk` and `DocumentTask` meet in `Dispatch`, the contract both implement, as
  theorems (*DispatchKept*, *DispatchServed*). `DocumentTask` gives a document one
  attempt at a time, begun with the document as listed, todo tag and all: the walk
  keeps to that. `Walk` takes an attempt for something that removes the todo tag or
  leaves it: attempts never add it. That an attempt ends is *TodoEventuallyCleared*'s side (`DocumentTask`) and
  *ExtractionEnds* (`Extraction`).
- `Program` takes a poll for something that returns: *WalkEnds* of `Walk`.
- `DocumentTask` takes resolving a tag for a step that gives the tag's ID or
  fails: *StableIdentity* and *CallsReturn* of `Resolver` say that it gives the
  same one every time, as long as nobody deletes it, and returns.

### PatchBuilder

A document's fields are a function; `ScalarFields` are compared by value,
`ObjectFields` are `*int64` in the code and compared as pointers, which are
equal only when both are nil (`patchOptionalValue`). `Keep` is an absent fact,
`Nil` the empty name that clears a reference. Tag lists are sets, which is what
`normalizeIDs` makes of them. `PatchedFields` and `PatchedTags` are the server's
side of a PATCH request.

### DocumentTask

`docs` and `alive` are the server. `pc` and `job` are the attempt of each
document: a label per request, and the fields of `task` and `updater` that
outlive a request. `store` maps keys (ID, modified, checksums) to records. `hist`,
`applied` and `touched` are observers that no action reads.

| Action | Code |
|---|---|
| Start | the walk lists the document and `tasks.Go` runs `processDocument` |
| LoadFails, LoadSkips, LoadReady | `loadTask` |
| ResolveTags, ResolveFails | `newUpdater` |
| SizeExceeded, ExtractFails, ExtractFacts | `applyFacts` up to its patch |
| CheckDocument, CheckMetadata, CheckFails | the two requests of `CheckModified` |
| PatchDocument, PatchAnswerLost, PatchFails | the PATCH request |
| Save, SaveFails | `SaveResult` |
| Prune, Tick, Crash | the pruner, time, a restart |
| EditDocument, ReprocessDocument, DeleteDocument | users and server |

`Do`'s choice between giving up and returning the error is the operator
`DoFailed`, part of every action that makes `applyFacts` fail. Two things about
Paperless are assumed, from how the code relies on them: saving a document
changes *modified*, and reprocessing its file changes a checksum but not
*modified*. A download that fails with 404 while the document is there is
possible (`ExtractFails` with a permanent error). Time is kept relative (how far
ahead `RetryAfter` lies, how old a record is), which keeps the state finite.

### Cataloging

The abstract specification knows neither attempts nor requests, retries,
records or restarts: a document with the todo tag is cataloged (`Catalog`) or marked
failed (`MarkFailed`) in one step, users change and delete documents. It says what
may happen; that it does happen is *TodoEventuallyCleared*. `Catalog` may
leave out fields that are right already, as the patch does; the fields a user changes
meanwhile then stay as the user has them.

What keeps it from being simpler is that Paperless has no conditional requests:
between the `GetDocument` of the conflict check and the PATCH a user's edit goes
unnoticed. The variable `base` is what the daemon believes a document to be; tags are
computed from it, and it is the document itself unless a user has been quicker
than the check could see. `DocumentTask` maps to it with the state functions `Seen`
(fields and tags of a document) and `Base`: the document as listed, if it was changed
in the window between the check's look at it and the PATCH, else the document.
Of the attempt's steps only `PatchDocument` and `PatchAnswerLost` are steps of
`Catalog` or `MarkFailed`; the others, time, the pruner and restarts stutter or make
the daemon look again (`Look`). The mapping needs no history: an attempt cut off after
its PATCH leaves nothing to be told from one that was completed.

### Dispatch

Three variables: the documents with the todo tag, how many attempts at each document
are under way, and how often users changed something. An attempt is under way from
being listed, not from being given to a worker, because that is when the copy of the
document is made that the attempt will work with. In `Walk` a document is `Waiting`
while it is on the page at hand and was not seen before; in `DocumentTask` an attempt
is whatever is not idle. The walk never clears a tag in the middle of an attempt and
knows of no restarts, the attempts never begin several at once: each implements a
part of `Dispatch`, and neither needs more of the other than it says.

### Resolver

A flight is one execution of the function given to singleflight, led by the
caller that started it; `calls` says which flight a caller waits for. Each
request of the flight is an action and acts on the server at one moment; what
the flight does with the answer is a later action. Names are model values,
`Fold` tells which of them differ in case only. A rejected creation stands for
the uniqueness constraint of Paperless and for kinds that cannot be created.
Users add, rename and delete objects; an object renamed to another spelling still
goes by its name, any other renaming takes it out of what the daemon has made.

The in-memory provider is the same module with `Unique` (a name that is taken is not
created again) and a `Fold` that is the identity, as names are keys of a map; that is
how `resolver_joined` is configured.

### Walk

Pages are computed from the tags at the time of each request, as the server
does. `ReceivePage` fixes whether the page has a successor; a page that does not
exist any more makes the listing fail, as the server answers 404. `tasks.Go`
blocks while all workers are busy: that is `Process`'s guard.

### Poller and Program

A loop is in one of the phases *poll*, *check* (the first select), *sleep* (the
second) and *stopped*. A timer that is stopped leaves nothing in its channel to
be taken for its next firing; the draining after `Stop` in the code is not
modelled as a step. In `Program`, `main`, `http`, `watcher` and `receiver` are
the program counters of four goroutines; the error group is `result` and
`cancelled`. `ReadyCh` is unbuffered: `Ready` is a rendezvous of sender and
receiver.

`Startup` is the part of `Run` before the group, one action per step that can fail
or that others can see. The resolution of names is a queue, `Lookups`: the owner
first, then both rights for both kinds, in the order of the code; `granted` collects
what was found. A name is looked up without regard to case and must fit exactly one
account. Sorting and removing duplicates is what makes the lists sets. `named`
observes which names the accounts went by since the start. The store's directory is
*made* from MkdirTemp to RemoveAll, which is deferred and so runs on every path;
*stuck* is a directory that could not be removed. `Program` adds what cancelling does
to the requests, and hands the environment over (`EnvComplete`) when it starts the
group. `AsksFor` is what the polls of a workflow take from the environment, which
panics for what is missing.

### Extraction

Both versions of a file go through the same phases. Plugins run concurrently and
return in any order, with any outcome; callbacks are called in the order of the
plugins. The deadline may pass at any time; a download does not succeed after
that, and a plugin may still return anything.

## 3. Runs

| Run | Question | Size |
|---|---|---|
| `patch_facts` | *PatchesReachFacts*: does a patch take every document to what any facts want? | 144 states, all facts in each |
| `task_safety` | *NoLostUpdate*, *NeverFailAfterApply*, *ExhaustedBeforeFailed*, *BackoffRespected*, *DaemonClearsTodo*, *PromiseKept* (implements `Cataloging`), *DispatchServed* (implements `Dispatch`) | 972k states |
| `task_progress` | *RetryLimit*, *TodoEventuallyCleared* | 272k states |
| `resolver_shared` | *NoDuplicates*, *StableIdentity*, *CallsReturn* | 421k states |
| `walk_pages` | *NoConcurrentAttempts*, *OncePerWalk*, *QuietPassComplete*, *WalkEnds*, *EveryDocumentAttempted*, *DispatchKept* (implements `Dispatch`) | 56k states |
| `program_lifecycle` | *EnvReadyForPolls*, *NoLostWakeup*, *NothingRunsAfterReturn*, *CleanExit*, *PermissionsAsNamed*, *StoreDirRemoved*, *StartedThenStops*, *KeepsPolling* | 111k states |
| `extraction_outcomes` | *FileOutlivesPlugins*, *DirectoriesRemoved*, *ResultFollowsOutcomes*, *ExtractionEnds* | 39k states |

The definitions carry comments that state each property in words.
`program_lifecycle` and `extraction_outcomes` do not check for deadlock because
the program and an extraction end; that they do is checked as a property.

Five runs find a property violated; see section 6.

### Bounds, and why they are enough

- `DocumentTask`: attempts at different documents share nothing but the bounds,
  so one document is enough. A lost update takes one edit between listing and
  PATCH, a wrong mark one lost answer, an early attempt one prune; `MaxEdits`,
  `MaxFaults` and `MaxCrashes` are 1. With `RetriesMax` 1 there is a first
  attempt, a retry and the giving up; `RetryCap`, which cuts off versions with more
  failures, lies above it. `PruneAfter` 5 is not below the longest delay in
  `task_safety` (5), so that the assumption of *BackoffRespected* holds and the
  pruner still gets in. In `task_progress` `PruneAfter` is 7 and `PromptPolls` says
  that a due document is listed before its record is old enough to be pruned.
- `Resolver`: two callers are one that leads and one that joins or that comes
  with the other spelling; two edits delete or rename an object and add it again, three
  objects are one per spelling and a duplicate.
- `Walk`: four documents on pages of two make two full pages; the removal of an
  earlier document shifts a later one past the page boundary, a document may wait for
  a worker behind another of its page, and the last page may vanish. Two workers
  overlap.
- `Program`: two workflows, one notified and one not; two requests are the one
  that fills the channel and the one that finds it full. One failure at a time. Three spellings of two names, of which two
  differ in case only; a name given twice; a directory in which every name fits one
  account and one in which a group's name fits two; one renaming, which may make a
  name miss, fit another account or become ambiguous. The shortest and the longest
  delay that jitter makes.
- `Extraction`: three plugins on two goroutines make one wait for a free
  goroutine and let two disagree while a third finds nothing.

### Fairness

- `DocumentTask`: weak fairness of `Start` (the poller polls again and again,
  *KeepsPolling*), of an attempt's next step (requests are answered or fail;
  extraction has a deadline) and of time. None for the pruner, users, faults and
  restarts; the last three are bounded, which is the proviso of
  *TodoEventuallyCleared*.
- `Resolver`: weak fairness of each flight and of returning from a call. Nobody
  has to call.
- `Walk`: weak fairness of the walk itself (one goroutine that is never blocked
  for good) and of every busy worker's end.
- `Program`: weak fairness of every goroutine's next step, of handling a request
  and of time, none of signals, requests and failures.
- `Extraction`: weak fairness of the extraction's next step and of every plugin's
  return. A plugin that ignores its context would break it; the code has no
  remedy against that.

## 4. Theorems

`PatchBuilderProofs` proves, for all documents, facts and tags, that the
patch takes the document to what the facts want, and that an empty patch, for
which no request is made, means it is there already. `MCPatchBuilderProofs` carries
this over to a document that is patched again and again (*PatchesReachFacts*): what a
patch leaves behind is a document again (`DocumentType`).

`DocumentTaskProofs` proves type correctness, the five safety properties
of `task_safety` that are stated of it directly and *RetryLimit*, for any number of documents, values, tags, retries and any
bounds. The inductive invariants add to the type invariant what the properties
do not say by themselves:

- *NoLostUpdate*: *modified* never falls behind what the attempt was listed with, and
  while the two are equal so are tags and fields (`ListedKeepsUp`); a conflict check
  that was passed means they are equal until somebody else changes the document
  (`CheckHolds`).
- *NeverFailAfterApply*: once the facts were served, *modified* has moved past the
  listed one (`AppliedIsNewer`), so the check before a failure mark does not pass
  (`NoMarkAfterApply`).
- *ExhaustedBeforeFailed*: the counter in a record (`StoreCounts`) and in a loaded task
  (`TaskCounts`) is at most the number of failures that happened, through pruning,
  restarts and failed saves; and a mark is only begun for a permanent error or on
  the last retry (`MarkJustified`).
- *BackoffRespected*: as long as the delay after a failure is not over, its record is
  in the store with the same delay, and delay and age together do not exceed
  `PruneAfter` (`WaitKept`); an attempt past its loading has no delay left
  (`DelayOver`). It assumes that no delay exceeds `PruneAfter`, which the code does not
  guarantee (section 6).
- *DaemonClearsTodo*: the document was listed with the todo tag (`ListedTodo`), so that
  a patch at hand always replaces the tags, without that tag, and with the failed
  tag exactly when marking a failure (`PatchSettles`). It assumes that the two tags
  are different.
- *RetryLimit*: the failures of a version are weighed against the retry count at
  hand, in the record or in the task that was loaded (`RecordCounts`,
  `SeriesCounts`). A record of a version that still waits is not old enough to be
  pruned (`RecordsKept`), so that the count is only ever lost to a disturbance: a
  failed request or a user's change, which makes the document another version for
  a while or leaves an attempt's result unsaved. Each disturbance is granted one
  more failure and a new series of retries (`Granted`), no more (`SeriesLimit`). It
  assumes `PromptPolls` and that no delay exceeds `PruneAfter`; without the latter,
  `task_pruned_retries` shows it wrong. One more failure per disturbance would not do:
  a failed save followed by the pruning of the old record begins the count anew.

`CatalogingProofs` proves that `DocumentTask` implements `Cataloging` (*PromiseKept*), if
the two tags are different. It combines the invariants of *NoLostUpdate* and of
*DaemonClearsTodo* with a third: the patch at hand was made of the document as listed
and of some facts, or is the mark of a failure (`PatchMade`). From the first
follows that after a passed check `Base` is the document as listed (`BaseInWindow`), from
the others what a served PATCH makes of it (`ServedStep`). The other steps change
no document, or are a user's (`UnservedStep`, `ChangeStep`).

It also proves that `DocumentTask` implements `Dispatch` (*DispatchServed*): with a patch
that always replaces the tags by a set without the todo tag (*TodoInv* of
*DaemonClearsTodo*), a served PATCH is `Clear`, listing is `Begin`, going idle is
`End`, and all other steps of an attempt stutter.

`WalkProofs` proves type correctness, *NoConcurrentAttempts*,
*OncePerWalk* and *QuietPassComplete* for any documents, page size and number of workers: every busy
worker's document was seen by the walk under way, so was every document attempted,
and no worker is busy between two walks (`WorkersInv`). The same invariant makes `Walk`
an implementation of `Dispatch` (*DispatchKept*): what waits for a worker was not
seen, what is in work was, so that no document is both (`BusyValues`); receiving a
page is `Begin` for those of its documents that were not seen, and handing one to a
worker is no step at all.
*QuietPassComplete* needs that the documents on the pages behind have been seen
(`PassInv`), which is a statement about a listing that moves. A document's place is
counted by the documents before it (`Rank`); as long as nothing loses its tag, places
only ever grow (`RankGrows`): what comes in moves documents to pages still to be
read, never to those behind.

`ResolverProofs` proves for any callers, names, ways to fold them and objects:

- *NoDuplicates*: no two flights of one spelling are under way (`OneFlightPerName`, what
  singleflight is there for), and a flight knows, from the look-up that found nothing to
  its request to create, that no object made by the resolver goes by its name
  (`NothingMadeYet`). New IDs are those of no other object (`IDsInOrder`).
- *StableIdentity*: to the answers are added the objects that flights have found and are
  about to answer (`Answered`). There are no more of them than deletions, and one
  more only if one of them still stands for the name (`Paid`); a look-up that fits
  exactly one object, while one of the answered is standing, finds just that one.
  Renaming an object away counts as a deletion, as in `StableIdentity` itself.
- *TypeOK*, which includes that nothing takes the first of no matches.

`ProgramProofs` proves for any workflows, requests, names and accounts:

- *NoLostWakeup*: a notification no poll has served lies in the channel (`TokenInv`).
- *EnvReadyForPolls*, *NothingRunsAfterReturn*, *CleanExit*, from one invariant: which
  goroutines there are at which stage of `Run` (`StagesInv`), what the environment
  holds by then (`EnvInv`), and that, if nothing failed, an error means a startup that
  failed or a receiver that was cancelled before it started a workflow (`ErrorInv`).
- *StoreDirRemoved*, which is inductive by itself.
- *PermissionsAsNamed*: the accounts found so far were meant by the names looked up so
  far, each of those names has one, and there is one owner from the first look-up on
  (`GrantedInv`); accounts never leave `named`, which is the accounts if none was
  renamed (`NamedInv`); the resolvers are there only when the queue is done
  (`ResolversInv`). That the queue holds the owner first and every configured name
  after it is the lemma `LookupsComplete`.

`ExtractionProofs` proves for any number of plugins and goroutines type correctness and:

- *DirectoriesRemoved*: the version at hand is the only one with a directory, apart from
  those that could not be removed (`DirsInv`).
- *FileOutlivesPlugins*: plugins run only between the download and the cleanup
  (`PluginsInv`), where there is a directory (`DirsInv`).
- *ResultFollowsOutcomes*: what is collected is what the plugins up to that one returned
  (`CollectedInv`); a version's error has a cause (`ErrInv`) and ends it (`TroubleInv`);
  the original is only at hand once the archived version was not fit for use, and the
  archived one's errors are not forgotten (`VersionsInv`).

The assumptions of the theorems are the `ASSUME`s of the modules, which TLC
evaluates, and those stated in the theorems: those of *BackoffRespected*, *RetryLimit*, *DaemonClearsTodo* and the two
implementations that follow from it. No theorem assumes anything of how requests,
users, plugins and signals are ordered.

Only model-checked is liveness, which the prover does not reach:
*TodoEventuallyCleared*, *CallsReturn*, *WalkEnds*, *EveryDocumentAttempted*,
*StartedThenStops*, *KeepsPolling* and *ExtractionEnds*. All other properties of the runs that
pass are proved.

## 5. Not modelled

- Plugin registration: init functions register with a library, one after the other,
  before anything else happens. That plugins are instantiated, or cannot be, is
  `Validate` and `StartupFails` of `Startup`.
- The sketch plugin: an adapter without state that changes. To `Extraction` it is one of
  the plugins, with all three outcomes.
- A kill of the process between the making of the store's directory and its removal,
  and the store that stays open when the removal fails: the code handles neither.
- Renaming of accounts after the startup: the IDs stay as they were found.
- Contents: texts, files, checksums and times are values that differ or do not.
  So the ignored error of closing a download (`internal/document/variantfacts.go:63`)
  is out of sight.
- Logging, metrics, flag parsing, the example, test support.

## 6. Where code and words disagree

1. `task_pruned_retries`, *RetryLimit*. The pruner deletes retry records 24 h after
   their last update (`internal/core/storepruner.go:39`); the back-off
   (`internal/cataloger/workflow.go:128`) exceeds that after enough failures, from
   the seventh on when polling hourly. The counter starts again at zero and the
   document is never marked failed, against "Maximum number of retries for
   processing a document."
2. `patch_changes`, *PatchesOnlyChange*. References are compared as pointers
   (`internal/cataloger/patchbuilder.go:136`), so an unchanged one is sent, against
   "Build returns changed fields."
3. `resolver_joined`, *CreateMeansFound*. GetOrCreateByName joins a GetByName under
   way for the same name and returns its ErrNotFound
   (`internal/objectresolver/resolver.go:71`), where the tests expect an object.
4. `poller_jitter`, *DelayWithinBounds*. Jitter is applied after the bounds
   (`internal/poller/poller.go:55`), against "bounded to [10s..1h]".
5. `program_startup_cancelled`, *CancelStopsServer*. A context cancelled between
   listening and readiness leaves ListenAndServe sending on a channel nobody receives
   from (`internal/httpsrv/server.go:68`), against "The HTTP server is stopped when
   the provided context is canceled."

## 7. Plan

Done: the patch builder, document tasks, what they promise, resolver, walk, poller,
program with its startup, and extraction, each with its runs; the contract between
walk and tasks; the proofs of all safety properties. The order was that of importance:
what the daemon does to documents came first.

What could follow: the type invariants of the observers of `Program` and `Startup`,
whose proofs so far only type what they need; a contract between `Program` and
`Walk`, by which a poll is a walk, as `Dispatch` is one between walk and tasks.
