----------------------------- MODULE Extraction -----------------------------
(***************************************************************************)
(* How the facts of one document are found: updater.getFacts,              *)
(* document.ExtractFacts and ExtractVariantFacts, and facter.Group.Extract. *)
(*                                                                         *)
(* The archived version of the file, if there is one, comes before the     *)
(* original.  A version is downloaded to a temporary directory, where all  *)
(* plugins look at it concurrently; their results are collected in the     *)
(* order of the plugins.  A deadline covers all of it, but nothing is      *)
(* interrupted: whoever gets the context has to notice.                    *)
(***************************************************************************)
EXTENDS Naturals, FiniteSets

CONSTANTS
    PluginCount,    \* number of registered facters
    MaxGoroutines   \* GOMAXPROCS

ASSUME ExtractionNumbers == PluginCount \in Nat /\ MaxGoroutines \in Nat \ {0}

Plugins == 1..PluginCount

\* In the order they are tried.
Variants == {"archived", "original"}

VARIABLES
    phase,      \* what the extraction does next
    variant,    \* the version at hand
    dirs,       \* versions whose temporary directory exists
    plugins,    \* what every plugin does, or found in this version
    collected,  \* how many plugins' callbacks were called
    slice,      \* plugins whose facts were collected
    err,        \* this version failed
    allErr,     \* some version failed
    result,     \* what ExtractFacts returns
    timedOut,   \* the deadline is over
    outcomes,   \* observer: what the plugins found in every version
    trouble,    \* observer: versions a step failed for, plugins aside
    kept        \* observer: directories that could not be removed

vars == <<phase, variant, dirs, plugins, collected, slice, err, allErr, result,
          timedOut, outcomes, trouble, kept>>

Outcome == {"facts", "nothing", "error"}

\* The facts are those one plugin found in one version, if there are any.
Results == [facts : SUBSET (Plugins \X Variants), error : BOOLEAN]

NoResult == [facts |-> {}, error |-> FALSE]

IdlePlugins == [p \in Plugins |-> "idle"]

\* A document with an archived version, or without.
Init ==
    /\ phase = "mkdir"
    /\ variant \in Variants
    /\ dirs = {}
    /\ plugins = IdlePlugins
    /\ collected = 0
    /\ slice = {}
    /\ err = FALSE
    /\ allErr = FALSE
    /\ result = NoResult
    /\ timedOut = FALSE
    /\ outcomes = [v \in Variants |-> IdlePlugins]
    /\ trouble = {}
    /\ kept = {}

pluginVars == <<plugins, collected, slice, outcomes>>
resultVars == <<allErr, result>>

-----------------------------------------------------------------------------
(* ExtractVariantFacts.                                                    *)

CreateTempdir ==
    /\ phase = "mkdir"
    /\ dirs' = dirs \cup {variant}
    /\ phase' = "download"
    /\ UNCHANGED <<variant, pluginVars, err, resultVars, timedOut, trouble, kept>>

\* There is nothing to clean up then.
CreateTempdirFails ==
    /\ phase = "mkdir"
    /\ err' = TRUE
    /\ trouble' = trouble \cup {variant}
    /\ phase' = "next"
    /\ UNCHANGED <<variant, dirs, pluginVars, resultVars, timedOut, kept>>

\* The client heeds the deadline.
Download ==
    /\ phase = "download"
    /\ ~timedOut
    /\ phase' = "validate"
    /\ UNCHANGED <<variant, dirs, pluginVars, err, resultVars, timedOut, trouble, kept>>

\* MakeFileFactsExtractor: the file is a document.
Validate ==
    /\ phase = "validate"
    /\ phase' = "plugins"
    /\ UNCHANGED <<variant, dirs, pluginVars, err, resultVars, timedOut, trouble, kept>>

\* The download or the validation fails, for one because time is up.
FileFails ==
    /\ phase \in {"download", "validate"}
    /\ err' = TRUE
    /\ trouble' = trouble \cup {variant}
    /\ phase' = "cleanup"
    /\ UNCHANGED <<variant, dirs, pluginVars, resultVars, timedOut, kept>>

-----------------------------------------------------------------------------
(* Group.Extract.                                                          *)

Running == {p \in Plugins : plugins[p] = "running"}

\* s.Go, which waits for a free goroutine; plugins are started in order.
StartPlugin(p) ==
    /\ phase = "plugins"
    /\ plugins[p] = "idle"
    /\ \A q \in Plugins : q < p => plugins[q] # "idle"
    /\ Cardinality(Running) < MaxGoroutines
    /\ plugins' = [plugins EXCEPT ![p] = "running"]
    /\ UNCHANGED <<phase, variant, dirs, collected, slice, err, resultVars,
                   timedOut, outcomes, trouble, kept>>

\* DocumentFacts returns.
PluginReturns(p, outcome) ==
    /\ plugins[p] = "running"
    /\ plugins' = [plugins EXCEPT ![p] = outcome]
    /\ outcomes' = [outcomes EXCEPT ![variant][p] = outcome]
    /\ UNCHANGED <<phase, variant, dirs, collected, slice, err, resultVars,
                   timedOut, trouble, kept>>

\* A plausible bug: a plugin that fails has no callback.
CanCollectUnlessFailed(p) == plugins[p] \in Outcome \ {"error"}
CanCollect(p) == plugins[p] \in Outcome

\* The stream calls the callbacks in the order of the plugins.
Callback(p) ==
    /\ phase = "plugins"
    /\ p = collected + 1
    /\ CanCollect(p)
    /\ collected' = p
    /\ slice' = IF plugins[p] = "facts" THEN slice \cup {p} ELSE slice
    /\ err' = (err \/ plugins[p] = "error")
    /\ UNCHANGED <<phase, variant, dirs, plugins, resultVars, timedOut, outcomes,
                   trouble, kept>>

\* A plausible bug: the callbacks are not waited for once time is up.
PluginsDoneOrLate == timedOut \/ collected = PluginCount
PluginsDone == collected = PluginCount

\* s.Wait, and FactsSlice.Best: one candidate at most.
PluginsEnd ==
    /\ phase = "plugins"
    /\ PluginsDone
    /\ err' = (err \/ Cardinality(slice) > 1)
    /\ phase' = "cleanup"
    /\ UNCHANGED <<variant, dirs, pluginVars, resultVars, timedOut, trouble, kept>>

-----------------------------------------------------------------------------
(* The deferred cleanup, and ExtractFacts' loop.                           *)

\* A plausible bug: the directory is only removed after a success.
DirsAfterSuccessOnly == IF err THEN dirs ELSE dirs \ {variant}
DirsAfterCleanup == dirs \ {variant}

Cleanup ==
    /\ phase = "cleanup"
    /\ dirs' = DirsAfterCleanup
    /\ phase' = "next"
    /\ UNCHANGED <<variant, pluginVars, err, resultVars, timedOut, trouble, kept>>

\* The error joins the others: the facts are not used.
CleanupFails ==
    /\ phase = "cleanup"
    /\ err' = TRUE
    /\ trouble' = trouble \cup {variant}
    /\ kept' = kept \cup {variant}
    /\ phase' = "next"
    /\ UNCHANGED <<variant, dirs, pluginVars, resultVars, timedOut>>

\* Facts end the loop.
UseFacts ==
    /\ phase = "next"
    /\ ~err /\ slice # {}
    /\ result' = [facts |-> slice \X {variant}, error |-> FALSE]
    /\ phase' = "done"
    /\ UNCHANGED <<variant, dirs, pluginVars, err, allErr, timedOut, trouble, kept>>

\* A failure, or no facts: on to the next version.
NextVariant ==
    /\ phase = "next"
    /\ err \/ slice = {}
    /\ variant = "archived"
    /\ variant' = "original"
    /\ allErr' = (allErr \/ err)
    /\ err' = FALSE
    /\ plugins' = IdlePlugins
    /\ collected' = 0
    /\ slice' = {}
    /\ phase' = "mkdir"
    /\ UNCHANGED <<dirs, result, timedOut, outcomes, trouble, kept>>

\* A plausible bug: only the last version's failure is returned.
FinalErrorOfLast == err
FinalError == allErr \/ err

\* The last version had no facts, either.
GiveUp ==
    /\ phase = "next"
    /\ err \/ slice = {}
    /\ variant = "original"
    /\ result' = [facts |-> {}, error |-> FinalError]
    /\ phase' = "done"
    /\ UNCHANGED <<variant, dirs, pluginVars, err, allErr, timedOut, trouble, kept>>

\* context.WithTimeout
Timeout ==
    /\ ~timedOut /\ phase # "done"
    /\ timedOut' = TRUE
    /\ UNCHANGED <<phase, variant, dirs, pluginVars, err, resultVars, trouble, kept>>

-----------------------------------------------------------------------------
Step ==
    \/ CreateTempdir \/ CreateTempdirFails \/ Download \/ Validate \/ FileFails
    \/ \E p \in Plugins : StartPlugin(p) \/ Callback(p)
    \/ PluginsEnd \/ Cleanup \/ CleanupFails \/ UseFacts \/ NextVariant \/ GiveUp

PluginStep(p) == \E outcome \in Outcome : PluginReturns(p, outcome)

Next == Step \/ (\E p \in Plugins : PluginStep(p)) \/ Timeout

Spec == Init /\ [][Next]_vars

\* Every step is taken in the end, and every plugin returns, if only because
\* it notices that its context is done.
FairSpec == Spec /\ WF_vars(Step) /\ \A p \in Plugins : WF_vars(PluginStep(p))

-----------------------------------------------------------------------------
(* Properties.                                                             *)

\* Every variable has its type.
TypeOK ==
    /\ phase \in {"mkdir", "download", "validate", "plugins", "cleanup", "next", "done"}
    /\ variant \in Variants
    /\ dirs \subseteq Variants
    /\ plugins \in [Plugins -> Outcome \cup {"idle", "running"}]
    /\ collected \in 0..PluginCount
    /\ slice \subseteq Plugins
    /\ err \in BOOLEAN /\ allErr \in BOOLEAN /\ timedOut \in BOOLEAN
    /\ result \in Results
    /\ outcomes \in [Variants -> [Plugins -> Outcome \cup {"idle"}]]
    /\ trouble \subseteq Variants /\ kept \subseteq Variants

\* A plugin never works on a file that is gone: the directory outlives all the
\* plugins looking at it, also when time is up or another plugin failed
\* (Group.Extract, ExtractVariantFacts).
FileOutlivesPlugins == Running # {} => variant \in dirs

\* When the extraction is over no temporary directory is left, whichever step
\* failed, but for those that cannot be removed (ExtractVariantFacts).
DirectoriesRemoved == phase = "done" => dirs \subseteq kept

\* A version is fit for use when nothing failed for it and exactly one plugin
\* found facts.
Fit(v) ==
    /\ v \notin trouble
    /\ "error" \notin {outcomes[v][p] : p \in Plugins}
    /\ Cardinality({p \in Plugins : outcomes[v][p] = "facts"}) = 1

\* Nothing failed for a version and no plugin found facts in it.
Empty(v) == v \notin trouble /\ \A p \in Plugins : outcomes[v][p] \in {"idle", "nothing"}

\* In whatever order the plugins return, the facts used are those of the one
\* plugin that found any in the first version fit for use; and a document is
\* only taken to have no facts if no version failed and no plugin disagreed with
\* another, since that would clear its todo tag (Extract, Best, ExtractFacts).
ResultFollowsOutcomes ==
    phase = "done" =>
        /\ \A p \in Plugins, v \in Variants : <<p, v>> \in result.facts =>
              /\ Fit(v) /\ outcomes[v][p] = "facts"
              /\ v = "original" => ~Fit("archived")
        /\ result.facts = {} =>
              /\ \A v \in Variants : ~Fit(v)
              /\ result.error = (\E v \in Variants : ~Empty(v))

\* The extraction ends if the plugins return.
ExtractionEnds == <>(phase = "done")
=============================================================================
