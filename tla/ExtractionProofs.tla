-------------------------- MODULE ExtractionProofs --------------------------
(***************************************************************************)
(* Proofs about Extraction, for any number of plugins and goroutines.      *)
(***************************************************************************)
EXTENDS Extraction, FiniteSetTheorems, TLAPS

-----------------------------------------------------------------------------
(* The inductive invariant.                                                *)

\* The steps that have a temporary directory, and those before the plugins.
WithDir == {"download", "validate", "plugins", "cleanup"}
Before  == {"mkdir", "download", "validate"}
After   == {"cleanup", "next", "done"}

\* The version at hand has a directory as long as it is needed; all others are
\* gone or could not be removed.
DirsInv ==
    /\ phase \in WithDir => variant \in dirs
    /\ dirs \subseteq kept \cup (IF phase \in WithDir THEN {variant} ELSE {})

\* Plugins run between the download and the cleanup only; their callbacks are
\* called for what they have returned, and for all of it in the end.
PluginsInv ==
    /\ phase \in Before => plugins = IdlePlugins /\ collected = 0
    /\ \A p \in Plugins : p <= collected => plugins[p] \in Outcome
    /\ phase \in After => \A p \in Plugins : p > collected => plugins[p] = "idle"

\* What was collected, and what the observer has seen, is what the plugins
\* returned.
CollectedInv ==
    /\ slice = {p \in Plugins : p <= collected /\ plugins[p] = "facts"}
    /\ \A p \in Plugins :
          outcomes[variant][p] = IF plugins[p] \in Outcome THEN plugins[p] ELSE "idle"

\* A version fails for a step's trouble or a plugin's error and, once all its
\* facts are known, for a conflict.
ErrInv ==
    err <=> \/ variant \in trouble
            \/ \E p \in Plugins : p <= collected /\ plugins[p] = "error"
            \/ phase \in After /\ Cardinality(slice) > 1

\* Trouble ends a version.
TroubleInv == phase \notin After => variant \notin trouble

\* The archived version was not fit for use if the original is at hand, and its
\* failure is not forgotten; the original is untouched before.
VersionsInv ==
    /\ variant = "archived" =>
          /\ ~allErr
          /\ "original" \notin trouble /\ outcomes["original"] = IdlePlugins
    /\ variant = "original" =>
          /\ ~Fit("archived")
          /\ allErr <=> ~Empty("archived")

\* The result is that of the last version tried.
DoneInv ==
    phase = "done" =>
        \/ ~err /\ slice # {} /\ result = [facts |-> slice \X {variant}, error |-> FALSE]
        \/ /\ err \/ slice = {}
           /\ variant = "original"
           /\ result = [facts |-> {}, error |-> allErr \/ err]

FactsInv == PluginsInv /\ CollectedInv /\ ErrInv /\ TroubleInv /\ VersionsInv /\ DoneInv

-----------------------------------------------------------------------------
(* Types.                                                                  *)

\* Before they are started all plugins are idle.
LEMMA IdleType == IdlePlugins \in [Plugins -> {"idle"}]
  BY DEF IdlePlugins

\* Nothing is extracted at the beginning, so that all variables have their types.
LEMMA InitType == Init => TypeOK
<1> SUFFICES ASSUME Init
             PROVE  TypeOK
  OBVIOUS
<1>1. 0 \in 0..PluginCount
  BY ExtractionNumbers
<1>2. NoResult \in Results
  BY DEF NoResult, Results
<1>3. outcomes \in [Variants -> [Plugins -> Outcome \cup {"idle"}]]
  BY IdleType DEF Init
<1>4. QED
  BY <1>1, <1>2, <1>3, IdleType DEF Init, TypeOK, Variants

\* Every step keeps the types.
LEMMA NextType == TypeOK /\ [Next]_vars => TypeOK'
<1> SUFFICES ASSUME TypeOK, [Next]_vars
             PROVE  TypeOK'
  OBVIOUS
<1>1. CASE CreateTempdir \/ CreateTempdirFails \/ Download \/ Validate \/ FileFails
  BY <1>1 DEF CreateTempdir, CreateTempdirFails, Download, Validate, FileFails, TypeOK,
              pluginVars, resultVars
<1>2. ASSUME NEW p \in Plugins, StartPlugin(p)
      PROVE  TypeOK'
  BY <1>2 DEF StartPlugin, TypeOK, resultVars
<1>3. ASSUME NEW p \in Plugins, Callback(p)
      PROVE  TypeOK'
  <2>1. p \in 0..PluginCount
    BY ExtractionNumbers DEF Plugins
  <2>2. QED
    BY <1>3, <2>1 DEF Callback, TypeOK, resultVars
<1>4. CASE PluginsEnd \/ Cleanup \/ CleanupFails
  <2>1. CASE PluginsEnd
    <3>1. err' \in BOOLEAN
      BY <2>1 DEF PluginsEnd, TypeOK
    <3>2. QED
      BY <2>1, <3>1 DEF PluginsEnd, TypeOK, pluginVars, resultVars
  <2>2. CASE Cleanup
    BY <2>2 DEF Cleanup, DirsAfterCleanup, TypeOK, pluginVars, resultVars
  <2>3. CASE CleanupFails
    BY <2>3 DEF CleanupFails, TypeOK, pluginVars, resultVars
  <2>4. QED
    BY <1>4, <2>1, <2>2, <2>3
<1>5. CASE UseFacts
  <2>1. result' \in Results
    BY <1>5 DEF UseFacts, TypeOK, Results
  <2>2. QED
    BY <1>5, <2>1 DEF UseFacts, TypeOK, pluginVars
<1>6. CASE NextVariant
  <2>1. 0 \in 0..PluginCount
    BY ExtractionNumbers
  <2>2. allErr' \in BOOLEAN
    BY <1>6 DEF NextVariant, TypeOK
  <2>3. plugins' \in [Plugins -> Outcome \cup {"idle", "running"}]
    BY <1>6, IdleType DEF NextVariant
  <2>4. QED
    BY <1>6, <2>1, <2>2, <2>3 DEF NextVariant, TypeOK, Variants
<1>7. CASE GiveUp
  <2>1. result' \in Results
    BY <1>7 DEF GiveUp, FinalError, TypeOK, Results
  <2>2. QED
    BY <1>7, <2>1 DEF GiveUp, TypeOK, pluginVars
<1>8. ASSUME NEW p \in Plugins, PluginStep(p)
      PROVE  TypeOK'
  <2>1. PICK outcome \in Outcome : PluginReturns(p, outcome)
    BY <1>8 DEF PluginStep
  <2>2. plugins' = [plugins EXCEPT ![p] = outcome]
    BY <2>1 DEF PluginReturns
  <2>3. outcomes' = [outcomes EXCEPT ![variant] = [outcomes[variant] EXCEPT ![p] = outcome]]
    BY <2>1 DEF PluginReturns
  <2>4. [outcomes[variant] EXCEPT ![p] = outcome] \in [Plugins -> Outcome \cup {"idle"}]
    BY DEF TypeOK
  <2>5. outcomes' \in [Variants -> [Plugins -> Outcome \cup {"idle"}]]
    BY <2>3, <2>4 DEF TypeOK
  <2>6. QED
    BY <2>1, <2>2, <2>5 DEF PluginReturns, TypeOK, resultVars
<1>9. CASE Timeout \/ UNCHANGED vars
  BY <1>9 DEF Timeout, vars, TypeOK, pluginVars, resultVars
<1>10. QED
  BY <1>1, <1>2, <1>3, <1>4, <1>5, <1>6, <1>7, <1>8, <1>9 DEF Next, Step

\* The extraction's variables have their types in every state.
THEOREM ExtractionTypes == Spec => []TypeOK
  BY InitType, NextType, PTL DEF Spec

-----------------------------------------------------------------------------
(* Temporary directories.                                                  *)

\* No temporary directory is there at the beginning.
LEMMA InitDirs == Init => DirsInv
  BY DEF Init, DirsInv, WithDir

\* Every step keeps the directory of the version at hand as long as it must.
LEMMA NextDirs == DirsInv /\ [Next]_vars => DirsInv'
<1> SUFFICES ASSUME DirsInv, [Next]_vars
             PROVE  DirsInv'
  OBVIOUS
<1>1. CASE CreateTempdir \/ CreateTempdirFails \/ Download \/ Validate \/ FileFails
  BY <1>1 DEF CreateTempdir, CreateTempdirFails, Download, Validate, FileFails, DirsInv, WithDir
<1>2. CASE PluginsEnd \/ Cleanup \/ CleanupFails
  BY <1>2 DEF PluginsEnd, Cleanup, DirsAfterCleanup, CleanupFails, DirsInv, WithDir
<1>3. CASE UseFacts \/ NextVariant \/ GiveUp
  BY <1>3 DEF UseFacts, NextVariant, GiveUp, DirsInv, WithDir
<1>4. ASSUME UNCHANGED <<phase, variant, dirs, kept>>
      PROVE  DirsInv'
  BY <1>4 DEF DirsInv
<1>5. QED
  BY <1>1, <1>2, <1>3, <1>4
     DEF Next, Step, StartPlugin, Callback, PluginStep, PluginReturns, Timeout, vars

\* However an extraction ends, no temporary directory is left but those that
\* could not be removed.
THEOREM TempDirsRemoved == Spec => []DirectoriesRemoved
<1>1. DirsInv => DirectoriesRemoved
  BY DEF DirsInv, DirectoriesRemoved, WithDir
<1>2. QED
  BY <1>1, InitDirs, NextDirs, PTL DEF Spec

-----------------------------------------------------------------------------
(* Plugins and their callbacks.                                            *)

\* No plugin runs at the beginning.
LEMMA InitPlugins == Init => PluginsInv
<1> SUFFICES ASSUME Init
             PROVE  PluginsInv
  OBVIOUS
<1>1. \A p \in Plugins : ~(p <= collected)
  BY ExtractionNumbers DEF Init, Plugins
<1>2. QED
  BY <1>1 DEF Init, PluginsInv, After

\* A plugin that runs has not been collected, and the file is there.
LEMMA RunsInPlugins ==
    ASSUME TypeOK, PluginsInv, NEW p \in Plugins, plugins[p] = "running"
    PROVE  phase = "plugins" /\ ~(p <= collected)
<1>1. phase \notin Before
  BY DEF PluginsInv, IdlePlugins
<1>2. ~(p <= collected)
  BY DEF PluginsInv, Outcome
<1>3. phase \notin After
  <2>1. p > collected
    BY <1>2, ExtractionNumbers DEF TypeOK, Plugins
  <2>2. QED
    BY <2>1 DEF PluginsInv
<1>4. QED
  BY <1>1, <1>2, <1>3 DEF TypeOK, Before, After

\* Plugins are compared by their place in the group.
LEMMA PluginNumbers ==
    ASSUME TypeOK
    PROVE  collected \in Nat /\ \A p \in Plugins : p \in Nat /\ 1 <= p /\ p <= PluginCount
  BY ExtractionNumbers DEF TypeOK, Plugins

\* Every step keeps what is known of the plugins.
LEMMA NextPlugins == TypeOK /\ PluginsInv /\ [Next]_vars => PluginsInv'
<1> SUFFICES ASSUME TypeOK, PluginsInv, [Next]_vars
             PROVE  PluginsInv'
  OBVIOUS
<1>1. CASE CreateTempdir \/ Download \/ Validate \/ Cleanup \/ CleanupFails \/ UseFacts \/ GiveUp
  BY <1>1 DEF CreateTempdir, Download, Validate, Cleanup, CleanupFails, UseFacts, GiveUp,
              PluginsInv, Before, After, pluginVars
<1>2. CASE CreateTempdirFails \/ FileFails
  <2>1. plugins' = IdlePlugins /\ collected' = 0 /\ phase' \in After
    BY <1>2 DEF CreateTempdirFails, FileFails, PluginsInv, Before, After, pluginVars
  <2>2. \A p \in Plugins : ~(p <= 0)
    BY PluginNumbers
  <2>3. QED
    BY <2>1, <2>2 DEF PluginsInv, Before, After, IdlePlugins
<1>3. ASSUME NEW p \in Plugins, StartPlugin(p)
      PROVE  PluginsInv'
  <2>1. ~(p <= collected)
    BY <1>3 DEF StartPlugin, PluginsInv, Outcome
  <2>2. \A q \in Plugins \ {p} : plugins'[q] = plugins[q]
    BY <1>3 DEF StartPlugin, TypeOK
  <2>3. QED
    BY <1>3, <2>1, <2>2 DEF StartPlugin, PluginsInv, Before, After
<1>4. ASSUME NEW p \in Plugins, Callback(p)
      PROVE  PluginsInv'
  <2>1. \A q \in Plugins : q <= collected' => q <= collected \/ q = p
    BY <1>4, PluginNumbers DEF Callback
  <2>2. QED
    BY <1>4, <2>1 DEF Callback, CanCollect, PluginsInv, Before, After
<1>5. CASE PluginsEnd
  <2>1. \A p \in Plugins : ~(p > collected)
    BY <1>5, PluginNumbers DEF PluginsEnd, PluginsDone
  <2>2. QED
    BY <1>5, <2>1 DEF PluginsEnd, PluginsInv, Before, After, pluginVars
<1>6. CASE NextVariant
  <2>1. \A p \in Plugins : ~(p <= 0)
    BY PluginNumbers
  <2>2. QED
    BY <1>6, <2>1 DEF NextVariant, PluginsInv, Before, After
<1>7. ASSUME NEW p \in Plugins, NEW outcome \in Outcome, PluginReturns(p, outcome)
      PROVE  PluginsInv'
  <2>1. phase = "plugins" /\ ~(p <= collected)
    BY <1>7, RunsInPlugins DEF PluginReturns
  <2>2. \A q \in Plugins \ {p} : plugins'[q] = plugins[q]
    BY <1>7 DEF PluginReturns, TypeOK
  <2>3. QED
    BY <1>7, <2>1, <2>2 DEF PluginReturns, PluginsInv, Before, After
<1>8. CASE Timeout \/ UNCHANGED vars
  BY <1>8 DEF Timeout, vars, PluginsInv, pluginVars
<1>9. QED
  BY <1>1, <1>2, <1>3, <1>4, <1>5, <1>6, <1>7, <1>8 DEF Next, Step, PluginStep

\* The file a plugin looks at is there until the plugin returns.
THEOREM FilesOutlivePlugins == Spec => []FileOutlivesPlugins
<1>1. TypeOK /\ PluginsInv /\ DirsInv => FileOutlivesPlugins
  BY RunsInPlugins DEF FileOutlivesPlugins, Running, DirsInv, WithDir
<1>2. Init => TypeOK /\ PluginsInv /\ DirsInv
  BY InitType, InitPlugins, InitDirs
<1>3. TypeOK /\ PluginsInv /\ DirsInv /\ [Next]_vars => (TypeOK /\ PluginsInv /\ DirsInv)'
  BY NextType, NextPlugins, NextDirs
<1>4. QED
  BY <1>1, <1>2, <1>3, PTL DEF Spec

-----------------------------------------------------------------------------
(* The result.                                                             *)

\* Sets of plugins can be counted.
LEMMA CountPlugins ==
    ASSUME NEW S \in SUBSET Plugins
    PROVE  /\ Cardinality(S) \in Nat
           /\ Cardinality(S) = 0 <=> S = {}
<1>1. IsFiniteSet(Plugins)
  BY FS_Interval, ExtractionNumbers DEF Plugins
<1>2. IsFiniteSet(S)
  BY <1>1, FS_Subset
<1>3. QED
  BY <1>2, FS_CardinalityType, FS_EmptySet

\* What a version's outcomes say of it, once it is through, is what ExtractFacts
\* goes by: whether there was an error and whether there are facts.
LEMMA Verdict ==
    ASSUME TypeOK, PluginsInv, CollectedInv, ErrInv, phase \in After
    PROVE  /\ Fit(variant) <=> ~err /\ slice # {}
           /\ err \/ slice = {} => (err <=> ~Empty(variant))
<1>1. \A p \in Plugins : p <= collected \/ plugins[p] = "idle"
  BY PluginNumbers DEF PluginsInv
<1>2. \A p \in Plugins : outcomes[variant][p] = plugins[p]
  BY <1>1 DEF PluginsInv, CollectedInv
<1>3. {p \in Plugins : outcomes[variant][p] = "facts"} = slice
  BY <1>1, <1>2 DEF CollectedInv
<1>4. (\E p \in Plugins : p <= collected /\ plugins[p] = "error")
         <=> "error" \in {outcomes[variant][p] : p \in Plugins}
  BY <1>1, <1>2
<1>5. Cardinality(slice) \in Nat /\ (Cardinality(slice) = 0 <=> slice = {})
  BY CountPlugins DEF TypeOK
<1>6. err <=> \/ variant \in trouble
              \/ "error" \in {outcomes[variant][p] : p \in Plugins}
              \/ Cardinality(slice) > 1
  BY <1>4 DEF ErrInv
<1>7. Fit(variant) <=> ~err /\ slice # {}
  BY <1>3, <1>5, <1>6 DEF Fit
<1>8. \A p \in Plugins : outcomes[variant][p] \in Outcome \cup {"idle"}
  BY DEF TypeOK
<1>9. Empty(variant) <=> /\ variant \notin trouble
                         /\ "error" \notin {outcomes[variant][p] : p \in Plugins}
                         /\ slice = {}
  BY <1>3, <1>8 DEF Empty, Outcome
<1>10. slice = {} => ~(Cardinality(slice) > 1)
  BY <1>5
<1>11. QED
  BY <1>5, <1>6, <1>7, <1>9, <1>10

\* What is known of the archived version does not change while the original is
\* at hand.
LEMMA ArchivedStays ==
    ASSUME VersionsInv, variant' = variant, allErr' = allErr,
           trouble' \ {variant} = trouble \ {variant},
           \A v \in Variants \ {variant} : outcomes'[v] = outcomes[v]
    PROVE  VersionsInv'
<1>1. CASE variant = "archived"
  <2>1. "original" \in trouble' <=> "original" \in trouble
    BY <1>1
  <2>2. outcomes'["original"] = outcomes["original"]
    BY <1>1 DEF Variants
  <2>3. QED
    BY <1>1, <2>1, <2>2 DEF VersionsInv
<1>2. CASE variant = "original"
  <2>1. "archived" \in trouble' <=> "archived" \in trouble
    BY <1>2
  <2>2. outcomes'["archived"] = outcomes["archived"]
    BY <1>2 DEF Variants
  <2>3. (Fit("archived")' <=> Fit("archived")) /\ (Empty("archived")' <=> Empty("archived"))
    BY <2>1, <2>2 DEF Fit, Empty
  <2>4. QED
    BY <1>2, <2>3 DEF VersionsInv
<1>3. CASE variant \notin {"archived", "original"}
  BY <1>3 DEF VersionsInv
<1>4. QED
  BY <1>1, <1>2, <1>3

\* Nothing is collected, no error is noted at the beginning.
LEMMA InitFacts == Init => FactsInv
<1> SUFFICES ASSUME Init
             PROVE  FactsInv
  OBVIOUS
<1>1. \A p \in Plugins : ~(p <= collected)
  BY ExtractionNumbers DEF Init, Plugins
<1>2. CollectedInv
  BY <1>1 DEF Init, CollectedInv, IdlePlugins, Outcome
<1>3. ErrInv /\ TroubleInv /\ DoneInv
  BY <1>1 DEF Init, ErrInv, TroubleInv, DoneInv, After
<1>4. ~Fit("archived") /\ Empty("archived")
  <2>1. \A p \in Plugins : outcomes["archived"][p] = "idle"
    BY DEF Init, IdlePlugins, Variants
  <2>2. {p \in Plugins : outcomes["archived"][p] = "facts"} = {}
    BY <2>1
  <2>3. QED
    BY <2>1, <2>2, FS_EmptySet DEF Init, Fit, Empty
<1>5. VersionsInv
  BY <1>4 DEF Init, VersionsInv, Variants
<1>6. QED
  BY <1>2, <1>3, <1>5, InitPlugins DEF FactsInv

\* Every step keeps what is known of the facts.
LEMMA NextFacts == TypeOK /\ FactsInv /\ [Next]_vars => FactsInv'
<1> SUFFICES ASSUME TypeOK, FactsInv, [Next]_vars
             PROVE  CollectedInv' /\ ErrInv' /\ TroubleInv' /\ VersionsInv' /\ DoneInv'
  BY NextPlugins DEF FactsInv
<1>t. PluginsInv /\ CollectedInv /\ ErrInv /\ TroubleInv /\ VersionsInv /\ DoneInv
  BY DEF FactsInv
<1>1. CASE CreateTempdir \/ Download \/ Validate \/ Cleanup
  <2>1. /\ UNCHANGED <<variant, pluginVars, err, resultVars, trouble>>
        /\ phase \notin {"done"} /\ phase' # "done" /\ (phase \in After <=> phase' \in After)
    BY <1>1 DEF CreateTempdir, Download, Validate, Cleanup, After
  <2>2. VersionsInv'
    BY <1>t, <2>1, ArchivedStays DEF pluginVars, resultVars
  <2>3. CollectedInv' /\ ErrInv' /\ TroubleInv' /\ DoneInv'
    BY <1>t, <2>1 DEF CollectedInv, ErrInv, TroubleInv, DoneInv, pluginVars, resultVars
  <2>4. QED
    BY <2>2, <2>3
<1>2. CASE CreateTempdirFails \/ FileFails \/ CleanupFails
  <2>1. /\ UNCHANGED <<variant, pluginVars, resultVars>>
        /\ phase' \in After \ {"done"} /\ err' = TRUE /\ trouble' = trouble \cup {variant}
    BY <1>2 DEF CreateTempdirFails, FileFails, CleanupFails, After
  <2>2. VersionsInv'
    BY <1>t, <2>1, ArchivedStays DEF pluginVars, resultVars
  <2>3. CollectedInv' /\ ErrInv' /\ TroubleInv' /\ DoneInv'
    BY <1>t, <2>1 DEF CollectedInv, ErrInv, TroubleInv, DoneInv, pluginVars, resultVars
  <2>4. QED
    BY <2>2, <2>3
<1>3. ASSUME NEW p \in Plugins, StartPlugin(p)
      PROVE  CollectedInv' /\ ErrInv' /\ TroubleInv' /\ VersionsInv' /\ DoneInv'
  <2>1. /\ UNCHANGED <<phase, variant, collected, slice, err, resultVars, outcomes, trouble>>
        /\ phase = "plugins"
    BY <1>3 DEF StartPlugin
  <2>2. \A q \in Plugins : \/ plugins'[q] = plugins[q]
                           \/ plugins[q] = "idle" /\ plugins'[q] = "running"
    <3>1. plugins[p] = "idle" /\ plugins' = [plugins EXCEPT ![p] = "running"]
      BY <1>3 DEF StartPlugin
    <3>2. plugins \in [Plugins -> Outcome \cup {"idle", "running"}]
      BY DEF TypeOK
    <3>3. plugins'[p] = "running" /\ \A q \in Plugins \ {p} : plugins'[q] = plugins[q]
      BY <3>1, <3>2
    <3>4. QED
      BY <3>1, <3>3
  <2>3. CollectedInv'
    BY <1>t, <2>1, <2>2 DEF CollectedInv, Outcome
  <2>4. ErrInv' /\ TroubleInv' /\ DoneInv'
    BY <1>t, <2>1, <2>2 DEF ErrInv, TroubleInv, DoneInv
  <2>5. VersionsInv'
    BY <1>t, <2>1, ArchivedStays DEF resultVars
  <2>6. QED
    BY <2>3, <2>4, <2>5
<1>4. ASSUME NEW p \in Plugins, NEW outcome \in Outcome, PluginReturns(p, outcome)
      PROVE  CollectedInv' /\ ErrInv' /\ TroubleInv' /\ VersionsInv' /\ DoneInv'
  <2>1. phase = "plugins" /\ ~(p <= collected)
    BY <1>4, <1>t, RunsInPlugins DEF PluginReturns
  <2>2. UNCHANGED <<phase, variant, collected, slice, err, resultVars, trouble>>
    BY <1>4 DEF PluginReturns
  <2>3. /\ plugins'[p] = outcome
        /\ \A q \in Plugins \ {p} : plugins'[q] = plugins[q]
    BY <1>4 DEF PluginReturns, TypeOK
  <2>4. outcomes' = [outcomes EXCEPT ![variant] = [outcomes[variant] EXCEPT ![p] = outcome]]
    BY <1>4 DEF PluginReturns
  <2>5. /\ \A v \in Variants \ {variant} : outcomes'[v] = outcomes[v]
        /\ outcomes'[variant] = [outcomes[variant] EXCEPT ![p] = outcome]
    BY <2>4 DEF TypeOK
  <2>6. /\ outcomes'[variant][p] = outcome
        /\ \A q \in Plugins \ {p} : outcomes'[variant][q] = outcomes[variant][q]
    BY <2>5 DEF TypeOK
  <2>7. CollectedInv'
    BY <1>t, <2>1, <2>2, <2>3, <2>6 DEF CollectedInv
  <2>8. ErrInv' /\ TroubleInv' /\ DoneInv'
    BY <1>t, <2>1, <2>2, <2>3 DEF ErrInv, TroubleInv, DoneInv
  <2>9. VersionsInv'
    BY <1>t, <2>2, <2>5, ArchivedStays DEF resultVars
  <2>10. QED
    BY <2>7, <2>8, <2>9
<1>5. ASSUME NEW p \in Plugins, Callback(p)
      PROVE  CollectedInv' /\ ErrInv' /\ TroubleInv' /\ VersionsInv' /\ DoneInv'
  <2>1. UNCHANGED <<phase, variant, plugins, resultVars, outcomes, trouble>>
    BY <1>5 DEF Callback
  <2>2. phase = "plugins" /\ err' = (err \/ plugins[p] = "error")
    BY <1>5 DEF Callback
  <2>3. \A q \in Plugins : q <= collected' <=> q <= collected \/ q = p
    BY <1>5, PluginNumbers DEF Callback
  <2>4. slice' = IF plugins[p] = "facts" THEN slice \cup {p} ELSE slice
    BY <1>5 DEF Callback
  <2>5. CollectedInv'
    BY <1>t, <2>1, <2>3, <2>4 DEF CollectedInv
  <2>6. ErrInv' /\ TroubleInv' /\ DoneInv'
    BY <1>t, <2>1, <2>2, <2>3 DEF ErrInv, TroubleInv, DoneInv, After
  <2>7. VersionsInv'
    BY <1>t, <2>1, ArchivedStays DEF resultVars
  <2>8. QED
    BY <2>5, <2>6, <2>7
<1>6. CASE PluginsEnd
  <2>1. /\ UNCHANGED <<variant, pluginVars, resultVars, trouble>>
        /\ phase = "plugins" /\ phase' = "cleanup"
        /\ err' <=> (err \/ Cardinality(slice) > 1)
    BY <1>6 DEF PluginsEnd
  <2>2. VersionsInv'
    BY <1>t, <2>1, ArchivedStays DEF pluginVars, resultVars
  <2>3. CollectedInv' /\ ErrInv' /\ TroubleInv' /\ DoneInv'
    BY <1>t, <2>1 DEF CollectedInv, ErrInv, TroubleInv, DoneInv, After, pluginVars
  <2>4. QED
    BY <2>2, <2>3
<1>7. CASE UseFacts \/ GiveUp
  <2>1. /\ UNCHANGED <<variant, pluginVars, err, allErr, trouble>>
        /\ phase = "next" /\ phase' = "done"
    BY <1>7 DEF UseFacts, GiveUp
  <2>2. VersionsInv'
    BY <1>t, <2>1, ArchivedStays DEF pluginVars
  <2>3. CollectedInv' /\ ErrInv' /\ TroubleInv'
    BY <1>t, <2>1 DEF CollectedInv, ErrInv, TroubleInv, After, pluginVars
  <2>4. DoneInv'
    BY <1>7, <2>1 DEF UseFacts, GiveUp, FinalError, DoneInv, pluginVars
  <2>5. QED
    BY <2>2, <2>3, <2>4
<1>8. CASE NextVariant
  <2>1. /\ phase = "next" /\ (err \/ slice = {})
        /\ variant = "archived" /\ variant' = "original" /\ allErr' = (allErr \/ err)
        /\ ~err' /\ plugins' = IdlePlugins /\ collected' = 0 /\ slice' = {}
        /\ phase' = "mkdir" /\ outcomes' = outcomes /\ trouble' = trouble
    BY <1>8 DEF NextVariant
  <2>2. "original" \notin trouble /\ outcomes["original"] = IdlePlugins /\ ~allErr
    BY <1>t, <2>1 DEF VersionsInv
  <2>3. \A p \in Plugins : ~(p <= 0) /\ IdlePlugins[p] = "idle"
    BY PluginNumbers DEF IdlePlugins
  <2>4. CollectedInv' /\ ErrInv' /\ TroubleInv' /\ DoneInv'
    BY <2>1, <2>2, <2>3 DEF CollectedInv, ErrInv, TroubleInv, DoneInv, Outcome, After
  <2>5. ~Fit("archived") /\ (err <=> ~Empty("archived"))
    BY <1>t, <2>1, Verdict DEF After
  <2>6. (Fit("archived")' <=> Fit("archived")) /\ (Empty("archived")' <=> Empty("archived"))
    BY <2>1 DEF Fit, Empty
  <2>7. VersionsInv'
    BY <2>1, <2>2, <2>5, <2>6 DEF VersionsInv
  <2>8. QED
    BY <2>4, <2>7
<1>9. CASE Timeout \/ UNCHANGED vars
  <2>1. UNCHANGED <<phase, variant, pluginVars, err, resultVars, trouble>>
    BY <1>9 DEF Timeout, vars, pluginVars, resultVars
  <2>2. VersionsInv'
    BY <1>t, <2>1, ArchivedStays DEF pluginVars, resultVars
  <2>3. CollectedInv' /\ ErrInv' /\ TroubleInv' /\ DoneInv'
    BY <1>t, <2>1 DEF CollectedInv, ErrInv, TroubleInv, DoneInv, pluginVars, resultVars
  <2>4. QED
    BY <2>2, <2>3
<1>10. QED
  BY <1>1, <1>2, <1>3, <1>4, <1>5, <1>6, <1>7, <1>8, <1>9 DEF Next, Step, PluginStep

\* The facts used are those of the one plugin that found any in the first
\* version fit for use, in whatever order the plugins return; and no facts
\* without an error means that nothing failed for any version.
THEOREM ResultsFollowOutcomes == Spec => []ResultFollowsOutcomes
<1>1. TypeOK /\ FactsInv => ResultFollowsOutcomes
  <2> SUFFICES ASSUME TypeOK, FactsInv, phase = "done"
               PROVE  /\ \A p \in Plugins, v \in Variants : <<p, v>> \in result.facts =>
                            /\ Fit(v) /\ outcomes[v][p] = "facts"
                            /\ v = "original" => ~Fit("archived")
                      /\ result.facts = {} =>
                            /\ \A v \in Variants : ~Fit(v)
                            /\ result.error = (\E v \in Variants : ~Empty(v))
    BY DEF ResultFollowsOutcomes
  <2>1. PluginsInv /\ CollectedInv /\ ErrInv /\ VersionsInv /\ DoneInv /\ phase \in After
    BY DEF FactsInv, After
  <2>2. /\ Fit(variant) <=> ~err /\ slice # {}
        /\ err \/ slice = {} => (err <=> ~Empty(variant))
    BY <2>1, Verdict
  <2>3. CASE ~err /\ slice # {} /\ result = [facts |-> slice \X {variant}, error |-> FALSE]
    <3>1. result.facts # {}
      <4>1. PICK p : p \in slice
        BY <2>3
      <4>2. <<p, variant>> \in slice \X {variant}
        BY <4>1
      <4>3. QED
        BY <2>3, <4>2
    <3>2. \A p \in Plugins, v \in Variants :
             <<p, v>> \in result.facts => v = variant /\ p \in slice
      BY <2>3
    <3>3. \A p \in slice : outcomes[variant][p] = "facts"
      BY <2>1 DEF CollectedInv, Outcome
    <3>4. QED
      BY <2>1, <2>2, <2>3, <3>1, <3>2, <3>3 DEF VersionsInv
  <2>4. CASE /\ err \/ slice = {}
             /\ variant = "original"
             /\ result = [facts |-> {}, error |-> allErr \/ err]
    <3>1. ~Fit("original") /\ ~Fit("archived")
      BY <2>1, <2>2, <2>4 DEF VersionsInv
    <3>2. (allErr <=> ~Empty("archived")) /\ (err <=> ~Empty("original"))
      BY <2>1, <2>2, <2>4 DEF VersionsInv
    <3>3. (\E v \in Variants : ~Empty(v)) <=> (allErr \/ err)
      BY <3>2 DEF Variants
    <3>4. result.facts = {} /\ result.error = (allErr \/ err)
      BY <2>4
    <3>5. QED
      BY <3>1, <3>3, <3>4 DEF Variants
  <2>5. QED
    BY <2>1, <2>3, <2>4 DEF DoneInv
<1>2. Init => TypeOK /\ FactsInv
  BY InitType, InitFacts
<1>3. TypeOK /\ FactsInv /\ [Next]_vars => (TypeOK /\ FactsInv)'
  BY NextType, NextFacts
<1>4. QED
  BY <1>1, <1>2, <1>3, PTL DEF Spec

=============================================================================
