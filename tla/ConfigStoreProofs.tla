-------------------------- MODULE ConfigStoreProofs --------------------------
(* Of the settings of a tenant as ConfigStore stores them: types, the       *)
(* secrets that are kept, what was saved can be loaded, a page saved as it  *)
(* is shown changes nothing, the next run the browser is told is the next   *)
(* that is due, and its tests agree with a backup.  All follow from one     *)
(* invariant, StoreInv, which says what a request between two statements    *)
(* may rely on.  Before it, what the operators of Settings do to one entry, *)
(* to a list and to a whole configuration.                                  *)
EXTENDS ConfigStore, FiniteSetTheorems, SequenceTheorems, TLAPS

----------------------------------------------------------------------------
(* Lists and configurations.                                                *)

\* A list of one entry.
LEMMA OneFits ==
    ASSUME NEW A, NEW x \in A
    PROVE  <<x>> \in Seq(A) /\ DOMAIN <<x>> = {1} /\ <<x>>[1] = x
  OBVIOUS

\* A configuration has these fields and no other.
LEMMA FormIs ==
    ASSUME NEW a \in Forms
    PROVE  a = [sources |-> a.sources, schedules |-> a.schedules, targets |-> a.targets,
                options |-> a.options, strategies |-> a.strategies, tasks |-> a.tasks,
                limit |-> a.limit, days |-> a.days]
  BY DEF Forms

\* Two configurations with the same fields are one.
LEMMA SameForm ==
    ASSUME NEW a \in Forms, NEW b \in Forms,
           a.sources = b.sources, a.schedules = b.schedules, a.targets = b.targets,
           a.options = b.options, a.strategies = b.strategies, a.tasks = b.tasks,
           a.limit = b.limit, a.days = b.days
    PROVE  a = b
  BY FormIs

\* Two lists with the same entries are one.
LEMMA SameList ==
    ASSUME NEW A, NEW B, NEW a \in Seq(A), NEW b \in Seq(B), DOMAIN a = DOMAIN b, \A i \in DOMAIN a : a[i] = b[i]
    PROVE  a = b
  OBVIOUS

\* A function on the places of a list, into B, is a list of entries of B.
LEMMA ListFits ==
    ASSUME NEW A, NEW B, NEW list \in Seq(A), NEW f, f = [i \in DOMAIN list |-> f[i]],
           \A i \in DOMAIN list : f[i] \in B
    PROVE  f \in Seq(B) /\ Len(f) = Len(list) /\ DOMAIN f = DOMAIN list
  OBVIOUS

\* The settings of a user who has none yet are settings.
LEMMA DefaultFits == Default \in Forms
  <1>1. Default.sources \in Seq(Sources)
    <2>1. [key |-> "local", enabled |-> TRUE, type |-> "nowledgemem_api",
                      url |-> "local", path |-> "", secret |-> Blank] \in Sources
      BY SettingsAssumption DEF Sources
    <2> QED BY <2>1, OneFits DEF Default, DefaultSource
  <1>2. Default.schedules \in Seq(Schedules)
    <2>1. [key |-> "daily", enabled |-> TRUE, type |-> "daily", at |-> 0, day |-> 0] \in Schedules
      BY SettingsAssumption DEF Schedules
    <2>2. [key |-> "weekly", enabled |-> FALSE, type |-> "weekly", at |-> 0, day |-> 0] \in Schedules
      BY SettingsAssumption DEF Schedules
    <2>3. ASSUME NEW A, NEW x \in A, NEW y \in A PROVE <<x, y>> \in Seq(A)
      OBVIOUS
    <2> QED BY <2>1, <2>2, <2>3 DEF Default
  <1>3. Default.targets \in Seq(Targets)
    <2>1. <<>> \in Seq(Targets)
      OBVIOUS
    <2> QED BY <2>1 DEF Default
  <1>4. Default.options \in Seq(Options)
    <2>1. DefaultExport \in [Flags -> {"", "yes", "no"}]
      BY DEF DefaultExport, Flags
    <2>2. DefaultOption \in Options
      BY <2>1, SettingsAssumption DEF DefaultOption, Options
    <2> QED BY <2>2, OneFits DEF Default
  <1>5. Default.strategies \in Seq(Strategies)
    <2>1. DefaultStrategy \in Strategies
      BY SettingsAssumption DEF DefaultStrategy, Strategies
    <2> QED BY <2>1, OneFits DEF Default
  <1>6. Default.tasks \in Seq(Tasks)
    <2>1. [key |-> "default", enabled |-> FALSE, source |-> "local",
                      schedule |-> "daily", targets |-> {}, option |-> "portable",
                      strategy |-> "no cleanup", encrypted |-> FALSE, secret |-> Blank] \in Tasks
      BY SettingsAssumption DEF Tasks
    <2> QED BY <2>1, OneFits DEF Default, DefaultSource
  <1>7. Default.limit = 100 /\ Default.days = 180
    BY DEF Default
  <1> QED BY <1>1, <1>2, <1>3, <1>4, <1>5, <1>6, <1>7 DEF Default, Forms

----------------------------------------------------------------------------
(* Normalize.                                                               *)

\* What Normalize puts in the lists that are empty.
SomeOptions(cfg) == IF cfg.options = <<>> THEN <<DefaultOption>> ELSE cfg.options
SomeStrategies(cfg) == IF cfg.strategies = <<>> THEN <<DefaultStrategy>> ELSE cfg.strategies

\* Normalize, list by list.
LEMMA NormalizeIs ==
    ASSUME NEW cfg \in Forms
    PROVE  LET n == Normalize(cfg) IN
            /\ n.sources = [i \in DOMAIN cfg.sources |-> NormalSource(cfg.sources[i])]
            /\ n.schedules = cfg.schedules
            /\ n.targets = cfg.targets
            /\ n.options = [i \in DOMAIN SomeOptions(cfg) |-> NormalOption(SomeOptions(cfg)[i])]
            /\ n.strategies = [i \in DOMAIN SomeStrategies(cfg) |-> NormalStrategy(SomeStrategies(cfg)[i])]
            /\ n.tasks = [i \in DOMAIN cfg.tasks |->
                    NormalTask(cfg.tasks[i], SomeOptions(cfg)[1].key, SomeStrategies(cfg)[1].key)]
            /\ n.limit = IF cfg.limit = 0 THEN 100 ELSE cfg.limit
            /\ n.days = IF cfg.days = 0 THEN 180 ELSE cfg.days
  BY DEF Normalize, Forms, SomeOptions, SomeStrategies, Each

\* Normalize, entry by entry.
LEMMA NormalizeAt ==
    ASSUME NEW cfg \in Forms
    PROVE  LET n == Normalize(cfg) IN
            /\ DOMAIN n.sources = DOMAIN cfg.sources
            /\ \A i \in DOMAIN cfg.sources : n.sources[i] = NormalSource(cfg.sources[i])
            /\ DOMAIN n.options = DOMAIN SomeOptions(cfg)
            /\ \A i \in DOMAIN SomeOptions(cfg) : n.options[i] = NormalOption(SomeOptions(cfg)[i])
            /\ DOMAIN n.strategies = DOMAIN SomeStrategies(cfg)
            /\ \A i \in DOMAIN SomeStrategies(cfg) : n.strategies[i] = NormalStrategy(SomeStrategies(cfg)[i])
            /\ DOMAIN n.tasks = DOMAIN cfg.tasks
            /\ \A i \in DOMAIN cfg.tasks : n.tasks[i] =
                    NormalTask(cfg.tasks[i], SomeOptions(cfg)[1].key, SomeStrategies(cfg)[1].key)
  <1> DEFINE n == Normalize(cfg)
  <1>1. /\ n.sources = [i \in DOMAIN cfg.sources |-> NormalSource(cfg.sources[i])]
        /\ n.options = [i \in DOMAIN SomeOptions(cfg) |-> NormalOption(SomeOptions(cfg)[i])]
        /\ n.strategies = [i \in DOMAIN SomeStrategies(cfg) |-> NormalStrategy(SomeStrategies(cfg)[i])]
        /\ n.tasks = [i \in DOMAIN cfg.tasks |->
                    NormalTask(cfg.tasks[i], SomeOptions(cfg)[1].key, SomeStrategies(cfg)[1].key)]
    BY NormalizeIs
  <1> HIDE DEF n
  <1>2. /\ DOMAIN n.sources = DOMAIN cfg.sources
        /\ \A i \in DOMAIN cfg.sources : n.sources[i] = NormalSource(cfg.sources[i])
    BY <1>1
  <1>3. /\ DOMAIN n.options = DOMAIN SomeOptions(cfg)
        /\ \A i \in DOMAIN SomeOptions(cfg) : n.options[i] = NormalOption(SomeOptions(cfg)[i])
    BY <1>1
  <1>4. /\ DOMAIN n.strategies = DOMAIN SomeStrategies(cfg)
        /\ \A i \in DOMAIN SomeStrategies(cfg) : n.strategies[i] = NormalStrategy(SomeStrategies(cfg)[i])
    BY <1>1
  <1>5. /\ DOMAIN n.tasks = DOMAIN cfg.tasks
        /\ \A i \in DOMAIN cfg.tasks : n.tasks[i] =
                    NormalTask(cfg.tasks[i], SomeOptions(cfg)[1].key, SomeStrategies(cfg)[1].key)
    BY <1>1
  <1> QED BY <1>2, <1>3, <1>4, <1>5 DEF n

\* A normalised source has a type and an address, the rest is as it was.
LEMMA NormalSourceFits ==
    ASSUME NEW s \in Sources
    PROVE  /\ NormalSource(s) \in Sources
           /\ NormalSource(s).key = s.key /\ NormalSource(s).path = s.path
           /\ NormalSource(s).enabled = s.enabled /\ NormalSource(s).secret = s.secret
           /\ NormalSource(s).type = OrElse(s.type, "nowledgemem_api")
           /\ NormalSource(s).url = OrElse(s.url, "local")
  BY SettingsAssumption DEF NormalSource, Sources, OrElse

\* A normalised export option has the defaults for what it leaves blank.
LEMMA NormalOptionFits ==
    ASSUME NEW o \in Options
    PROVE  /\ NormalOption(o) \in Options
           /\ NormalOption(o).key = o.key
           /\ NormalOption(o).export = MergeExport(o.export)
  BY SettingsAssumption DEF NormalOption, Options, OrElse, MergeExport, DefaultExport, Flags

\* A normalised cleanup strategy has a mode.
LEMMA NormalStrategyFits ==
    ASSUME NEW s \in Strategies
    PROVE  /\ NormalStrategy(s) \in Strategies
           /\ NormalStrategy(s).key = s.key /\ NormalStrategy(s).keep = s.keep
           /\ NormalStrategy(s).mode = OrElse(s.mode, "none")
  BY SettingsAssumption DEF NormalStrategy, Strategies, OrElse

\* A normalised task names the given option and strategy for a blank one.
LEMMA NormalTaskFits ==
    ASSUME NEW t \in Tasks, NEW o \in Words, NEW s \in Words
    PROVE  LET n == NormalTask(t, o, s) IN
           /\ n \in Tasks
           /\ n.key = t.key /\ n.enabled = t.enabled /\ n.source = t.source /\ n.schedule = t.schedule
           /\ n.targets = t.targets /\ n.encrypted = t.encrypted /\ n.secret = t.secret
           /\ n.option = OrElse(t.option, o) /\ n.strategy = OrElse(t.strategy, s)
  BY DEF NormalTask, Tasks, OrElse

\* There is a first export option and a first strategy, after the defaults.
LEMMA SomeFit ==
    ASSUME NEW cfg \in Forms
    PROVE  /\ SomeOptions(cfg) \in Seq(Options) /\ SomeOptions(cfg)[1] \in Options
           /\ SomeOptions(cfg)[1].key \in Words
           /\ SomeStrategies(cfg) \in Seq(Strategies) /\ SomeStrategies(cfg)[1] \in Strategies
           /\ SomeStrategies(cfg)[1].key \in Words
  <1>1. DefaultOption \in Options /\ DefaultStrategy \in Strategies
    <2>1. DefaultExport \in [Flags -> {"", "yes", "no"}]
      BY DEF DefaultExport, Flags
    <2> QED BY <2>1, SettingsAssumption DEF DefaultOption, DefaultStrategy, Options, Strategies
  <1>2. ASSUME NEW A, NEW list \in Seq(A), list # <<>>
        PROVE  list[1] \in A
    BY <1>2, EmptySeq
  <1>3. cfg.options \in Seq(Options) /\ cfg.strategies \in Seq(Strategies)
    BY DEF Forms
  <1>4. /\ SomeOptions(cfg) \in Seq(Options) /\ SomeOptions(cfg)[1] \in Options
    BY <1>1, <1>2, <1>3, OneFits DEF SomeOptions
  <1>5. SomeStrategies(cfg) \in Seq(Strategies) /\ SomeStrategies(cfg)[1] \in Strategies
    BY <1>1, <1>2, <1>3, OneFits DEF SomeStrategies
  <1> QED BY <1>4, <1>5 DEF Options, Strategies

\* What is normalised is a configuration.
LEMMA NormalizeFits ==
    ASSUME NEW cfg \in Forms
    PROVE  Normalize(cfg) \in Forms
  <1> DEFINE n == Normalize(cfg)
  <1>1. n.sources \in Seq(Sources)
    <2>1. cfg.sources \in Seq(Sources)
      BY DEF Forms
    <2>2. n.sources = [i \in DOMAIN cfg.sources |-> NormalSource(cfg.sources[i])]
      BY NormalizeIs
    <2> HIDE DEF n
    <2> QED BY <2>1, <2>2, NormalSourceFits, ListFits
  <1>3. n.options \in Seq(Options)
    <2>1. n.options = [i \in DOMAIN SomeOptions(cfg) |-> NormalOption(SomeOptions(cfg)[i])]
      BY NormalizeIs
    <2> HIDE DEF n
    <2> QED BY <2>1, NormalOptionFits, ListFits, SomeFit
  <1>5. n.strategies \in Seq(Strategies)
    <2>1. n.strategies = [i \in DOMAIN SomeStrategies(cfg) |-> NormalStrategy(SomeStrategies(cfg)[i])]
      BY NormalizeIs
    <2> HIDE DEF n
    <2> QED BY <2>1, NormalStrategyFits, ListFits, SomeFit
  <1>6. n.tasks \in Seq(Tasks)
    <2>1. cfg.tasks \in Seq(Tasks)
      BY DEF Forms
    <2>2. n.tasks = [i \in DOMAIN cfg.tasks |->
                    NormalTask(cfg.tasks[i], SomeOptions(cfg)[1].key, SomeStrategies(cfg)[1].key)]
      BY NormalizeIs
    <2> HIDE DEF n
    <2>3. ASSUME NEW i \in DOMAIN cfg.tasks
          PROVE  n.tasks[i] \in Tasks
      <3>1. cfg.tasks[i] \in Tasks
        BY <2>1
      <3> QED BY <2>2, <3>1, NormalTaskFits, SomeFit
    <2>4. n.tasks = [i \in DOMAIN cfg.tasks |-> n.tasks[i]]
      BY <2>2
    <2> QED BY <2>1, <2>3, <2>4, ListFits
  <1>7. n.limit \in Nat /\ n.days \in Nat
    <2>1. cfg.limit \in Nat /\ cfg.days \in Nat
      BY DEF Forms
    <2>2. /\ n.limit = IF cfg.limit = 0 THEN 100 ELSE cfg.limit
          /\ n.days = IF cfg.days = 0 THEN 180 ELSE cfg.days
      BY NormalizeIs
    <2> HIDE DEF n
    <2> QED BY <2>1, <2>2
  <1> QED BY <1>1, <1>3, <1>5, <1>6, <1>7 DEF Normalize, Forms

\* What Normalize leaves as it is.
Normal(cfg) ==
    /\ \A i \in DOMAIN cfg.sources : cfg.sources[i].type # "" /\ cfg.sources[i].url # ""
    /\ cfg.options # <<>> /\ cfg.strategies # <<>>
    /\ \A i \in DOMAIN cfg.options, f \in Flags : cfg.options[i].export[f] # ""
    /\ \A i \in DOMAIN cfg.strategies : cfg.strategies[i].mode # ""
    /\ \A i \in DOMAIN cfg.tasks :
        /\ cfg.tasks[i].option # "" \/ cfg.options[1].key = ""
        /\ cfg.tasks[i].strategy # "" \/ cfg.strategies[1].key = ""
    /\ cfg.limit # 0 /\ cfg.days # 0

\* Normalize leaves what is normal as it is.
LEMMA NormalStays ==
    ASSUME NEW cfg \in Forms, Normal(cfg)
    PROVE  Normalize(cfg) = cfg
  <1> DEFINE n == Normalize(cfg)
  <1> SomeOptions(cfg) = cfg.options /\ SomeStrategies(cfg) = cfg.strategies
    BY DEF Normal, SomeOptions, SomeStrategies
  <1>1. n.sources = cfg.sources
    <2>1. ASSUME NEW s \in Sources, s.type # "", s.url # ""
          PROVE  NormalSource(s) = s
      BY <2>1 DEF NormalSource, Sources, OrElse
    <2>2. ASSUME NEW i \in DOMAIN cfg.sources
          PROVE  NormalSource(cfg.sources[i]) = cfg.sources[i]
      <3>1. cfg.sources[i] \in Sources
        BY DEF Forms
      <3> QED BY <2>1, <3>1 DEF Normal
    <2>3. n.sources = [i \in DOMAIN cfg.sources |-> cfg.sources[i]]
      BY <2>2, NormalizeIs
    <2> QED BY <2>3 DEF Forms
  <1>2. n.options = cfg.options
    <2>1. ASSUME NEW o \in Options, \A f \in Flags : o.export[f] # ""
          PROVE  NormalOption(o) = o
      <3>1. o.export \in [Flags -> {"", "yes", "no"}]
        BY DEF Options
      <3>2. MergeExport(o.export) = o.export
        BY <2>1, <3>1 DEF MergeExport, OrElse
      <3> QED BY <3>2 DEF NormalOption, Options
    <2>2. ASSUME NEW i \in DOMAIN cfg.options
          PROVE  NormalOption(cfg.options[i]) = cfg.options[i]
      <3>1. cfg.options[i] \in Options
        BY DEF Forms
      <3> QED BY <2>1, <3>1 DEF Normal
    <2>3. DOMAIN n.options = DOMAIN cfg.options /\ \A i \in DOMAIN cfg.options : n.options[i] = cfg.options[i]
      BY <2>2, NormalizeAt
    <2>4. n.options \in Seq(Options) /\ cfg.options \in Seq(Options)
      BY NormalizeFits DEF Forms
    <2> QED BY <2>3, <2>4, SameList
  <1>3. n.strategies = cfg.strategies
    <2>1. ASSUME NEW s \in Strategies, s.mode # ""
          PROVE  NormalStrategy(s) = s
      BY <2>1 DEF NormalStrategy, Strategies, OrElse
    <2>2. ASSUME NEW i \in DOMAIN cfg.strategies
          PROVE  NormalStrategy(cfg.strategies[i]) = cfg.strategies[i]
      <3>1. cfg.strategies[i] \in Strategies
        BY DEF Forms
      <3> QED BY <2>1, <3>1 DEF Normal
    <2>3. DOMAIN n.strategies = DOMAIN cfg.strategies /\ \A i \in DOMAIN cfg.strategies : n.strategies[i] = cfg.strategies[i]
      BY <2>2, NormalizeAt
    <2>4. n.strategies \in Seq(Strategies) /\ cfg.strategies \in Seq(Strategies)
      BY NormalizeFits DEF Forms
    <2> QED BY <2>3, <2>4, SameList
  <1>4. n.tasks = cfg.tasks
    <2>1. ASSUME NEW t \in Tasks, NEW o, NEW s, t.option # "" \/ o = "", t.strategy # "" \/ s = ""
          PROVE  NormalTask(t, o, s) = t
      BY <2>1 DEF NormalTask, Tasks, OrElse
    <2>2. ASSUME NEW i \in DOMAIN cfg.tasks
          PROVE  NormalTask(cfg.tasks[i], cfg.options[1].key, cfg.strategies[1].key) = cfg.tasks[i]
      <3>1. cfg.tasks[i] \in Tasks
        BY DEF Forms
      <3> QED BY <2>1, <3>1 DEF Normal
    <2>3. DOMAIN n.tasks = DOMAIN cfg.tasks /\ \A i \in DOMAIN cfg.tasks : n.tasks[i] = cfg.tasks[i]
      BY <2>2, NormalizeAt
    <2>4. n.tasks \in Seq(Tasks) /\ cfg.tasks \in Seq(Tasks)
      BY NormalizeFits DEF Forms
    <2> QED BY <2>3, <2>4, SameList
  <1>5. n.limit = cfg.limit /\ n.days = cfg.days /\ n.schedules = cfg.schedules /\ n.targets = cfg.targets
    BY NormalizeIs DEF Normal
  <1> QED BY <1>1, <1>2, <1>3, <1>4, <1>5, NormalizeFits, SameForm

\* Normalize gives what is normal, so that a second time changes nothing.
LEMMA NormalizeIsNormal ==
    ASSUME NEW cfg \in Forms
    PROVE  Normal(Normalize(cfg))
  <1> DEFINE n == Normalize(cfg)
  <1>1. ASSUME NEW i \in DOMAIN n.sources
        PROVE  n.sources[i].type # "" /\ n.sources[i].url # ""
    <2>1. i \in DOMAIN cfg.sources /\ n.sources[i] = NormalSource(cfg.sources[i])
      BY NormalizeAt
    <2>2. cfg.sources[i] \in Sources
      BY <2>1 DEF Forms
    <2>3. /\ n.sources[i].type = OrElse(cfg.sources[i].type, "nowledgemem_api")
          /\ n.sources[i].url = OrElse(cfg.sources[i].url, "local")
      BY <2>1, <2>2, NormalSourceFits
    <2> QED BY <2>3 DEF OrElse
  <1>2. ASSUME NEW i \in DOMAIN n.options, NEW f \in Flags
        PROVE  n.options[i].export[f] # ""
    <2>1. i \in DOMAIN SomeOptions(cfg) /\ n.options[i] = NormalOption(SomeOptions(cfg)[i])
      BY NormalizeAt
    <2>2. SomeOptions(cfg)[i] \in Options
      BY <2>1, SomeFit
    <2>3. n.options[i].export[f] = OrElse(SomeOptions(cfg)[i].export[f], DefaultExport[f])
      <3>1. n.options[i].export = MergeExport(SomeOptions(cfg)[i].export)
        BY <2>1, <2>2, NormalOptionFits
      <3> HIDE DEF n
      <3> QED BY <3>1 DEF MergeExport
    <2> QED BY <2>3 DEF OrElse, DefaultExport
  <1>3. ASSUME NEW i \in DOMAIN n.strategies
        PROVE  n.strategies[i].mode # ""
    <2>1. i \in DOMAIN SomeStrategies(cfg) /\ n.strategies[i] = NormalStrategy(SomeStrategies(cfg)[i])
      BY NormalizeAt
    <2>2. SomeStrategies(cfg)[i] \in Strategies
      BY <2>1, SomeFit
    <2> QED BY <2>1, <2>2, NormalStrategyFits DEF OrElse
  <1>4. /\ n.options # <<>> /\ n.options[1].key = SomeOptions(cfg)[1].key
    <2>1. 1 \in DOMAIN SomeOptions(cfg)
      BY OneFits, EmptySeq DEF SomeOptions, Forms
    <2>2. 1 \in DOMAIN n.options /\ n.options[1] = NormalOption(SomeOptions(cfg)[1])
      BY <2>1, NormalizeAt
    <2> QED BY <2>2, NormalOptionFits, SomeFit
  <1>5. /\ n.strategies # <<>> /\ n.strategies[1].key = SomeStrategies(cfg)[1].key
    <2>1. 1 \in DOMAIN SomeStrategies(cfg)
      BY OneFits, EmptySeq DEF SomeStrategies, Forms
    <2>2. 1 \in DOMAIN n.strategies /\ n.strategies[1] = NormalStrategy(SomeStrategies(cfg)[1])
      BY <2>1, NormalizeAt
    <2> QED BY <2>2, NormalStrategyFits, SomeFit
  <1>6. ASSUME NEW i \in DOMAIN n.tasks
        PROVE  /\ n.tasks[i].option # "" \/ n.options[1].key = ""
               /\ n.tasks[i].strategy # "" \/ n.strategies[1].key = ""
    <2>1. i \in DOMAIN cfg.tasks
      BY NormalizeAt
    <2>3. cfg.tasks[i] \in Tasks
      BY <2>1 DEF Forms
    <2>2. n.tasks[i] = NormalTask(cfg.tasks[i], SomeOptions(cfg)[1].key, SomeStrategies(cfg)[1].key)
      BY <2>1, NormalizeAt
    <2>4. /\ n.tasks[i].option = OrElse(cfg.tasks[i].option, n.options[1].key)
          /\ n.tasks[i].strategy = OrElse(cfg.tasks[i].strategy, n.strategies[1].key)
      BY <1>4, <1>5, <2>2, <2>3, NormalTaskFits, SomeFit
    <2> QED BY <2>4 DEF OrElse
  <1>7. n.limit # 0 /\ n.days # 0
    <2>1. /\ n.limit = IF cfg.limit = 0 THEN 100 ELSE cfg.limit
          /\ n.days = IF cfg.days = 0 THEN 180 ELSE cfg.days
      BY NormalizeIs
    <2> HIDE DEF n
    <2> QED BY <2>1
  <1> QED BY <1>1, <1>2, <1>3, <1>4, <1>5, <1>6, <1>7 DEF Normal

----------------------------------------------------------------------------
(* Entries and their keys.                                                  *)

\* In a list with valid keys no two entries have the same.
LEMMA KeysDistinct ==
    ASSUME NEW A, NEW list \in Seq(A), ValidKeys(list), NEW i \in DOMAIN list, NEW j \in DOMAIN list,
           list[i].key = list[j].key
    PROVE  i = j
  <1> DEFINE D == DOMAIN list
             K == Keys(list)
             f == [x \in D |-> list[x].key]
  <1>1. D = 1..Len(list) /\ Len(list) \in Nat
    OBVIOUS
  <1>2. IsFiniteSet(D) /\ Cardinality(D) = Len(list)
    <2>1. 1 \in Int /\ Len(list) \in Int
      BY <1>1
    <2>2. IsFiniteSet(1..Len(list)) /\ Cardinality(1..Len(list)) = IF 1 > Len(list) THEN 0 ELSE Len(list) - 1 + 1
      BY <2>1, FS_Interval
    <2> QED BY <1>1, <2>2
  <1>3. f \in Surjection(D, K)
    BY DEF Surjection, Keys
  <1>4. f \in Injection(D, K)
    BY <1>2, <1>3, FS_Surjection DEF ValidKeys
  <1>5. f[i] = f[j] /\ i \in D /\ j \in D
    OBVIOUS
  <1> HIDE DEF D, K, f
  <1> QED BY <1>4, <1>5 DEF Injection, IsInjective

\* In a list with valid keys the first entry with the key of one is that one.
LEMMA EntryIs ==
    ASSUME NEW A, NEW list \in Seq(A), ValidKeys(list), NEW i \in DOMAIN list
    PROVE  Entry(list, list[i].key) = list[i]
  <1> DEFINE P(j) == list[j].key = list[i].key /\ \A l \in 1..(j - 1) : list[l].key # list[i].key
  <1>1. \A j \in DOMAIN list : P(j) => j = i
    BY KeysDistinct
  <1>2. P(i)
    <2>1. ASSUME NEW l \in 1..(i - 1), list[l].key = list[i].key
          PROVE  FALSE
      <3>1. l \in DOMAIN list /\ l # i
        OBVIOUS
      <3> QED BY <2>1, <3>1, KeysDistinct
    <2> QED BY <2>1
  <1>3. (CHOOSE j \in DOMAIN list : P(j)) = i
    BY <1>1, <1>2
  <1> QED BY <1>3 DEF Entry

\* In a list with valid keys every key leads to its entry.
LEMMA EntryOf ==
    ASSUME NEW A, NEW list \in Seq(A), ValidKeys(list), NEW key \in Keys(list)
    PROVE  \E i \in DOMAIN list : list[i].key = key /\ Entry(list, key) = list[i]
  BY EntryIs DEF Keys

\* Lists with the same keys at the same places are valid or not together.
LEMMA SameKeys ==
    ASSUME NEW A, NEW B, NEW a \in Seq(A), NEW b \in Seq(B), DOMAIN a = DOMAIN b,
           \A i \in DOMAIN a : a[i].key = b[i].key
    PROVE  Keys(a) = Keys(b) /\ (ValidKeys(a) <=> ValidKeys(b))
  <1>1. Len(a) = Len(b)
    OBVIOUS
  <1>2. Keys(a) = Keys(b)
    BY DEF Keys
  <1> QED BY <1>1, <1>2 DEF ValidKeys

----------------------------------------------------------------------------
(* MergeUserSecrets.                                                        *)

\* The settings of which a save keeps the secrets.
Kept(old) ==
    /\ old \in Forms
    /\ ValidKeys(old.sources) /\ ValidKeys(old.targets) /\ ValidKeys(old.tasks)

\* MergeUserSecrets, list by list.
LEMMA MergeIs ==
    ASSUME NEW cfg \in Forms, NEW old
    PROVE  LET n == MergeUserSecrets(cfg, old) IN
            /\ n.sources = MergedBy(cfg.sources, old.sources, MergeSourceSecrets)
            /\ n.schedules = cfg.schedules
            /\ n.targets = MergedBy(cfg.targets, old.targets, MergeTargetSecrets)
            /\ n.options = cfg.options
            /\ n.strategies = cfg.strategies
            /\ n.tasks = MergedBy(cfg.tasks, old.tasks, MergeTaskSecrets)
            /\ n.limit = cfg.limit
            /\ n.days = cfg.days
  BY DEF MergeUserSecrets, Forms

\* A source once merged: the key stored under the same name, for a blank one.
LEMMA MergedSource ==
    ASSUME NEW cfg \in Forms, NEW old, Kept(old), NEW i \in DOMAIN cfg.sources
    PROVE  LET s == cfg.sources[i]
               m == MergeUserSecrets(cfg, old).sources[i]
           IN  /\ m \in Sources
               /\ m.key = s.key /\ m.enabled = s.enabled /\ m.type = s.type /\ m.url = s.url /\ m.path = s.path
               /\ m.secret = IF s.secret = Blank /\ s.type = "nowledgemem_api" /\ s.key \in Keys(old.sources)
                             THEN Entry(old.sources, s.key).secret ELSE s.secret
  <1> DEFINE s == cfg.sources[i]
             e == Entry(old.sources, s.key)
             m == MergeUserSecrets(cfg, old).sources[i]
  <1>1. s \in Sources
    BY DEF Forms
  <1>2. m = IF s.key \in Keys(old.sources) THEN MergeSourceSecrets(s, e) ELSE s
    <2>1. MergeUserSecrets(cfg, old).sources = MergedBy(cfg.sources, old.sources, MergeSourceSecrets)
      BY MergeIs
    <2>2. MergedBy(cfg.sources, old.sources, MergeSourceSecrets)[i] =
            IF s.key \in Keys(old.sources) THEN MergeSourceSecrets(s, e) ELSE s
      BY DEF MergedBy, Each
    <2> QED BY <2>1, <2>2
  <1>3. s.key \in Keys(old.sources) => e.secret \in Secrets \cup {Blank}
    <2>1. old.sources \in Seq(Sources)
      BY DEF Kept, Forms
    <2>2. s.key \in Keys(old.sources) => e \in Sources
      BY <2>1, EntryOf DEF Kept
    <2> QED BY <2>2 DEF Sources
  <1> HIDE DEF s, e, m
  <1>4. ASSUME NEW x \in Secrets \cup {Blank}
        PROVE  /\ [s EXCEPT !.secret = x] \in Sources
               /\ LET n == [s EXCEPT !.secret = x] IN
                    /\ n.key = s.key /\ n.enabled = s.enabled /\ n.type = s.type /\ n.url = s.url
                    /\ n.path = s.path /\ n.secret = x
    BY <1>1 DEF Sources
  <1>5. s.secret \in Secrets \cup {Blank}
    BY <1>1 DEF Sources
  <1>6. CASE s.key \in Keys(old.sources) /\ s.type = "nowledgemem_api"
    <2>1. OrSecret(s.secret, e.secret) \in Secrets \cup {Blank}
      BY <1>3, <1>5, <1>6 DEF OrSecret
    <2>2. m = [s EXCEPT !.secret = OrSecret(s.secret, e.secret)]
      BY <1>2, <1>6 DEF MergeSourceSecrets
    <2> QED BY <1>4, <1>6, <2>1, <2>2 DEF OrSecret, s, e, m
  <1>7. CASE ~(s.key \in Keys(old.sources) /\ s.type = "nowledgemem_api")
    <2>1. m = s
      BY <1>2, <1>7 DEF MergeSourceSecrets
    <2> QED BY <1>1, <1>7, <2>1 DEF s, e, m
  <1> QED BY <1>6, <1>7

\* A target once merged: blank secrets of its type come from the stored one.
LEMMA MergedTarget ==
    ASSUME NEW cfg \in Forms, NEW old, Kept(old), NEW i \in DOMAIN cfg.targets
    PROVE  LET t == cfg.targets[i]
               m == MergeUserSecrets(cfg, old).targets[i]
           IN  /\ m \in Targets
               /\ m.key = t.key /\ m.enabled = t.enabled /\ m.type = t.type /\ m.complete = t.complete
               /\ \A f \in Slots : m.secrets[f] =
                    IF t.secrets[f] = Blank /\ t.type \in Types /\ f \in SlotsOf[t.type] /\ t.key \in Keys(old.targets)
                    THEN Entry(old.targets, t.key).secrets[f] ELSE t.secrets[f]
  <1> DEFINE t == cfg.targets[i]
             e == Entry(old.targets, t.key)
             m == MergeUserSecrets(cfg, old).targets[i]
             x == [f \in Slots |-> IF f \in SlotsOf[t.type] THEN OrSecret(t.secrets[f], e.secrets[f]) ELSE t.secrets[f]]
  <1>1. t \in Targets
    BY DEF Forms
  <1>2. m = IF t.key \in Keys(old.targets) THEN MergeTargetSecrets(t, e) ELSE t
    <2>1. MergeUserSecrets(cfg, old).targets = MergedBy(cfg.targets, old.targets, MergeTargetSecrets)
      BY MergeIs
    <2>2. MergedBy(cfg.targets, old.targets, MergeTargetSecrets)[i] =
            IF t.key \in Keys(old.targets) THEN MergeTargetSecrets(t, e) ELSE t
      BY DEF MergedBy, Each
    <2> QED BY <2>1, <2>2
  <1>3. t.key \in Keys(old.targets) => e.secrets \in [Slots -> Secrets \cup {Blank}]
    <2>1. old.targets \in Seq(Targets)
      BY DEF Kept, Forms
    <2>2. t.key \in Keys(old.targets) => e \in Targets
      BY <2>1, EntryOf DEF Kept
    <2> QED BY <2>2 DEF Targets
  <1>5. t.secrets \in [Slots -> Secrets \cup {Blank}]
    BY <1>1 DEF Targets
  <1> HIDE DEF t, e, m, x
  <1>4. ASSUME NEW y \in [Slots -> Secrets \cup {Blank}]
        PROVE  /\ [t EXCEPT !.secrets = y] \in Targets
               /\ LET n == [t EXCEPT !.secrets = y] IN
                    /\ n.key = t.key /\ n.enabled = t.enabled /\ n.type = t.type /\ n.complete = t.complete
                    /\ n.secrets = y
    BY <1>1 DEF Targets
  <1>6. CASE t.key \in Keys(old.targets) /\ t.type \in Types
    <2>1. x \in [Slots -> Secrets \cup {Blank}]
      BY <1>3, <1>5, <1>6 DEF OrSecret, x
    <2>2. m = [t EXCEPT !.secrets = x]
      BY <1>1, <1>2, <1>6 DEF MergeTargetSecrets, x
    <2>3. \A f \in Slots : x[f] = IF f \in SlotsOf[t.type] /\ t.secrets[f] = Blank THEN e.secrets[f] ELSE t.secrets[f]
      BY DEF x, OrSecret
    <2> QED BY <1>4, <1>6, <2>1, <2>2, <2>3 DEF t, e, m
  <1>7. CASE ~(t.key \in Keys(old.targets) /\ t.type \in Types)
    <2>1. m = t
      BY <1>2, <1>7 DEF MergeTargetSecrets
    <2> QED BY <1>1, <1>7, <2>1 DEF t, e, m
  <1> QED BY <1>6, <1>7

\* A task once merged: the stored password for a blank one.
LEMMA MergedTask ==
    ASSUME NEW cfg \in Forms, NEW old, Kept(old), NEW i \in DOMAIN cfg.tasks
    PROVE  LET t == cfg.tasks[i]
               m == MergeUserSecrets(cfg, old).tasks[i]
           IN  /\ m \in Tasks
               /\ m.key = t.key /\ m.enabled = t.enabled /\ m.source = t.source /\ m.schedule = t.schedule
               /\ m.targets = t.targets /\ m.option = t.option /\ m.strategy = t.strategy
               /\ m.encrypted = t.encrypted
               /\ m.secret = IF t.secret = Blank /\ t.key \in Keys(old.tasks)
                             THEN Entry(old.tasks, t.key).secret ELSE t.secret
  <1> DEFINE t == cfg.tasks[i]
             e == Entry(old.tasks, t.key)
             m == MergeUserSecrets(cfg, old).tasks[i]
  <1>1. t \in Tasks
    BY DEF Forms
  <1>2. m = IF t.key \in Keys(old.tasks) THEN MergeTaskSecrets(t, e) ELSE t
    <2>1. MergeUserSecrets(cfg, old).tasks = MergedBy(cfg.tasks, old.tasks, MergeTaskSecrets)
      BY MergeIs
    <2>2. MergedBy(cfg.tasks, old.tasks, MergeTaskSecrets)[i] =
            IF t.key \in Keys(old.tasks) THEN MergeTaskSecrets(t, e) ELSE t
      BY DEF MergedBy, Each
    <2> QED BY <2>1, <2>2
  <1>3. t.key \in Keys(old.tasks) => e.secret \in Secrets \cup {Blank}
    <2>1. old.tasks \in Seq(Tasks)
      BY DEF Kept, Forms
    <2>2. t.key \in Keys(old.tasks) => e \in Tasks
      BY <2>1, EntryOf DEF Kept
    <2> QED BY <2>2 DEF Tasks
  <1>5. t.secret \in Secrets \cup {Blank}
    BY <1>1 DEF Tasks
  <1> HIDE DEF t, e, m
  <1>4. ASSUME NEW x \in Secrets \cup {Blank}
        PROVE  /\ [t EXCEPT !.secret = x] \in Tasks
               /\ LET n == [t EXCEPT !.secret = x] IN
                    /\ n.key = t.key /\ n.enabled = t.enabled /\ n.source = t.source /\ n.schedule = t.schedule
                    /\ n.targets = t.targets /\ n.option = t.option /\ n.strategy = t.strategy
                    /\ n.encrypted = t.encrypted /\ n.secret = x
    BY <1>1 DEF Tasks
  <1>6. CASE t.key \in Keys(old.tasks)
    <2>1. OrSecret(t.secret, e.secret) \in Secrets \cup {Blank}
      BY <1>3, <1>5, <1>6 DEF OrSecret
    <2>2. m = [t EXCEPT !.secret = OrSecret(t.secret, e.secret)]
      BY <1>2, <1>6 DEF MergeTaskSecrets
    <2> QED BY <1>4, <1>6, <2>1, <2>2 DEF OrSecret, t, e, m
  <1>7. CASE t.key \notin Keys(old.tasks)
    BY <1>1, <1>2, <1>7 DEF t, e, m
  <1> QED BY <1>6, <1>7

\* The merged lists are functions on the places of the lists merged.
LEMMA MergedLists ==
    ASSUME NEW cfg \in Forms, NEW old
    PROVE  LET n == MergeUserSecrets(cfg, old) IN
            /\ n.sources = [i \in DOMAIN cfg.sources |-> n.sources[i]]
            /\ n.targets = [i \in DOMAIN cfg.targets |-> n.targets[i]]
            /\ n.tasks = [i \in DOMAIN cfg.tasks |-> n.tasks[i]]
  <1> DEFINE n == MergeUserSecrets(cfg, old)
  <1>1. n.sources = MergedBy(cfg.sources, old.sources, MergeSourceSecrets)
    BY MergeIs
  <1>2. n.targets = MergedBy(cfg.targets, old.targets, MergeTargetSecrets)
    BY MergeIs
  <1>3. n.tasks = MergedBy(cfg.tasks, old.tasks, MergeTaskSecrets)
    BY MergeIs
  <1> HIDE DEF n
  <1>4. n.sources = [i \in DOMAIN cfg.sources |-> n.sources[i]]
    BY <1>1 DEF MergedBy, Each
  <1>5. n.targets = [i \in DOMAIN cfg.targets |-> n.targets[i]]
    BY <1>2 DEF MergedBy, Each
  <1>6. n.tasks = [i \in DOMAIN cfg.tasks |-> n.tasks[i]]
    BY <1>3 DEF MergedBy, Each
  <1> QED BY <1>4, <1>5, <1>6 DEF n

\* What is merged is a configuration with as many entries as before.
LEMMA MergeFits ==
    ASSUME NEW cfg \in Forms, NEW old, Kept(old)
    PROVE  LET n == MergeUserSecrets(cfg, old) IN
            /\ n \in Forms
            /\ DOMAIN n.sources = DOMAIN cfg.sources
            /\ DOMAIN n.targets = DOMAIN cfg.targets
            /\ DOMAIN n.tasks = DOMAIN cfg.tasks
  <1> DEFINE n == MergeUserSecrets(cfg, old)
  <1>1. n.sources \in Seq(Sources) /\ DOMAIN n.sources = DOMAIN cfg.sources
    <2>1. cfg.sources \in Seq(Sources) /\ n.sources = [i \in DOMAIN cfg.sources |-> n.sources[i]]
      BY MergedLists DEF Forms
    <2>2. \A i \in DOMAIN cfg.sources : n.sources[i] \in Sources
      BY MergedSource
    <2> HIDE DEF n
    <2> QED BY <2>1, <2>2, ListFits
  <1>2. n.targets \in Seq(Targets) /\ DOMAIN n.targets = DOMAIN cfg.targets
    <2>1. cfg.targets \in Seq(Targets) /\ n.targets = [i \in DOMAIN cfg.targets |-> n.targets[i]]
      BY MergedLists DEF Forms
    <2>2. \A i \in DOMAIN cfg.targets : n.targets[i] \in Targets
      BY MergedTarget
    <2> HIDE DEF n
    <2> QED BY <2>1, <2>2, ListFits
  <1>3. n.tasks \in Seq(Tasks) /\ DOMAIN n.tasks = DOMAIN cfg.tasks
    <2>1. cfg.tasks \in Seq(Tasks) /\ n.tasks = [i \in DOMAIN cfg.tasks |-> n.tasks[i]]
      BY MergedLists DEF Forms
    <2>2. \A i \in DOMAIN cfg.tasks : n.tasks[i] \in Tasks
      BY MergedTask
    <2> HIDE DEF n
    <2> QED BY <2>1, <2>2, ListFits
  <1>4. n \in Forms
    BY <1>1, <1>2, <1>3 DEF MergeUserSecrets, Forms
  <1> QED BY <1>1, <1>2, <1>3, <1>4

\* Merging secrets leaves what is normal normal.
LEMMA MergeKeepsNormal ==
    ASSUME NEW cfg \in Forms, Normal(cfg), NEW old, Kept(old)
    PROVE  Normal(MergeUserSecrets(cfg, old))
  <1> DEFINE n == MergeUserSecrets(cfg, old)
  <1>1. \A i \in DOMAIN n.sources : n.sources[i].type # "" /\ n.sources[i].url # ""
    <2>1. DOMAIN n.sources = DOMAIN cfg.sources
      BY MergeFits
    <2>2. ASSUME NEW i \in DOMAIN cfg.sources
          PROVE  n.sources[i].type = cfg.sources[i].type /\ n.sources[i].url = cfg.sources[i].url
      BY MergedSource
    <2> HIDE DEF n
    <2> QED BY <2>1, <2>2 DEF Normal
  <1>2. n.options = cfg.options /\ n.strategies = cfg.strategies /\ n.limit = cfg.limit /\ n.days = cfg.days
    BY MergeIs
  <1>3. \A i \in DOMAIN n.tasks : /\ i \in DOMAIN cfg.tasks /\ n.tasks[i].option = cfg.tasks[i].option
                                /\ n.tasks[i].strategy = cfg.tasks[i].strategy
    BY MergeFits, MergedTask
  <1> HIDE DEF n
  <1>4. Normal(n)
    BY <1>1, <1>2, <1>3 DEF Normal
  <1> QED BY <1>4 DEF n

----------------------------------------------------------------------------
(* The fields that hold secrets.                                            *)

SourceField(key)    == <<<<"source", key>>, "api_key">>
TargetField(key, s) == <<<<"target", key>>, s>>
TaskField(key)      == <<<<"task", key>>, "password">>

\* A field with a secret is one of a source, of a target or of a task.
LEMMA FieldKinds ==
    ASSUME NEW cfg, NEW f
    PROVE  f \in Fields(cfg) <=>
            \/ \E key \in Keys(cfg.sources) : f = SourceField(key)
            \/ \E key \in Keys(cfg.targets), s \in Slots : f = TargetField(key, s)
            \/ \E key \in Keys(cfg.tasks) : f = TaskField(key)
  BY DEF Fields, SourceField, TargetField, TaskField

\* The secret of each kind of field.
LEMMA SecretAtIs ==
    ASSUME NEW cfg, NEW key, NEW s
    PROVE  /\ SecretAt(cfg, SourceField(key)) = Entry(cfg.sources, key).secret
           /\ SecretAt(cfg, TargetField(key, s)) = Entry(cfg.targets, key).secrets[s]
           /\ SecretAt(cfg, TaskField(key)) = Entry(cfg.tasks, key).secret
  BY DEF SecretAt, SourceField, TargetField, TaskField

\* When each kind of field is in use.
LEMMA UsedIs ==
    ASSUME NEW cfg, NEW key, NEW s
    PROVE  /\ Used(cfg, SourceField(key)) <=> Entry(cfg.sources, key).type = "nowledgemem_api"
           /\ Used(cfg, TargetField(key, s)) <=> s \in SlotsOf[Entry(cfg.targets, key).type]
           /\ Used(cfg, TaskField(key))
  BY DEF Used, SourceField, TargetField, TaskField

\* The fields there are, by the keys there are.
LEMMA OtherFields ==
    ASSUME NEW cfg, NEW key, NEW s \in Slots
    PROVE  /\ SourceField(key) \in Fields(cfg) <=> key \in Keys(cfg.sources)
           /\ TargetField(key, s) \in Fields(cfg) <=> key \in Keys(cfg.targets)
           /\ TaskField(key) \in Fields(cfg) <=> key \in Keys(cfg.tasks)
  BY DEF Fields, SourceField, TargetField, TaskField

\* The same keys, the same fields.
LEMMA SameFields ==
    ASSUME NEW a, NEW b, Keys(a.sources) = Keys(b.sources), Keys(a.targets) = Keys(b.targets),
           Keys(a.tasks) = Keys(b.tasks)
    PROVE  Fields(a) = Fields(b)
  BY DEF Fields

\* The keys of what is saved are those of what was typed.
LEMMA MergeKeepsKeys ==
    ASSUME NEW cfg \in Forms, NEW old, Kept(old)
    PROVE  LET m == MergeUserSecrets(cfg, old) IN
            /\ Keys(m.sources) = Keys(cfg.sources) /\ (ValidKeys(m.sources) <=> ValidKeys(cfg.sources))
            /\ Keys(m.targets) = Keys(cfg.targets) /\ (ValidKeys(m.targets) <=> ValidKeys(cfg.targets))
            /\ Keys(m.tasks) = Keys(cfg.tasks) /\ (ValidKeys(m.tasks) <=> ValidKeys(cfg.tasks))
            /\ Fields(m) = Fields(cfg)
  <1> DEFINE m == MergeUserSecrets(cfg, old)
  <1>1. Keys(m.sources) = Keys(cfg.sources) /\ (ValidKeys(m.sources) <=> ValidKeys(cfg.sources))
    <2>1. m.sources \in Seq(Sources) /\ cfg.sources \in Seq(Sources) /\ DOMAIN m.sources = DOMAIN cfg.sources
      BY MergeFits DEF Forms
    <2>2. \A i \in DOMAIN cfg.sources : m.sources[i].key = cfg.sources[i].key
      BY MergedSource
    <2> HIDE DEF m
    <2> QED BY <2>1, <2>2, SameKeys
  <1>2. Keys(m.targets) = Keys(cfg.targets) /\ (ValidKeys(m.targets) <=> ValidKeys(cfg.targets))
    <2>1. m.targets \in Seq(Targets) /\ cfg.targets \in Seq(Targets) /\ DOMAIN m.targets = DOMAIN cfg.targets
      BY MergeFits DEF Forms
    <2>2. \A i \in DOMAIN cfg.targets : m.targets[i].key = cfg.targets[i].key
      BY MergedTarget
    <2> HIDE DEF m
    <2> QED BY <2>1, <2>2, SameKeys
  <1>3. Keys(m.tasks) = Keys(cfg.tasks) /\ (ValidKeys(m.tasks) <=> ValidKeys(cfg.tasks))
    <2>1. m.tasks \in Seq(Tasks) /\ cfg.tasks \in Seq(Tasks) /\ DOMAIN m.tasks = DOMAIN cfg.tasks
      BY MergeFits DEF Forms
    <2>2. \A i \in DOMAIN cfg.tasks : m.tasks[i].key = cfg.tasks[i].key
      BY MergedTask
    <2> HIDE DEF m
    <2> QED BY <2>1, <2>2, SameKeys
  <1>4. Fields(m) = Fields(cfg)
    <2> HIDE DEF m
    <2> QED BY <1>1, <1>2, <1>3, SameFields
  <1> QED BY <1>1, <1>2, <1>3, <1>4

\* The field f of what is saved, by the fields of what was typed and of the row.
LEMMA MergeFinds ==
    ASSUME NEW cfg \in Forms, NEW old, Kept(old), Kept(cfg),
           \A i \in DOMAIN cfg.targets : cfg.targets[i].type \in Types,
           NEW f \in Fields(cfg)
    PROVE  SecretAt(MergeUserSecrets(cfg, old), f) =
            IF SecretAt(cfg, f) = Blank /\ Used(cfg, f) /\ f \in Fields(old) THEN SecretAt(old, f)
            ELSE SecretAt(cfg, f)
  <1> DEFINE m == MergeUserSecrets(cfg, old)
  <1>0. /\ m \in Forms /\ ValidKeys(m.sources) /\ ValidKeys(m.targets) /\ ValidKeys(m.tasks)
        /\ DOMAIN m.sources = DOMAIN cfg.sources /\ DOMAIN m.targets = DOMAIN cfg.targets
        /\ DOMAIN m.tasks = DOMAIN cfg.tasks
    BY MergeFits, MergeKeepsKeys DEF Kept
  <1>1. CASE \E key \in Keys(cfg.sources) : f = SourceField(key)
    <2>1. PICK i \in DOMAIN cfg.sources : f = SourceField(cfg.sources[i].key)
      BY <1>1 DEF Keys
    <2>2. Entry(cfg.sources, cfg.sources[i].key) = cfg.sources[i]
      BY EntryIs DEF Kept, Forms
    <2>3. Entry(m.sources, cfg.sources[i].key) = m.sources[i]
      <3>1. m.sources[i].key = cfg.sources[i].key
        BY MergedSource
      <3> HIDE DEF m
      <3>2. m.sources \in Seq(Sources) /\ i \in DOMAIN m.sources
        BY <1>0 DEF Forms
      <3> QED BY <1>0, <3>1, <3>2, EntryIs
    <2>4. m.sources[i].secret = IF cfg.sources[i].secret = Blank /\ cfg.sources[i].type = "nowledgemem_api" /\ cfg.sources[i].key \in Keys(old.sources)
                             THEN Entry(old.sources, cfg.sources[i].key).secret ELSE cfg.sources[i].secret
      BY MergedSource
    <2> HIDE DEF m
    <2>5. /\ SecretAt(m, f) = m.sources[i].secret
          /\ SecretAt(cfg, f) = cfg.sources[i].secret
          /\ SecretAt(old, f) = Entry(old.sources, cfg.sources[i].key).secret
      BY <2>1, <2>2, <2>3, SecretAtIs
    <2>7. Used(cfg, f) <=> cfg.sources[i].type = "nowledgemem_api"
      BY <2>1, <2>2, UsedIs
    <2>6. f \in Fields(old) <=> cfg.sources[i].key \in Keys(old.sources)
      BY <2>1 DEF Fields, SourceField
    <2> QED BY <2>4, <2>5, <2>6, <2>7 DEF m
  <1>2. CASE \E key \in Keys(cfg.targets), s \in Slots : f = TargetField(key, s)
    <2>1. PICK i \in DOMAIN cfg.targets, s \in Slots : f = TargetField(cfg.targets[i].key, s)
      BY <1>2 DEF Keys
    <2>2. Entry(cfg.targets, cfg.targets[i].key) = cfg.targets[i]
      BY EntryIs DEF Kept, Forms
    <2>3. Entry(m.targets, cfg.targets[i].key) = m.targets[i]
      <3>1. m.targets[i].key = cfg.targets[i].key
        BY MergedTarget
      <3> HIDE DEF m
      <3>2. m.targets \in Seq(Targets) /\ i \in DOMAIN m.targets
        BY <1>0 DEF Forms
      <3> QED BY <1>0, <3>1, <3>2, EntryIs
    <2>4. m.targets[i].secrets[s] =
            IF cfg.targets[i].secrets[s] = Blank /\ s \in SlotsOf[cfg.targets[i].type] /\ cfg.targets[i].key \in Keys(old.targets)
            THEN Entry(old.targets, cfg.targets[i].key).secrets[s] ELSE cfg.targets[i].secrets[s]
      BY MergedTarget
    <2> HIDE DEF m
    <2>5. /\ SecretAt(m, f) = m.targets[i].secrets[s]
          /\ SecretAt(cfg, f) = cfg.targets[i].secrets[s]
          /\ SecretAt(old, f) = Entry(old.targets, cfg.targets[i].key).secrets[s]
      BY <2>1, <2>2, <2>3, SecretAtIs
    <2>7. Used(cfg, f) <=> s \in SlotsOf[cfg.targets[i].type]
      BY <2>1, <2>2, UsedIs
    <2>6. f \in Fields(old) <=> cfg.targets[i].key \in Keys(old.targets)
      BY <2>1, OtherFields
    <2> QED BY <2>4, <2>5, <2>6, <2>7 DEF m
  <1>3. CASE \E key \in Keys(cfg.tasks) : f = TaskField(key)
    <2>1. PICK i \in DOMAIN cfg.tasks : f = TaskField(cfg.tasks[i].key)
      BY <1>3 DEF Keys
    <2>2. Entry(cfg.tasks, cfg.tasks[i].key) = cfg.tasks[i]
      BY EntryIs DEF Kept, Forms
    <2>3. Entry(m.tasks, cfg.tasks[i].key) = m.tasks[i]
      <3>1. m.tasks[i].key = cfg.tasks[i].key
        BY MergedTask
      <3> HIDE DEF m
      <3>2. m.tasks \in Seq(Tasks) /\ i \in DOMAIN m.tasks
        BY <1>0 DEF Forms
      <3> QED BY <1>0, <3>1, <3>2, EntryIs
    <2>4. m.tasks[i].secret = IF cfg.tasks[i].secret = Blank /\ cfg.tasks[i].key \in Keys(old.tasks)
                             THEN Entry(old.tasks, cfg.tasks[i].key).secret ELSE cfg.tasks[i].secret
      BY MergedTask
    <2> HIDE DEF m
    <2>5. /\ SecretAt(m, f) = m.tasks[i].secret
          /\ SecretAt(cfg, f) = cfg.tasks[i].secret
          /\ SecretAt(old, f) = Entry(old.tasks, cfg.tasks[i].key).secret
      <3>1. \A c : SecretAt(c, f) = Entry(c.tasks, cfg.tasks[i].key).secret
        BY <2>1, SecretAtIs
      <3> QED BY <2>2, <2>3, <3>1
    <2>7. Used(cfg, f)
      BY <2>1, UsedIs
    <2>6. f \in Fields(old) <=> cfg.tasks[i].key \in Keys(old.tasks)
      BY <2>1 DEF Fields, TaskField
    <2> QED BY <2>4, <2>5, <2>6, <2>7 DEF m
  <1> QED BY <1>1, <1>2, <1>3, FieldKinds

----------------------------------------------------------------------------
(* Settings that differ in secrets, addresses and what is enabled only.     *)

Alike(a, b) ==
    /\ a \in Forms /\ b \in Forms
    /\ a.schedules = b.schedules /\ a.options = b.options /\ a.strategies = b.strategies
    /\ a.limit = b.limit /\ a.days = b.days
    /\ DOMAIN a.sources = DOMAIN b.sources
    /\ \A i \in DOMAIN b.sources : /\ a.sources[i].key = b.sources[i].key
                                   /\ a.sources[i].type = b.sources[i].type
                                   /\ a.sources[i].path = b.sources[i].path
    /\ DOMAIN a.targets = DOMAIN b.targets
    /\ \A i \in DOMAIN b.targets : /\ a.targets[i].key = b.targets[i].key
                                   /\ a.targets[i].type = b.targets[i].type
                                   /\ a.targets[i].complete = b.targets[i].complete
    /\ DOMAIN a.tasks = DOMAIN b.tasks
    /\ \A i \in DOMAIN b.tasks : /\ a.tasks[i].key = b.tasks[i].key
                                 /\ a.tasks[i].source = b.tasks[i].source
                                 /\ a.tasks[i].schedule = b.tasks[i].schedule
                                 /\ a.tasks[i].targets = b.tasks[i].targets
                                 /\ a.tasks[i].option = b.tasks[i].option
                                 /\ a.tasks[i].strategy = b.tasks[i].strategy

\* Alike settings have the same keys.
LEMMA AlikeKeys ==
    ASSUME NEW a, NEW b, Alike(a, b)
    PROVE  /\ Keys(a.sources) = Keys(b.sources) /\ (ValidKeys(a.sources) <=> ValidKeys(b.sources))
           /\ Keys(a.targets) = Keys(b.targets) /\ (ValidKeys(a.targets) <=> ValidKeys(b.targets))
           /\ Keys(a.tasks) = Keys(b.tasks) /\ (ValidKeys(a.tasks) <=> ValidKeys(b.tasks))
  <1>1. /\ a.sources \in Seq(Sources) /\ a.targets \in Seq(Targets) /\ a.tasks \in Seq(Tasks)
        /\ b.sources \in Seq(Sources) /\ b.targets \in Seq(Targets) /\ b.tasks \in Seq(Tasks)
    BY DEF Alike, Forms
  <1>2. Keys(a.sources) = Keys(b.sources) /\ (ValidKeys(a.sources) <=> ValidKeys(b.sources))
    BY <1>1, SameKeys DEF Alike
  <1>3. Keys(a.targets) = Keys(b.targets) /\ (ValidKeys(a.targets) <=> ValidKeys(b.targets))
    BY <1>1, SameKeys DEF Alike
  <1>4. Keys(a.tasks) = Keys(b.tasks) /\ (ValidKeys(a.tasks) <=> ValidKeys(b.tasks))
    BY <1>1, SameKeys DEF Alike
  <1> QED BY <1>2, <1>3, <1>4

\* Whether settings are valid depends on no secret.
LEMMA AlikeValid ==
    ASSUME NEW a, NEW b, Alike(a, b), NEW e, Validate(b, e),
           \A i \in DOMAIN a.sources : ValidURL(b.sources[i].url) => ValidURL(a.sources[i].url)
    PROVE  Validate(a, e)
  <1>1. ValidKeys(a.sources) /\ ValidKeys(a.targets) /\ ValidKeys(a.tasks)
    BY AlikeKeys DEF Validate
  <1>2. \A i \in DOMAIN a.sources : ValidSource(a.sources[i], e)
    BY DEF Alike, Validate, ValidSource
  <1>3. \A i \in DOMAIN a.targets : ValidTarget(a.targets[i])
    BY DEF Alike, Validate, ValidTarget
  <1>4. \A i \in DOMAIN a.tasks : ValidTask(a, a.tasks[i])
    BY AlikeKeys DEF Alike, Validate, ValidTask
  <1>5. /\ ValidKeys(a.schedules) /\ \A i \in DOMAIN a.schedules : ValidSchedule(a.schedules[i])
        /\ ValidKeys(a.options)
        /\ ValidKeys(a.strategies) /\ \A i \in DOMAIN a.strategies : ValidStrategy(a.strategies[i])
    BY DEF Alike, Validate
  <1> QED BY <1>1, <1>2, <1>3, <1>4, <1>5 DEF Validate

\* What is like something normal is normal, if its sources have addresses.
LEMMA AlikeNormal ==
    ASSUME NEW a, NEW b, Alike(a, b), Normal(b), \A i \in DOMAIN a.sources : a.sources[i].url # ""
    PROVE  Normal(a)
  <1>1. /\ \A i \in DOMAIN a.sources : a.sources[i].type # "" /\ a.sources[i].url # ""
    BY DEF Alike, Normal
  <1>2. \A i \in DOMAIN a.tasks : /\ i \in DOMAIN b.tasks /\ a.tasks[i].option = b.tasks[i].option
                                /\ a.tasks[i].strategy = b.tasks[i].strategy
    BY DEF Alike
  <1>3. a.options = b.options /\ a.strategies = b.strategies /\ a.limit = b.limit /\ a.days = b.days
    BY DEF Alike
  <1> QED BY <1>1, <1>2, <1>3 DEF Normal

----------------------------------------------------------------------------
(* ApplyEnv.                                                                *)

\* A variable of the environment is a secret, or it is not set.
LEMMA GetenvFits ==
    ASSUME NEW e \in Envs, NEW v
    PROVE  Getenv(e, v) \in Secrets \cup {Blank}
  BY ConfigStoreAssumption DEF Getenv

\* The environment changes the secret and the address of a source only.
LEMMA EnvSourceFits ==
    ASSUME NEW s \in Sources, NEW e \in Envs
    PROVE  /\ EnvSource(s, e) \in Sources
           /\ EnvSource(s, e).key = s.key /\ EnvSource(s, e).enabled = s.enabled
           /\ EnvSource(s, e).type = s.type
           /\ EnvSource(s, e).path = s.path
           /\ EnvSource(s, e).url \in {s.url} \cup ({e.url} \ {""})
  <1> DEFINE u == IF s.key = DefaultSource THEN OrElse(e.url, s.url) ELSE s.url
             x == OrSecret(s.secret, Getenv(e, <<"source", s.key, "api_key">>))
  <1>1. u \in Words /\ (u = s.url \/ (u = e.url /\ e.url # ""))
    <2>1. s.url \in Words /\ e.url \in Words
      BY ConfigStoreAssumption DEF Sources
    <2> QED BY <2>1 DEF OrElse
  <1>2. x \in Secrets \cup {Blank}
    <2>1. s.secret \in Secrets \cup {Blank}
      BY DEF Sources
    <2> QED BY <2>1, GetenvFits DEF OrSecret
  <1>3. EnvSource(s, e) = IF s.type # "nowledgemem_api" THEN s ELSE [s EXCEPT !.url = u, !.secret = x]
    BY DEF EnvSource
  <1> HIDE DEF u, x
  <1> QED BY <1>1, <1>2, <1>3 DEF Sources

\* The environment changes the secrets of a target only.
LEMMA EnvTargetFits ==
    ASSUME NEW t \in Targets, NEW e \in Envs
    PROVE  LET n == EnvTarget(t, e) IN
            /\ n \in Targets
            /\ n.key = t.key /\ n.enabled = t.enabled /\ n.type = t.type /\ n.complete = t.complete
  <1> DEFINE x == [s \in Slots |->
                    IF t.type \in Types /\ s \in SlotsOf[t.type]
                    THEN OrSecret(t.secrets[s], Getenv(e, <<"target", t.key, s>>)) ELSE t.secrets[s]]
  <1>1. x \in [Slots -> Secrets \cup {Blank}]
    <2>1. t.secrets \in [Slots -> Secrets \cup {Blank}]
      BY DEF Targets
    <2> QED BY <2>1, GetenvFits DEF OrSecret
  <1>2. EnvTarget(t, e) = [t EXCEPT !.secrets = x]
    BY DEF EnvTarget, Targets
  <1> HIDE DEF x
  <1> QED BY <1>1, <1>2 DEF Targets

\* The environment changes the password of a task only.
LEMMA EnvTaskFits ==
    ASSUME NEW t \in Tasks, NEW e \in Envs
    PROVE  LET n == EnvTask(t, e) IN
            /\ n \in Tasks
            /\ n.key = t.key /\ n.enabled = t.enabled /\ n.source = t.source /\ n.schedule = t.schedule
            /\ n.targets = t.targets /\ n.option = t.option /\ n.strategy = t.strategy
            /\ n.encrypted = t.encrypted
  <1> DEFINE x == OrSecret(t.secret, Getenv(e, <<"task", t.key, "password">>))
  <1>1. x \in Secrets \cup {Blank}
    <2>1. t.secret \in Secrets \cup {Blank}
      BY DEF Tasks
    <2> QED BY <2>1, GetenvFits DEF OrSecret
  <1>2. EnvTask(t, e) = IF t.encrypted THEN [t EXCEPT !.secret = x] ELSE t
    BY DEF EnvTask
  <1> HIDE DEF x
  <1> QED BY <1>1, <1>2 DEF Tasks

\* ApplyEnv on what is normal, list by list.
LEMMA ApplyEnvIs ==
    ASSUME NEW cfg \in Forms, Normal(cfg), NEW e
    PROVE  LET n == ApplyEnv(cfg, e) IN
            /\ n.sources = [i \in DOMAIN cfg.sources |-> EnvSource(cfg.sources[i], e)]
            /\ n.targets = [i \in DOMAIN cfg.targets |-> EnvTarget(cfg.targets[i], e)]
            /\ n.tasks = [i \in DOMAIN cfg.tasks |-> EnvTask(cfg.tasks[i], e)]
            /\ n.schedules = cfg.schedules /\ n.options = cfg.options /\ n.strategies = cfg.strategies
            /\ n.limit = cfg.limit /\ n.days = cfg.days
  BY NormalStays DEF ApplyEnv, Each, Forms

\* The environment leaves settings alike and normal, and its address valid
\* where both addresses are.
LEMMA ApplyEnvFits ==
    ASSUME NEW cfg \in Forms, Normal(cfg), NEW e \in Envs
    PROVE  LET n == ApplyEnv(cfg, e) IN
            /\ Alike(n, cfg) /\ Normal(n)
            /\ \A i \in DOMAIN n.sources : ValidURL(cfg.sources[i].url) /\ ValidURL(e.url) => ValidURL(n.sources[i].url)
  <1> DEFINE n == ApplyEnv(cfg, e)
  <1>1. /\ n.sources = [i \in DOMAIN cfg.sources |-> EnvSource(cfg.sources[i], e)]
        /\ n.targets = [i \in DOMAIN cfg.targets |-> EnvTarget(cfg.targets[i], e)]
        /\ n.tasks = [i \in DOMAIN cfg.tasks |-> EnvTask(cfg.tasks[i], e)]
        /\ n.schedules = cfg.schedules /\ n.options = cfg.options /\ n.strategies = cfg.strategies
        /\ n.limit = cfg.limit /\ n.days = cfg.days
    BY ApplyEnvIs
  <1>2. cfg.sources \in Seq(Sources) /\ cfg.targets \in Seq(Targets) /\ cfg.tasks \in Seq(Tasks)
    BY DEF Forms
  <1> HIDE DEF n
  <1>3. \A i \in DOMAIN cfg.sources : n.sources[i] = EnvSource(cfg.sources[i], e) /\ cfg.sources[i] \in Sources
    BY <1>1, <1>2
  <1>4. \A i \in DOMAIN cfg.targets : n.targets[i] = EnvTarget(cfg.targets[i], e) /\ cfg.targets[i] \in Targets
    BY <1>1, <1>2
  <1>5. \A i \in DOMAIN cfg.tasks : n.tasks[i] = EnvTask(cfg.tasks[i], e) /\ cfg.tasks[i] \in Tasks
    BY <1>1, <1>2
  <1>6. n.sources \in Seq(Sources) /\ DOMAIN n.sources = DOMAIN cfg.sources
    <2>1. n.sources = [i \in DOMAIN cfg.sources |-> n.sources[i]]
      BY <1>1
    <2>2. ASSUME NEW i \in DOMAIN cfg.sources
          PROVE  n.sources[i] \in Sources
      BY <1>3, EnvSourceFits
    <2> QED BY <1>2, <2>1, <2>2, ListFits
  <1>7. n.targets \in Seq(Targets) /\ DOMAIN n.targets = DOMAIN cfg.targets
    <2>1. n.targets = [i \in DOMAIN cfg.targets |-> n.targets[i]]
      BY <1>1
    <2>2. ASSUME NEW i \in DOMAIN cfg.targets
          PROVE  n.targets[i] \in Targets
      BY <1>4, EnvTargetFits
    <2> QED BY <1>2, <2>1, <2>2, ListFits
  <1>8. n.tasks \in Seq(Tasks) /\ DOMAIN n.tasks = DOMAIN cfg.tasks
    <2>1. n.tasks = [i \in DOMAIN cfg.tasks |-> n.tasks[i]]
      BY <1>1
    <2>2. ASSUME NEW i \in DOMAIN cfg.tasks
          PROVE  n.tasks[i] \in Tasks
      BY <1>5, EnvTaskFits
    <2> QED BY <1>2, <2>1, <2>2, ListFits
  <1>9. n \in Forms
    <2> USE DEF n
    <2>1. n = [cfg EXCEPT !.sources = n.sources, !.targets = n.targets, !.tasks = n.tasks]
      BY NormalStays DEF ApplyEnv, Forms
    <2> HIDE DEF n
    <2> QED BY <1>6, <1>7, <1>8, <2>1 DEF Forms
  <1>10. Alike(n, cfg)
    <2>1. ASSUME NEW i \in DOMAIN cfg.sources
          PROVE  /\ n.sources[i].key = cfg.sources[i].key
                 /\ n.sources[i].type = cfg.sources[i].type
                 /\ n.sources[i].path = cfg.sources[i].path
      <3>1. n.sources[i] = EnvSource(cfg.sources[i], e) /\ cfg.sources[i] \in Sources
        BY <1>3
      <3> QED BY <3>1, EnvSourceFits
    <2>2. \A i \in DOMAIN cfg.targets : /\ n.targets[i].key = cfg.targets[i].key
                                        /\ n.targets[i].type = cfg.targets[i].type
                                        /\ n.targets[i].complete = cfg.targets[i].complete
      BY <1>4, EnvTargetFits
    <2>3. \A i \in DOMAIN cfg.tasks : /\ n.tasks[i].key = cfg.tasks[i].key
                                      /\ n.tasks[i].source = cfg.tasks[i].source
                                      /\ n.tasks[i].schedule = cfg.tasks[i].schedule
                                      /\ n.tasks[i].targets = cfg.tasks[i].targets
                                      /\ n.tasks[i].option = cfg.tasks[i].option
                                      /\ n.tasks[i].strategy = cfg.tasks[i].strategy
      BY <1>5, EnvTaskFits
    <2> QED BY <1>1, <1>6, <1>7, <1>8, <1>9, <2>1, <2>2, <2>3 DEF Alike
  <1>11. ASSUME NEW i \in DOMAIN cfg.sources
         PROVE  n.sources[i].url # cfg.sources[i].url => n.sources[i].url = e.url /\ e.url # ""
    <2>1. n.sources[i] = EnvSource(cfg.sources[i], e) /\ cfg.sources[i] \in Sources
      BY <1>3
    <2>2. EnvSource(cfg.sources[i], e).url \in {cfg.sources[i].url} \cup ({e.url} \ {""})
      BY <2>1, EnvSourceFits
    <2> QED BY <2>1, <2>2
  <1>12. \A i \in DOMAIN n.sources : n.sources[i].url # ""
    BY <1>6, <1>11 DEF Normal
  <1>13. Normal(n)
    BY <1>10, <1>12, AlikeNormal
  <1>14. \A i \in DOMAIN n.sources : ValidURL(cfg.sources[i].url) /\ ValidURL(e.url) => ValidURL(n.sources[i].url)
    BY <1>6, <1>11
  <1> QED BY <1>10, <1>13, <1>14 DEF n

----------------------------------------------------------------------------
(* SwitchedOff and Redacted.                                                *)

\* Disabling a task leaves settings normal.
LEMMA SwitchedOffFits ==
    ASSUME NEW cfg \in Forms, Normal(cfg), NEW key
    PROVE  SwitchedOff(cfg, key) \in Forms /\ Normal(SwitchedOff(cfg, key))
  <1> DEFINE n == SwitchedOff(cfg, key)
             off(t) == [t EXCEPT !.enabled = @ /\ t.key # key]
  <1>1. /\ n.tasks = [i \in DOMAIN cfg.tasks |-> off(cfg.tasks[i])]
        /\ n.sources = cfg.sources /\ n.targets = cfg.targets
        /\ n.schedules = cfg.schedules /\ n.options = cfg.options /\ n.strategies = cfg.strategies
        /\ n.limit = cfg.limit /\ n.days = cfg.days
    BY DEF SwitchedOff, Each, Forms
  <1>2. ASSUME NEW t \in Tasks
        PROVE  /\ off(t) \in Tasks
               /\ off(t).key = t.key /\ off(t).source = t.source /\ off(t).schedule = t.schedule
               /\ off(t).targets = t.targets /\ off(t).option = t.option /\ off(t).strategy = t.strategy
    BY DEF Tasks
  <1>3. n = [cfg EXCEPT !.tasks = n.tasks]
    BY <1>1 DEF SwitchedOff
  <1> HIDE DEF n, off
  <1>4. ASSUME NEW i \in DOMAIN cfg.tasks
        PROVE  n.tasks[i] = off(cfg.tasks[i]) /\ cfg.tasks[i] \in Tasks
    BY <1>1 DEF Forms
  <1>5. n.tasks \in Seq(Tasks) /\ DOMAIN n.tasks = DOMAIN cfg.tasks
    <2>1. n.tasks = [i \in DOMAIN cfg.tasks |-> n.tasks[i]] /\ cfg.tasks \in Seq(Tasks)
      BY <1>1 DEF Forms
    <2>2. \A i \in DOMAIN cfg.tasks : n.tasks[i] \in Tasks
      BY <1>2, <1>4
    <2> QED BY <2>1, <2>2, ListFits
  <1>6. n \in Forms
    BY <1>3, <1>5 DEF Forms
  <1>7. ASSUME NEW i \in DOMAIN cfg.tasks
        PROVE  /\ n.tasks[i].key = cfg.tasks[i].key
               /\ n.tasks[i].source = cfg.tasks[i].source
               /\ n.tasks[i].schedule = cfg.tasks[i].schedule
               /\ n.tasks[i].targets = cfg.tasks[i].targets
               /\ n.tasks[i].option = cfg.tasks[i].option
               /\ n.tasks[i].strategy = cfg.tasks[i].strategy
    BY <1>2, <1>4
  <1>8. Alike(n, cfg)
    BY <1>1, <1>5, <1>6, <1>7 DEF Alike
  <1>9. Normal(n)
    <2>1. \A i \in DOMAIN n.sources : n.sources[i].url # ""
      BY <1>1 DEF Normal
    <2> QED BY <1>8, <2>1, AlikeNormal
  <1> QED BY <1>6, <1>9 DEF n

\* What is shown is the settings but for the secrets, which are blank.
LEMMA RedactedFits ==
    ASSUME NEW cfg \in Forms
    PROVE  LET n == Redacted(cfg) IN
            /\ n \in Forms
            /\ n.schedules = cfg.schedules /\ n.options = cfg.options /\ n.strategies = cfg.strategies
            /\ n.limit = cfg.limit /\ n.days = cfg.days
            /\ DOMAIN n.sources = DOMAIN cfg.sources
            /\ DOMAIN n.targets = DOMAIN cfg.targets
            /\ DOMAIN n.tasks = DOMAIN cfg.tasks
            /\ \A i \in DOMAIN cfg.sources :
                LET a == n.sources[i]
                    s == cfg.sources[i]
                IN  /\ a.key = s.key /\ a.enabled = s.enabled /\ a.type = s.type
                    /\ a.url = s.url /\ a.path = s.path /\ a.secret = Blank
            /\ \A i \in DOMAIN cfg.targets :
                LET a == n.targets[i]
                    t == cfg.targets[i]
                IN  /\ a.key = t.key /\ a.enabled = t.enabled /\ a.type = t.type
                    /\ a.complete = t.complete /\ a.secrets = NoSecrets
            /\ \A i \in DOMAIN cfg.tasks :
                LET a == n.tasks[i]
                    t == cfg.tasks[i]
                IN  /\ a.key = t.key /\ a.enabled = t.enabled /\ a.source = t.source
                    /\ a.schedule = t.schedule /\ a.targets = t.targets /\ a.option = t.option
                    /\ a.strategy = t.strategy /\ a.encrypted = t.encrypted /\ a.secret = Blank
  <1> DEFINE n == Redacted(cfg)
  <1>1. /\ n.sources = [i \in DOMAIN cfg.sources |-> [cfg.sources[i] EXCEPT !.secret = Blank]]
        /\ n.targets = [i \in DOMAIN cfg.targets |-> [cfg.targets[i] EXCEPT !.secrets = NoSecrets]]
        /\ n.tasks = [i \in DOMAIN cfg.tasks |-> [cfg.tasks[i] EXCEPT !.secret = Blank]]
        /\ n.schedules = cfg.schedules /\ n.options = cfg.options /\ n.strategies = cfg.strategies
        /\ n.limit = cfg.limit /\ n.days = cfg.days
    BY DEF Redacted, Each, Forms
  <1>2. n = [cfg EXCEPT !.sources = n.sources, !.targets = n.targets, !.tasks = n.tasks]
    BY <1>1 DEF Redacted, Each
  <1> HIDE DEF n
  <1>3. cfg.sources \in Seq(Sources) /\ cfg.targets \in Seq(Targets) /\ cfg.tasks \in Seq(Tasks)
    BY DEF Forms
  <1>4. ASSUME NEW i \in DOMAIN cfg.sources
        PROVE  LET a == n.sources[i]
                   s == cfg.sources[i]
               IN  /\ a \in Sources
                   /\ a.key = s.key /\ a.enabled = s.enabled /\ a.type = s.type
                   /\ a.url = s.url /\ a.path = s.path /\ a.secret = Blank
    <2>1. n.sources[i] = [cfg.sources[i] EXCEPT !.secret = Blank] /\ cfg.sources[i] \in Sources
      BY <1>1, <1>3
    <2> QED BY <2>1 DEF Sources
  <1>5. ASSUME NEW i \in DOMAIN cfg.targets
        PROVE  LET a == n.targets[i]
                   t == cfg.targets[i]
               IN  /\ a \in Targets
                   /\ a.key = t.key /\ a.enabled = t.enabled /\ a.type = t.type
                   /\ a.complete = t.complete /\ a.secrets = NoSecrets
    <2>1. n.targets[i] = [cfg.targets[i] EXCEPT !.secrets = NoSecrets] /\ cfg.targets[i] \in Targets
      BY <1>1, <1>3
    <2> QED BY <2>1 DEF Targets, NoSecrets
  <1>6. ASSUME NEW i \in DOMAIN cfg.tasks
        PROVE  LET a == n.tasks[i]
                   t == cfg.tasks[i]
               IN  /\ a \in Tasks
                   /\ a.key = t.key /\ a.enabled = t.enabled /\ a.source = t.source
                   /\ a.schedule = t.schedule /\ a.targets = t.targets /\ a.option = t.option
                   /\ a.strategy = t.strategy /\ a.encrypted = t.encrypted /\ a.secret = Blank
    <2>1. n.tasks[i] = [cfg.tasks[i] EXCEPT !.secret = Blank] /\ cfg.tasks[i] \in Tasks
      BY <1>1, <1>3
    <2> QED BY <2>1 DEF Tasks
  <1>7. n.sources \in Seq(Sources) /\ DOMAIN n.sources = DOMAIN cfg.sources
    <2>1. n.sources = [i \in DOMAIN cfg.sources |-> n.sources[i]]
      BY <1>1
    <2> QED BY <1>3, <1>4, <2>1, ListFits
  <1>8. n.targets \in Seq(Targets) /\ DOMAIN n.targets = DOMAIN cfg.targets
    <2>1. n.targets = [i \in DOMAIN cfg.targets |-> n.targets[i]]
      BY <1>1
    <2> QED BY <1>3, <1>5, <2>1, ListFits
  <1>9. n.tasks \in Seq(Tasks) /\ DOMAIN n.tasks = DOMAIN cfg.tasks
    <2>1. n.tasks = [i \in DOMAIN cfg.tasks |-> n.tasks[i]]
      BY <1>1
    <2> QED BY <1>3, <1>6, <2>1, ListFits
  <1>10. n \in Forms
    BY <1>2, <1>7, <1>8, <1>9 DEF Forms
  <1> QED BY <1>1, <1>4, <1>5, <1>6, <1>7, <1>8, <1>9, <1>10 DEF n

\* What is shown has the keys of the settings.
LEMMA RedactedAlike ==
    ASSUME NEW cfg \in Forms
    PROVE  Alike(Redacted(cfg), cfg)
  BY RedactedFits DEF Alike

\* Nothing is shown of a secret.
LEMMA RedactedShowsNone ==
    ASSUME NEW cfg \in Forms, Kept(cfg), NEW f \in Fields(Redacted(cfg))
    PROVE  SecretAt(Redacted(cfg), f) = Blank
  <1> DEFINE n == Redacted(cfg)
  <1>1. /\ n \in Forms
        /\ \A i \in DOMAIN n.sources : n.sources[i].secret = Blank
        /\ \A i \in DOMAIN n.targets : n.targets[i].secrets = NoSecrets
        /\ \A i \in DOMAIN n.tasks : n.tasks[i].secret = Blank
    BY RedactedFits
  <1>2. ValidKeys(n.sources) /\ ValidKeys(n.targets) /\ ValidKeys(n.tasks)
    BY RedactedAlike, AlikeKeys DEF Kept
  <1>3. f \in Fields(n)
    OBVIOUS
  <1> HIDE DEF n
  <1>4. n.sources \in Seq(Sources) /\ n.targets \in Seq(Targets) /\ n.tasks \in Seq(Tasks)
    BY <1>1 DEF Forms
  <1>5. CASE \E key \in Keys(n.sources) : f = SourceField(key)
    <2>1. PICK key \in Keys(n.sources) : f = SourceField(key)
      BY <1>5
    <2>2. Entry(n.sources, key).secret = Blank
      BY <1>1, <1>2, <1>4, EntryOf
    <2> QED BY <2>1, <2>2, SecretAtIs DEF n
  <1>6. CASE \E key \in Keys(n.targets), s \in Slots : f = TargetField(key, s)
    <2>1. PICK key \in Keys(n.targets), s \in Slots : f = TargetField(key, s)
      BY <1>6
    <2>2. Entry(n.targets, key).secrets = NoSecrets
      BY <1>1, <1>2, <1>4, EntryOf
    <2> QED BY <2>1, <2>2, SecretAtIs DEF n, NoSecrets
  <1>7. CASE \E key \in Keys(n.tasks) : f = TaskField(key)
    <2>1. PICK key \in Keys(n.tasks) : f = TaskField(key)
      BY <1>7
    <2>2. Entry(n.tasks, key).secret = Blank
      BY <1>1, <1>2, <1>4, EntryOf
    <2> QED BY <2>1, <2>2, SecretAtIs DEF n
  <1> QED BY <1>3, <1>5, <1>6, <1>7, FieldKinds

----------------------------------------------------------------------------
(* The invariant.                                                           *)

\* The row was valid where it was saved, and the history knows the secret of
\* each of its fields, unless a save was out of date.
RowFits ==
    IF row = NoRow THEN held = Nothing
    ELSE /\ row \in Forms /\ Normal(row) /\ Validate(row, savedIn)
         /\ ~raced => DOMAIN held = Fields(row) /\ \A f \in Fields(row) : SecretAt(row, f) = held[f]

\* What a request is about to write is valid in e, and it is what was typed
\* merged with the row there is, unless the row has changed since it was read.
FitsIn(r, there, e) ==
    /\ r \in Call /\ Normal(r.cfg)
    /\ r.pc \in {"find", "create", "update"} =>
        /\ Validate(r.cfg, e)
        /\ ~r.stale => r.cfg = IF there = NoRow THEN r.typed ELSE MergeUserSecrets(r.typed, there)

CallsFit == call \in [Callers -> Call] /\ \A c \in Callers : FitsIn(call[c], row, env)

ShownFit ==
    /\ DOMAIN shown = Callers
    /\ \A c \in Callers :
        shown[c] # NoRow => \A f \in Fields(shown[c]) : SecretAt(shown[c], f) = Blank

ProcessFits ==
    /\ sys \in BOOLEAN /\ up \in BOOLEAN /\ raced \in BOOLEAN
    /\ env \in Envs /\ savedIn \in Envs /\ saves \in 0..MaxSaves /\ restarts \in 0..MaxRestarts
    /\ up => sys /\ env.valid

StoreInv == ProcessFits /\ RowFits /\ CallsFit /\ ShownFit

----------------------------------------------------------------------------
(* Requests, and what they return.                                          *)

\* A row is found if there is one.
LEMMA FoundIs == Found <=> row # NoRow
  BY DEF Found, Rows

\* The defaults are normal.
LEMMA DefaultNormal == Normal(Default)
  <1> DEFINE source == [key |-> DefaultSource, enabled |-> TRUE, type |-> "nowledgemem_api",
                        url |-> "local", path |-> "", secret |-> Blank]
             task   == [key |-> "default", enabled |-> FALSE, source |-> DefaultSource,
                        schedule |-> "daily", targets |-> {}, option |-> "portable",
                        strategy |-> "no cleanup", encrypted |-> FALSE, secret |-> Blank]
  <1>1. /\ source.type = "nowledgemem_api" /\ source.url = "local"
        /\ task.option = "portable" /\ task.strategy = "no cleanup"
    OBVIOUS
  <1>2. \A f \in Flags : DefaultOption.export[f] # ""
    BY DEF DefaultOption, DefaultExport
  <1>3. DefaultStrategy.mode # ""
    BY DEF DefaultStrategy
  <1>4. /\ Default.sources = <<source>> /\ Default.tasks = <<task>>
        /\ Default.options = <<DefaultOption>> /\ Default.strategies = <<DefaultStrategy>>
        /\ Default.limit = 100 /\ Default.days = 180
    BY DEF Default
  <1> HIDE DEF source, task
  <1>5. ASSUME NEW x, NEW list, list = <<x>>
        PROVE  list # <<>> /\ DOMAIN list = {1} /\ list[1] = x
    BY <1>5
  <1>6. /\ DOMAIN Default.sources = {1} /\ Default.sources[1] = source
        /\ DOMAIN Default.tasks = {1} /\ Default.tasks[1] = task
        /\ DOMAIN Default.options = {1} /\ Default.options[1] = DefaultOption
        /\ DOMAIN Default.strategies = {1} /\ Default.strategies[1] = DefaultStrategy
        /\ Default.options # <<>> /\ Default.strategies # <<>>
    BY <1>4, <1>5
  <1>8. \A i \in DOMAIN Default.sources : Default.sources[i].type # "" /\ Default.sources[i].url # ""
    BY <1>1, <1>6
  <1>9. \A i \in DOMAIN Default.strategies : Default.strategies[i].mode # ""
    BY <1>3, <1>6
  <1>10. \A i \in DOMAIN Default.tasks : Default.tasks[i].option # "" /\ Default.tasks[i].strategy # ""
    BY <1>1, <1>6
  <1>11. Default.limit # 0 /\ Default.days # 0
    BY <1>4
  <1>7. \A i \in DOMAIN Default.options, f \in Flags : Default.options[i].export[f] # ""
    BY <1>2, <1>6
  <1> QED BY <1>6, <1>7, <1>8, <1>9, <1>10, <1>11 DEF Normal

\* A request that has nothing to write yet fits any row.
LEMMA EarlyFits ==
    ASSUME NEW r \in Call, Normal(r.cfg), r.pc \notin {"find", "create", "update"}, NEW there, NEW e
    PROVE  FitsIn(r, there, e)
  BY DEF FitsIn

\* A caller that asks for nothing fits any row.
LEMMA IdleFits == Idle \in Call /\ \A there, e : FitsIn(Idle, there, e)
  <1>1. Idle \in Call /\ Idle.pc = "idle" /\ Idle.cfg = Default
    BY DefaultFits, SettingsAssumption DEF Idle, Call, Pcs, Goals
  <1> QED BY <1>1, DefaultNormal, EarlyFits

\* One request goes on, from calls that fit what there is then.
LEMMA CallsGoOn ==
    ASSUME NEW c \in Callers, NEW calls \in [Callers -> Call],
           \A d \in Callers \ {c} : FitsIn(calls[d], row', env'),
           NEW r, FitsIn(r, row', env'), call' = [calls EXCEPT ![c] = r]
    PROVE  CallsFit'
  <1>1. r \in Call
    BY DEF FitsIn
  <1>2. call' \in [Callers -> Call]
    BY <1>1
  <1>3. ASSUME NEW d \in Callers
        PROVE  FitsIn(call'[d], row', env')
    <2>1. call'[d] = IF d = c THEN r ELSE calls[d]
      OBVIOUS
    <2> QED BY <2>1
  <1> QED BY <1>2, <1>3 DEF CallsFit

\* One request goes on while row and environment stay.
LEMMA CallsContinue ==
    ASSUME StoreInv, UNCHANGED <<row, env>>, NEW c \in Callers, NEW r, FitsIn(r, row, env), Goes(c, r)
    PROVE  CallsFit'
  BY CallsGoOn DEF StoreInv, CallsFit, Goes

\* LoadUser returns settings that show no secret, or has some to save.
LEMMA ReturnFits ==
    ASSUME StoreInv, NEW c \in Callers, NEW cfg \in Forms, Normal(cfg),
           NEW calls \in [Callers -> Call], \A d \in Callers \ {c} : FitsIn(calls[d], row', env'),
           Return(c, cfg, calls)
    PROVE  CallsFit' /\ ShownFit'
  <1>2. ASSUME UNCHANGED shown
        PROVE  ShownFit'
    BY <1>2 DEF StoreInv, ShownFit
  <1> DEFINE done == call' = [calls EXCEPT ![c] = Idle]
  <1>3. done => CallsFit'
    BY CallsGoOn, IdleFits
  <1> HIDE DEF done
  <1>4. CASE done /\ UNCHANGED shown
    BY <1>2, <1>3, <1>4
  <1>5. CASE Validate(cfg, env) /\ done /\ shown' = [shown EXCEPT ![c] = Redacted(cfg)]
    <2>1. Kept(cfg)
      BY <1>5 DEF Kept, Validate
    <2>2. \A f \in Fields(Redacted(cfg)) : SecretAt(Redacted(cfg), f) = Blank
      BY <2>1, RedactedShowsNone
    <2>3. ShownFit'
      BY <1>5, <2>2 DEF StoreInv, ShownFit
    <2> QED BY <1>3, <1>5, <2>3
  <1>6. CASE /\ call' = [calls EXCEPT ![c].pc = "merge", ![c].default = FALSE,
                                      ![c].cfg = SwitchedOff(cfg, call[c].task)]
             /\ UNCHANGED shown
    <2> DEFINE off == SwitchedOff(cfg, call[c].task)
               r   == [calls[c] EXCEPT !.pc = "merge", !.default = FALSE, !.cfg = off]
    <2>1. off \in Forms /\ Normal(off)
      BY SwitchedOffFits
    <2> HIDE DEF off
    <2>2. r \in Call /\ r.pc = "merge" /\ r.cfg = off
      BY <2>1 DEF Call, Pcs
    <2>3. call' = [calls EXCEPT ![c] = r]
      BY <1>6 DEF off
    <2> HIDE DEF r
    <2>4. CallsFit'
      BY <2>1, <2>2, <2>3, EarlyFits, CallsGoOn
    <2> QED BY <1>2, <1>6, <2>4
  <1> QED BY <1>4, <1>5, <1>6 DEF Return, done

----------------------------------------------------------------------------
(* The steps.                                                               *)

\* StoreInv holds at first.
LEMMA InitStoreInv == Init => StoreInv
  <1> SUFFICES ASSUME Init PROVE StoreInv
    OBVIOUS
  <1>1. ProcessFits
    <2>1. 0 \in 0..MaxSaves /\ 0 \in 0..MaxRestarts
      BY ConfigStoreAssumption
    <2> QED BY <2>1 DEF Init, ProcessFits
  <1>2. RowFits
    BY DEF Init, RowFits
  <1>3. CallsFit
    BY IdleFits DEF Init, CallsFit
  <1>4. ShownFit
    BY DEF Init, ShownFit
  <1> QED BY <1>1, <1>2, <1>3, <1>4 DEF StoreInv

\* Of the row and what is known of its secrets nothing changes.
LEMMA RowStays ==
    ASSUME StoreInv, UNCHANGED <<row, History>>
    PROVE  RowFits'
  BY DEF StoreInv, RowFits, History

\* Starting keeps StoreInv: the program serves only in a valid environment.
LEMMA StartKeeps ==
    ASSUME StoreInv, Start
    PROVE  StoreInv'
  <1>1. ProcessFits'
    BY ConfigStoreAssumption
       DEF StoreInv, ProcessFits, Start, LoadSystem, SaveSystem, SystemFound, CreateSystem, History
  <1>2. RowFits' /\ ShownFit'
    BY RowStays DEF Start, StoreInv, ShownFit
  <1>3. CallsFit'
    BY DEF StoreInv, CallsFit, Start
  <1> QED BY <1>1, <1>2, <1>3 DEF StoreInv

\* Restarting keeps StoreInv: no request survives, the row does.
LEMMA RestartKeeps ==
    ASSUME StoreInv, NEW e \in Envs, Restart(e)
    PROVE  StoreInv'
  <1>1. ProcessFits'
    <2>1. restarts' \in 0..MaxRestarts
      BY ConfigStoreAssumption DEF StoreInv, ProcessFits, Restart
    <2> QED BY <2>1 DEF StoreInv, ProcessFits, Restart, History
  <1>2. RowFits' /\ ShownFit'
    BY RowStays DEF Restart, StoreInv, ShownFit
  <1>3. CallsFit'
    <2>1. call' = [c \in Callers |-> Idle]
      BY DEF Restart
    <2>2. \A c \in Callers : call'[c] = Idle
      BY <2>1
    <2> QED BY <2>1, <2>2, IdleFits DEF CallsFit
  <1> QED BY <1>1, <1>2, <1>3 DEF StoreInv

\* Beginning a request that has nothing to write yet keeps StoreInv.
LEMMA BeginKeeps ==
    ASSUME StoreInv, NEW c \in Callers, NEW r \in Call, Normal(r.cfg),
           r.pc \notin {"find", "create", "update"}, Begin(c, r)
    PROVE  StoreInv'
  <1>1. ProcessFits'
    BY ConfigStoreAssumption DEF StoreInv, ProcessFits, Begin, History
  <1>2. RowFits' /\ ShownFit'
    BY RowStays DEF Begin, StoreInv, ShownFit
  <1>3. CallsFit'
    BY EarlyFits, CallsContinue DEF Begin
  <1> QED BY <1>1, <1>2, <1>3 DEF StoreInv

\* GET, PUT and disableTask begin with settings that are normal.
LEMMA RequestKeeps ==
    ASSUME StoreInv, NEW c \in Callers, Get(c) \/ Put(c) \/ Disable(c)
    PROVE  StoreInv'
  <1>1. CASE Get(c)
    <2> DEFINE r == [Idle EXCEPT !.pc = "load"]
    <2>1. r \in Call /\ r.pc = "load" /\ r.cfg = Default
      BY IdleFits DEF Idle, Call, Pcs
    <2>2. Begin(c, r)
      BY <1>1 DEF Get
    <2> HIDE DEF r
    <2> QED BY <2>1, <2>2, DefaultNormal, BeginKeeps
  <1>2. CASE Put(c)
    <2>1. PICK body \in Forms :
            Begin(c, [Idle EXCEPT !.pc = "merge", !.goal = "put", !.cfg = Normalize(body)])
      BY <1>2 DEF Put
    <2> DEFINE n == Normalize(body)
               r == [Idle EXCEPT !.pc = "merge", !.goal = "put", !.cfg = n]
    <2>2. n \in Forms /\ Normal(n)
      BY NormalizeFits, NormalizeIsNormal
    <2>3. Begin(c, r)
      BY <2>1
    <2> HIDE DEF n
    <2>4. r \in Call /\ r.pc = "merge" /\ r.cfg = n
      BY <2>2, IdleFits DEF Idle, Call, Pcs, Goals
    <2> HIDE DEF r
    <2> QED BY <2>2, <2>3, <2>4, BeginKeeps
  <1>3. CASE Disable(c)
    <2>1. PICK t \in Keys(row.tasks) :
            Begin(c, [Idle EXCEPT !.pc = "load", !.goal = "disable", !.task = t])
      BY <1>3 DEF Disable
    <2> DEFINE r == [Idle EXCEPT !.pc = "load", !.goal = "disable", !.task = t]
    <2>2. t \in Words
      <3>1. row \in Forms
        BY <1>3, FoundIs DEF Disable, StoreInv, RowFits
      <3>2. PICK i \in DOMAIN row.tasks : t = row.tasks[i].key
        BY DEF Keys
      <3>3. row.tasks[i] \in Tasks
        BY <3>1 DEF Forms
      <3> QED BY <3>2, <3>3 DEF Tasks
    <2>3. r \in Call /\ r.pc = "load" /\ r.cfg = Default
      BY <2>2, IdleFits DEF Idle, Call, Pcs, Goals
    <2>4. Begin(c, r)
      BY <2>1
    <2> HIDE DEF r
    <2> QED BY <2>3, <2>4, DefaultNormal, BeginKeeps
  <1> QED BY <1>1, <1>2, <1>3

\* LoadUser keeps StoreInv: it returns settings or has the defaults to save.
LEMMA LoadUserKeeps ==
    ASSUME StoreInv, NEW c \in Callers, LoadUser(c)
    PROVE  StoreInv'
  <1>1. ProcessFits'
    BY DEF StoreInv, ProcessFits, LoadUser, History
  <1>2. RowFits'
    BY RowStays DEF LoadUser
  <1>3. CASE Found /\ Return(c, ApplyEnv(row, env), call)
    <2> DEFINE cfg == ApplyEnv(row, env)
    <2>1. row \in Forms /\ Normal(row) /\ env \in Envs
      BY <1>3, FoundIs DEF StoreInv, RowFits, ProcessFits
    <2>2. cfg \in Forms /\ Normal(cfg)
      BY <2>1, ApplyEnvFits DEF Alike
    <2>3. \A d \in Callers \ {c} : FitsIn(call[d], row', env')
      BY DEF StoreInv, CallsFit, LoadUser
    <2>4. call \in [Callers -> Call]
      BY DEF StoreInv, CallsFit
    <2>5. Return(c, cfg, call)
      BY <1>3
    <2> HIDE DEF cfg
    <2>6. CallsFit' /\ ShownFit'
      BY <2>2, <2>3, <2>4, <2>5, ReturnFits
    <2> QED BY <1>1, <1>2, <2>6 DEF StoreInv
  <1>4. CASE /\ Goes(c, [call[c] EXCEPT !.pc = "merge", !.default = TRUE, !.cfg = Default])
             /\ UNCHANGED shown
    <2> DEFINE r == [call[c] EXCEPT !.pc = "merge", !.default = TRUE, !.cfg = Default]
    <2>1. r \in Call /\ r.pc = "merge" /\ r.cfg = Default
      BY DefaultFits DEF StoreInv, CallsFit, Call, Pcs
    <2>2. Goes(c, r)
      BY <1>4
    <2> HIDE DEF r
    <2>3. CallsFit'
      BY <2>1, <2>2, DefaultNormal, EarlyFits, CallsContinue DEF LoadUser
    <2> QED BY <1>1, <1>2, <1>4, <2>3 DEF StoreInv, ShownFit
  <1> QED BY <1>3, <1>4 DEF LoadUser

\* Merging keeps StoreInv: what goes on was validated and merged with the row.
LEMMA MergeKeeps ==
    ASSUME StoreInv, NEW c \in Callers, Merge(c)
    PROVE  StoreInv'
  <1>1. ProcessFits'
    BY DEF StoreInv, ProcessFits, Merge, History
  <1>2. RowFits' /\ ShownFit'
    BY RowStays DEF Merge, StoreInv, ShownFit
  <1>3. CASE Acceptable(Merged(call[c].cfg)) /\
             Goes(c, [call[c] EXCEPT !.pc = "find", !.cfg = Merged(call[c].cfg), !.typed = call[c].cfg])
    <2> DEFINE typed == call[c].cfg
               cfg   == Merged(typed)
               r     == [call[c] EXCEPT !.pc = "find", !.cfg = cfg, !.typed = typed]
    <2>1. typed \in Forms /\ Normal(typed) /\ call[c] \in Call
      BY DEF StoreInv, CallsFit, FitsIn, Call
    <2>2. cfg = IF row = NoRow THEN typed ELSE MergeUserSecrets(typed, row)
      BY FoundIs DEF Merged
    <2>3. row # NoRow => Kept(row)
      BY DEF StoreInv, RowFits, Kept, Validate
    <2>4. Goes(c, r) /\ Validate(cfg, env)
      BY <1>3 DEF Acceptable
    <2> HIDE DEF cfg, typed
    <2>5. cfg \in Forms /\ Normal(cfg)
      BY <2>1, <2>2, <2>3, MergeFits, MergeKeepsNormal
    <2>6. r \in Call /\ r.cfg = cfg /\ r.typed = typed
      BY <2>1, <2>5 DEF Call, Pcs
    <2> HIDE DEF r
    <2>7. FitsIn(r, row, env)
      BY <2>2, <2>4, <2>5, <2>6 DEF FitsIn
    <2>8. CallsFit'
      BY <2>4, <2>7, CallsContinue DEF Merge
    <2> QED BY <1>1, <1>2, <2>8 DEF StoreInv
  <1>4. CASE Answered(c)
    <2>1. CallsFit'
      BY <1>4, IdleFits, CallsContinue DEF Merge, Answered
    <2> QED BY <1>1, <1>2, <2>1 DEF StoreInv
  <1> QED BY <1>3, <1>4 DEF Merge

\* Looking for the row again keeps StoreInv.
LEMMA FindKeeps ==
    ASSUME StoreInv, NEW c \in Callers, Find(c)
    PROVE  StoreInv'
  <1>1. ProcessFits'
    BY DEF StoreInv, ProcessFits, Find, History
  <1>2. RowFits' /\ ShownFit'
    BY RowStays DEF Find, StoreInv, ShownFit
  <1>3. CallsFit'
    <2> DEFINE p == IF Found THEN "update" ELSE "create"
               r == [call[c] EXCEPT !.pc = p]
    <2>1. call[c] \in Call /\ FitsIn(call[c], row, env) /\ call[c].pc = "find"
      BY DEF StoreInv, CallsFit, Find, At
    <2>2. Goes(c, r)
      BY DEF Find
    <2>3. p \in {"update", "create"}
      OBVIOUS
    <2> HIDE DEF p
    <2>4. /\ r \in Call /\ r.cfg = call[c].cfg /\ r.typed = call[c].typed /\ r.stale = call[c].stale
          /\ r.pc = p
      BY <2>1, <2>3 DEF Call, Pcs
    <2> HIDE DEF r
    <2>5. FitsIn(r, row, env)
      BY <2>1, <2>3, <2>4 DEF FitsIn
    <2> QED BY <2>2, <2>5, CallsContinue DEF Find
  <1> QED BY <1>1, <1>2, <1>3 DEF StoreInv

\* A create that fails keeps StoreInv.
LEMMA CreateFailsKeeps ==
    ASSUME StoreInv, NEW c \in Callers, CreateFails(c)
    PROVE  StoreInv'
  <1>1. ProcessFits'
    BY DEF StoreInv, ProcessFits, CreateFails, History
  <1>2. RowFits' /\ ShownFit'
    BY RowStays DEF CreateFails, StoreInv, ShownFit
  <1>3. CallsFit'
    BY IdleFits, CallsContinue DEF CreateFails, Answered
  <1> QED BY <1>1, <1>2, <1>3 DEF StoreInv

\* What the history knows after a save is what is in the row.
LEMMA SavedIsGiven ==
    ASSUME StoreInv, NEW c \in Callers, call[c].pc \in {"create", "update"}, ~raced, ~call[c].stale
    PROVE  LET cfg == call[c].cfg
               given == Given(call[c].typed)
           IN  DOMAIN given = Fields(cfg) /\ \A f \in Fields(cfg) : SecretAt(cfg, f) = given[f]
  <1> DEFINE cfg   == call[c].cfg
             typed == call[c].typed
             given == Given(typed)
  <1>1. /\ typed \in Forms /\ cfg \in Forms /\ Validate(cfg, env)
        /\ cfg = IF row = NoRow THEN typed ELSE MergeUserSecrets(typed, row)
    BY DEF StoreInv, CallsFit, FitsIn, Call
  <1>2. given = [f \in Fields(typed) |->
                    IF SecretAt(typed, f) = Blank /\ Used(typed, f) /\ f \in DOMAIN held THEN held[f]
                    ELSE SecretAt(typed, f)]
    BY DEF Given
  <1> HIDE DEF cfg, typed, given
  <1>3. CASE row = NoRow
    <2>1. DOMAIN held = {}
      BY <1>3 DEF StoreInv, RowFits, Nothing
    <2>2. given = [f \in Fields(typed) |-> SecretAt(typed, f)]
      BY <1>2, <2>1
    <2> QED BY <1>1, <1>3, <2>2 DEF cfg, typed, given
  <1>4. CASE row # NoRow
    <2>1. Kept(row) /\ DOMAIN held = Fields(row) /\ \A f \in Fields(row) : SecretAt(row, f) = held[f]
      BY <1>4 DEF StoreInv, RowFits, Kept, Validate
    <2>2. cfg = MergeUserSecrets(typed, row)
      BY <1>1, <1>4
    <2>3. Fields(cfg) = Fields(typed) /\ Kept(typed)
      <3>1. ValidKeys(cfg.sources) /\ ValidKeys(cfg.targets) /\ ValidKeys(cfg.tasks)
        BY <1>1 DEF Validate
      <3> QED BY <1>1, <2>1, <2>2, <3>1, MergeKeepsKeys DEF Kept
    <2>4. ASSUME NEW i \in DOMAIN typed.targets
          PROVE  typed.targets[i].type \in Types
      <3>1. cfg.targets[i].type = typed.targets[i].type
        BY <1>1, <2>1, <2>2, MergedTarget
      <3>2. i \in DOMAIN cfg.targets
        BY <1>1, <2>1, <2>2, MergeFits
      <3> QED BY <1>1, <3>1, <3>2 DEF Validate, ValidTarget
    <2>5. ASSUME NEW f \in Fields(typed)
          PROVE  SecretAt(cfg, f) = given[f]
      <3>1. SecretAt(cfg, f) =
              IF SecretAt(typed, f) = Blank /\ Used(typed, f) /\ f \in Fields(row) THEN SecretAt(row, f)
              ELSE SecretAt(typed, f)
        BY <1>1, <2>1, <2>2, <2>3, <2>4, MergeFinds
      <3> QED BY <1>2, <2>1, <3>1
    <2>6. DOMAIN given = Fields(typed)
      BY <1>2
    <2> QED BY <2>3, <2>5, <2>6 DEF cfg, typed, given
  <1> QED BY <1>3, <1>4

\* Writing keeps StoreInv: the row is what the history knows, and every other
\* request that relies on the old row is marked.
LEMMA WriteKeeps ==
    ASSUME StoreInv, NEW c \in Callers, Write(c)
    PROVE  StoreInv'
  <1>1. /\ call[c].pc \in {"create", "update"} /\ row' = call[c].cfg
        /\ held' = Given(call[c].typed) /\ savedIn' = env /\ raced' = (raced \/ call[c].stale)
        /\ env' = env /\ Resume(c)
    BY DEF Write, At, CreateRow, UpdateRow
  <1>2. /\ call[c] \in Call /\ call[c].cfg \in Forms /\ Normal(call[c].cfg) /\ Validate(call[c].cfg, env)
    BY <1>1 DEF StoreInv, CallsFit, FitsIn, Call
  <1>3. ProcessFits'
    BY <1>1, <1>2 DEF StoreInv, ProcessFits, Write, Call
  <1>4. RowFits'
    <2>1. row' # NoRow /\ row' \in Forms /\ Normal(row') /\ Validate(row', savedIn')
      BY <1>1, <1>2, ConfigStoreAssumption
    <2>2. ~raced' => DOMAIN held' = Fields(row') /\ \A f \in Fields(row') : SecretAt(row', f) = held'[f]
      BY <1>1, SavedIsGiven
    <2> QED BY <2>1, <2>2 DEF RowFits
  <1>5. Stale(c) \in [Callers -> Call]
    BY DEF Stale, StoreInv, CallsFit, Call
  <1>6. ASSUME NEW d \in Callers \ {c}
        PROVE  FitsIn(Stale(c)[d], row', env')
    <2> DEFINE r == Stale(c)[d]
    <2>1. call[d] \in Call /\ FitsIn(call[d], row, env)
      BY DEF StoreInv, CallsFit
    <2>2. r = IF Relies(d) THEN [call[d] EXCEPT !.stale = TRUE] ELSE call[d]
      BY DEF Stale
    <2>3. call[d].pc \in {"find", "create", "update"} => Relies(d)
      BY DEF Relies
    <2> HIDE DEF r
    <2>4. r \in Call /\ r.cfg = call[d].cfg /\ r.pc = call[d].pc /\ (Relies(d) => r.stale)
      BY <2>1, <2>2 DEF Call
    <2>5. FitsIn(r, row', env')
      BY <1>1, <2>1, <2>3, <2>4 DEF FitsIn
    <2> QED BY <2>5 DEF r
  <1>7. CallsFit' /\ ShownFit'
    <2>1. CASE call[c].default
      <3>1. Return(c, ApplyEnv(Default, env), Stale(c))
        BY <1>1, <2>1 DEF Resume
      <3>2. ApplyEnv(Default, env) \in Forms /\ Normal(ApplyEnv(Default, env))
        BY DefaultFits, DefaultNormal, ApplyEnvFits DEF Alike, StoreInv, ProcessFits
      <3> QED BY <1>5, <1>6, <3>1, <3>2, ReturnFits
    <2>2. CASE ~call[c].default
      <3> DEFINE r == IF call[c].goal = "put" THEN [Idle EXCEPT !.pc = "load"] ELSE Idle
      <3>1. call' = [Stale(c) EXCEPT ![c] = r] /\ UNCHANGED shown
        BY <1>1, <2>2 DEF Resume
      <3>2. r \in Call /\ r.pc \in {"load", "idle"} /\ r.cfg = Default
        BY IdleFits DEF Idle, Call, Pcs
      <3> HIDE DEF r
      <3>3. FitsIn(r, row', env')
        BY <3>2, DefaultNormal, EarlyFits
      <3>4. CallsFit'
        BY <1>5, <1>6, <3>1, <3>3, CallsGoOn
      <3>5. ShownFit'
        BY <3>1 DEF StoreInv, ShownFit
      <3> QED BY <3>4, <3>5
    <2> QED BY <2>1, <2>2
  <1> QED BY <1>3, <1>4, <1>7 DEF StoreInv

\* Every step keeps StoreInv.
LEMMA NextKeeps == StoreInv /\ [Next]_vars => StoreInv'
  <1> SUFFICES ASSUME StoreInv, [Next]_vars
               PROVE  StoreInv'
    OBVIOUS
  <1>1. CASE Start
    BY <1>1, StartKeeps
  <1>2. CASE \E e \in Envs : Restart(e)
    BY <1>2, RestartKeeps
  <1>3. ASSUME NEW c \in Callers, Get(c) \/ Put(c) \/ Disable(c)
        PROVE  StoreInv'
    BY <1>3, RequestKeeps
  <1>4. ASSUME NEW c \in Callers,
               LoadUser(c) \/ Merge(c) \/ Find(c) \/ Write(c) \/ CreateFails(c)
        PROVE  StoreInv'
    BY <1>4, LoadUserKeeps, MergeKeeps, FindKeeps, WriteKeeps, CreateFailsKeeps
  <1>5. CASE UNCHANGED vars
    BY <1>5 DEF vars, StoreInv, ProcessFits, RowFits, CallsFit, ShownFit
  <1> QED BY <1>1, <1>2, <1>3, <1>4, <1>5 DEF Next

----------------------------------------------------------------------------
(* The theorems.                                                            *)

\* Where the settings of a user are stored, loaded and saved, StoreInv holds.
THEOREM StoreInvariant == Spec => []StoreInv
  <1>1. Init => StoreInv
    BY InitStoreInv
  <1>2. StoreInv /\ [Next]_vars => StoreInv'
    BY NextKeeps
  <1> QED BY <1>1, <1>2, PTL DEF Spec

\* The settings stored and those about to be stored are complete, and no tab
\* shows a secret: Normalize, Redacted.
THEOREM TypeCorrect == Spec => []TypeOK
  <1>1. StoreInv => TypeOK
    <2> SUFFICES ASSUME StoreInv PROVE TypeOK
      OBVIOUS
    <2>1. ASSUME row # NoRow
          PROVE  /\ row \in Forms /\ Normalize(row) = row
                 /\ \A i \in DOMAIN row.targets : row.targets[i].type \in Types
      BY <2>1, NormalStays DEF StoreInv, RowFits, Validate, ValidTarget
    <2> QED BY <2>1 DEF StoreInv, ProcessFits, CallsFit, ShownFit, TypeOK
  <1> QED BY <1>1, StoreInvariant, PTL

\* SaveUser, MergeUserSecrets: as long as no two saves overlap, the database
\* has the secret that each field was given last.
THEOREM SecretsAreKeptHolds == Spec => []SecretsAreKept
  <1>1. StoreInv => SecretsAreKept
    BY DEF StoreInv, RowFits, SecretsAreKept
  <1> QED BY <1>1, StoreInvariant, PTL

\* SaveUser, LoadUser: what was saved can be loaded in the same environment, unless
\* the environment puts what is no address in the place of a source's.
THEOREM SavedLoadsHolds == Spec => []SavedLoads
  <1>1. StoreInv => SavedLoads
    <2> SUFFICES ASSUME StoreInv, row # NoRow, savedIn = env
                 PROVE  Validate(ApplyEnv(row, env), env) <=> ~Spoils(row, env)
      BY DEF SavedLoads
    <2> DEFINE cfg == ApplyEnv(row, env)
    <2>1. row \in Forms /\ Normal(row) /\ Validate(row, env) /\ env \in Envs
      BY DEF StoreInv, RowFits, ProcessFits
    <2>2. Alike(cfg, row)
      BY <2>1, ApplyEnvFits
    <2>3. /\ DOMAIN cfg.sources = DOMAIN row.sources
          /\ \A i \in DOMAIN row.sources : cfg.sources[i] = EnvSource(row.sources[i], env)
      <3>1. cfg.sources = [i \in DOMAIN row.sources |-> EnvSource(row.sources[i], env)]
        BY <2>1, ApplyEnvIs
      <3> HIDE DEF cfg
      <3> QED BY <3>1
    <2> HIDE DEF cfg
    <2>4. ASSUME NEW i \in DOMAIN row.sources
          PROVE  /\ row.sources[i] \in Sources /\ ValidSource(row.sources[i], env)
                 /\ cfg.sources[i].type = row.sources[i].type
                 /\ cfg.sources[i].url =
                        IF row.sources[i].type = "nowledgemem_api" /\ row.sources[i].key = DefaultSource
                        THEN OrElse(env.url, row.sources[i].url) ELSE row.sources[i].url
      <3>1. row.sources[i] \in Sources /\ ValidSource(row.sources[i], env)
        BY <2>1, ElementOfSeq DEF Forms, Validate
      <3>2. cfg.sources[i] = EnvSource(row.sources[i], env)
        BY <2>3
      <3> QED BY <3>1, <3>2 DEF EnvSource, Sources
    <2>5. ASSUME ~Spoils(row, env)
          PROVE  Validate(cfg, env)
      <3>1. ASSUME NEW i \in DOMAIN cfg.sources, ValidURL(row.sources[i].url)
            PROVE  ValidURL(cfg.sources[i].url)
        BY <2>3, <2>4, <2>5, <3>1 DEF Spoils, OrElse
      <3> QED BY <2>1, <2>2, <3>1, AlikeValid
    <2>6. ASSUME Spoils(row, env)
          PROVE  ~Validate(cfg, env)
      <3>1. PICK i \in DOMAIN row.sources :
                row.sources[i].key = DefaultSource /\ row.sources[i].type = "nowledgemem_api"
        BY <2>6 DEF Spoils
      <3>2. ~ValidURL(env.url) /\ env.url # ""
        BY <2>6 DEF Spoils, ValidURL
      <3>3. cfg.sources[i].url = env.url /\ cfg.sources[i].type = "nowledgemem_api"
        BY <2>4, <3>1, <3>2 DEF OrElse
      <3>4. ~ValidSource(cfg.sources[i], env)
        BY <3>2, <3>3 DEF ValidSource
      <3> QED BY <2>3, <3>4 DEF Validate
    <2> QED BY <2>5, <2>6 DEF cfg
  <1> QED BY <1>1, StoreInvariant, PTL

----------------------------------------------------------------------------
(* Saving what is shown.                                                    *)

\* A source has these fields and no other.
LEMMA SourceIs ==
    ASSUME NEW s \in Sources
    PROVE  s = [key |-> s.key, enabled |-> s.enabled, type |-> s.type, url |-> s.url,
                path |-> s.path, secret |-> s.secret]
  BY DEF Sources

\* A target has these fields and no other.
LEMMA TargetIs ==
    ASSUME NEW t \in Targets
    PROVE  t = [key |-> t.key, enabled |-> t.enabled, type |-> t.type, complete |-> t.complete,
                secrets |-> [f \in Slots |-> t.secrets[f]]]
  BY DEF Targets

\* A task has these fields and no other.
LEMMA TaskIs ==
    ASSUME NEW t \in Tasks
    PROVE  t = [key |-> t.key, enabled |-> t.enabled, source |-> t.source, schedule |-> t.schedule,
                targets |-> t.targets, option |-> t.option, strategy |-> t.strategy,
                encrypted |-> t.encrypted, secret |-> t.secret]
  BY DEF Tasks

\* What InUse keeps of a source, and of a target.
InUseSource(s) == IF s.type = "nowledgemem_api" THEN s ELSE [s EXCEPT !.secret = Blank]

InUseTarget(t) == [t EXCEPT !.secrets = [f \in Slots |-> IF f \in SlotsOf[t.type] THEN @[f] ELSE Blank]]

\* Two sources with the same fields are one.
LEMMA SameSource ==
    ASSUME NEW a \in Sources, NEW b \in Sources, a.key = b.key, a.enabled = b.enabled,
           a.type = b.type, a.url = b.url, a.path = b.path, a.secret = b.secret
    PROVE  a = b
  BY SourceIs

\* A source and what comes back of it are the same where they are in use.
LEMMA EchoSource ==
    ASSUME NEW s \in Sources, NEW e \in Envs, NEW a \in Sources, a.key = s.key, a.enabled = s.enabled,
           a.type = s.type, a.path = s.path, a.url = EnvSource(s, e).url,
           a.type = "nowledgemem_api" => a.secret = s.secret
    PROVE  /\ InUseSource(EnvSource(a, e)) = InUseSource(EnvSource(s, e))
           /\ InUseSource(EnvSource(s, e)) \in Sources
  <1> DEFINE u(x) == IF x.key = DefaultSource THEN OrElse(e.url, x.url) ELSE x.url
             v(x) == OrSecret(x.secret, Getenv(e, <<"source", x.key, "api_key">>))
  <1>1. CASE s.type = "nowledgemem_api"
    <2>1. ASSUME NEW x \in Sources, x.type = "nowledgemem_api"
          PROVE  /\ EnvSource(x, e).url = u(x) /\ EnvSource(x, e).secret = v(x)
                 /\ EnvSource(x, e).enabled = x.enabled
      BY <2>1 DEF EnvSource, Sources
    <2>2. u(a) = u(s)
      BY <1>1, <2>1 DEF OrElse
    <2>3. v(a) = v(s)
      BY <1>1
    <2> HIDE DEF u, v
    <2>4. /\ EnvSource(s, e) \in Sources /\ EnvSource(s, e).type = s.type
          /\ EnvSource(s, e).key = s.key /\ EnvSource(s, e).path = s.path
          /\ EnvSource(a, e) \in Sources /\ EnvSource(a, e).type = a.type
          /\ EnvSource(a, e).key = a.key /\ EnvSource(a, e).path = a.path
      BY EnvSourceFits
    <2>5. /\ EnvSource(s, e).url = u(s) /\ EnvSource(s, e).secret = v(s)
          /\ EnvSource(s, e).enabled = s.enabled
          /\ EnvSource(a, e).url = u(a) /\ EnvSource(a, e).secret = v(a)
          /\ EnvSource(a, e).enabled = a.enabled
      BY <1>1, <2>1
    <2>6. EnvSource(a, e) = EnvSource(s, e)
      BY <2>2, <2>3, <2>4, <2>5, SameSource
    <2> QED BY <1>1, <2>4, <2>6 DEF InUseSource
  <1>2. CASE s.type # "nowledgemem_api"
    <2>1. EnvSource(s, e) = s /\ EnvSource(a, e) = a
      BY <1>2 DEF EnvSource
    <2> DEFINE off(x) == [x EXCEPT !.secret = Blank]
    <2>2. ASSUME NEW x \in Sources
          PROVE  /\ off(x) \in Sources /\ off(x).key = x.key /\ off(x).enabled = x.enabled
                 /\ off(x).type = x.type /\ off(x).url = x.url /\ off(x).path = x.path
                 /\ off(x).secret = Blank
      BY DEF Sources
    <2>3. InUseSource(a) = off(a) /\ InUseSource(s) = off(s)
      BY <1>2 DEF InUseSource
    <2> HIDE DEF off
    <2>4. off(a) = off(s)
      BY <2>1, <2>2, SameSource
    <2> QED BY <2>1, <2>2, <2>3, <2>4
  <1> QED BY <1>1, <1>2

\* A target and what comes back of it are the same where they are in use.
LEMMA EchoTarget ==
    ASSUME NEW t \in Targets, NEW e \in Envs, NEW a \in Targets, a.key = t.key, a.enabled = t.enabled,
           a.type = t.type, a.complete = t.complete, t.type \in Types,
           \A f \in Slots : f \in SlotsOf[t.type] => a.secrets[f] = t.secrets[f]
    PROVE  /\ InUseTarget(EnvTarget(a, e)) = InUseTarget(EnvTarget(t, e))
           /\ InUseTarget(EnvTarget(t, e)) \in Targets
  <1> DEFINE kept(x) == [f \in Slots |-> IF f \in SlotsOf[x.type] THEN x.secrets[f] ELSE Blank]
  <1>1. ASSUME NEW x \in Targets
        PROVE  /\ InUseTarget(x) = [key |-> x.key, enabled |-> x.enabled, type |-> x.type,
                                    complete |-> x.complete, secrets |-> kept(x)]
               /\ InUseTarget(x) \in Targets
    <2>1. InUseTarget(x) = [x EXCEPT !.secrets = kept(x)]
      BY DEF InUseTarget, Targets
    <2>2. kept(x) \in [Slots -> Secrets \cup {Blank}]
      BY DEF Targets
    <2> HIDE DEF kept
    <2> QED BY <2>1, <2>2 DEF Targets
  <1>2. /\ EnvTarget(t, e) \in Targets /\ EnvTarget(a, e) \in Targets
        /\ EnvTarget(t, e).key = t.key /\ EnvTarget(t, e).enabled = t.enabled
        /\ EnvTarget(t, e).type = t.type /\ EnvTarget(t, e).complete = t.complete
        /\ EnvTarget(a, e).key = t.key /\ EnvTarget(a, e).enabled = t.enabled
        /\ EnvTarget(a, e).type = t.type /\ EnvTarget(a, e).complete = t.complete
    BY EnvTargetFits
  <1>3. ASSUME NEW f \in Slots, f \in SlotsOf[t.type]
        PROVE  EnvTarget(a, e).secrets[f] = EnvTarget(t, e).secrets[f]
    <2>1. ASSUME NEW x \in Targets, x.type = t.type, x.key = t.key
          PROVE  EnvTarget(x, e).secrets[f] = OrSecret(x.secrets[f], Getenv(e, <<"target", t.key, f>>))
      BY <1>3, <2>1 DEF EnvTarget, Targets
    <2> QED BY <1>3, <2>1
  <1>4. kept(EnvTarget(a, e)) = kept(EnvTarget(t, e))
    BY <1>2, <1>3
  <1> HIDE DEF kept
  <1> QED BY <1>1, <1>2, <1>4

\* Two tasks with the same fields are one.
LEMMA SameTask ==
    ASSUME NEW t \in Tasks, NEW a \in Tasks, a.key = t.key, a.enabled = t.enabled, a.source = t.source,
           a.schedule = t.schedule, a.targets = t.targets, a.option = t.option, a.strategy = t.strategy,
           a.encrypted = t.encrypted, a.secret = t.secret
    PROVE  a = t
  BY TaskIs

\* What comes back of a page of settings that was shown, once its secrets are
\* filled: the settings that are stored, except that an address may be the
\* environment's, and that secrets out of use are blank.
LEMMA ShownAgain ==
    ASSUME NEW old, Kept(old), Normal(old), NEW e \in Envs,
           \A i \in DOMAIN old.targets : old.targets[i].type \in Types
    PROVE  LET again == MergeUserSecrets(Normalize(Redacted(ApplyEnv(old, e))), old) IN
            /\ again \in Forms /\ Normal(again)
            /\ again.schedules = old.schedules /\ again.options = old.options
            /\ again.strategies = old.strategies /\ again.limit = old.limit /\ again.days = old.days
            /\ DOMAIN again.sources = DOMAIN old.sources
            /\ DOMAIN again.targets = DOMAIN old.targets
            /\ DOMAIN again.tasks = DOMAIN old.tasks
            /\ \A i \in DOMAIN old.sources :
                LET a == again.sources[i]
                    s == old.sources[i]
                IN  /\ a.key = s.key /\ a.enabled = s.enabled /\ a.type = s.type /\ a.path = s.path
                    /\ a.url = EnvSource(s, e).url
                    /\ s.type = "nowledgemem_api" => a.secret = s.secret
            /\ \A i \in DOMAIN old.targets :
                LET a == again.targets[i]
                    t == old.targets[i]
                IN  /\ a.key = t.key /\ a.enabled = t.enabled /\ a.type = t.type
                    /\ a.complete = t.complete
                    /\ \A f \in SlotsOf[t.type] : a.secrets[f] = t.secrets[f]
            /\ \A i \in DOMAIN old.tasks : again.tasks[i] = old.tasks[i]
  <1> DEFINE seen == ApplyEnv(old, e)
             n == Redacted(seen)
             again == MergeUserSecrets(n, old)
  <1>1. old \in Forms /\ old.sources \in Seq(Sources) /\ old.targets \in Seq(Targets) /\ old.tasks \in Seq(Tasks)
    BY DEF Kept, Forms
  <1>2. /\ \A i \in DOMAIN old.sources : seen.sources[i] = EnvSource(old.sources[i], e)
        /\ \A i \in DOMAIN old.targets : seen.targets[i] = EnvTarget(old.targets[i], e)
        /\ \A i \in DOMAIN old.tasks : seen.tasks[i] = EnvTask(old.tasks[i], e)
    <2>1. /\ seen.sources = [i \in DOMAIN old.sources |-> EnvSource(old.sources[i], e)]
          /\ seen.targets = [i \in DOMAIN old.targets |-> EnvTarget(old.targets[i], e)]
          /\ seen.tasks = [i \in DOMAIN old.tasks |-> EnvTask(old.tasks[i], e)]
      BY <1>1, ApplyEnvIs
    <2> HIDE DEF seen
    <2> QED BY <2>1
  <1>3. Alike(seen, old) /\ Normal(seen) /\ seen \in Forms
    BY <1>1, ApplyEnvFits DEF Alike
  <1>4. Alike(n, seen) /\ n \in Forms
    BY <1>3, RedactedAlike DEF Alike
  <1>5. /\ \A i \in DOMAIN seen.sources : /\ n.sources[i].key = seen.sources[i].key
                                          /\ n.sources[i].enabled = seen.sources[i].enabled
                                          /\ n.sources[i].type = seen.sources[i].type
                                          /\ n.sources[i].url = seen.sources[i].url
                                          /\ n.sources[i].path = seen.sources[i].path
                                          /\ n.sources[i].secret = Blank
        /\ \A i \in DOMAIN seen.targets : /\ n.targets[i].key = seen.targets[i].key
                                          /\ n.targets[i].enabled = seen.targets[i].enabled
                                          /\ n.targets[i].type = seen.targets[i].type
                                          /\ n.targets[i].complete = seen.targets[i].complete
                                          /\ n.targets[i].secrets = NoSecrets
        /\ \A i \in DOMAIN seen.tasks : /\ n.tasks[i].key = seen.tasks[i].key
                                        /\ n.tasks[i].enabled = seen.tasks[i].enabled
                                        /\ n.tasks[i].source = seen.tasks[i].source
                                        /\ n.tasks[i].schedule = seen.tasks[i].schedule
                                        /\ n.tasks[i].targets = seen.tasks[i].targets
                                        /\ n.tasks[i].option = seen.tasks[i].option
                                        /\ n.tasks[i].strategy = seen.tasks[i].strategy
                                        /\ n.tasks[i].encrypted = seen.tasks[i].encrypted
                                        /\ n.tasks[i].secret = Blank
    BY <1>3, RedactedFits
  <1> HIDE DEF n, seen
  <1>6. /\ DOMAIN n.sources = DOMAIN old.sources /\ DOMAIN n.targets = DOMAIN old.targets
        /\ DOMAIN n.tasks = DOMAIN old.tasks
        /\ DOMAIN seen.sources = DOMAIN old.sources /\ DOMAIN seen.targets = DOMAIN old.targets
        /\ DOMAIN seen.tasks = DOMAIN old.tasks
        /\ n.schedules = old.schedules /\ n.options = old.options /\ n.strategies = old.strategies
        /\ n.limit = old.limit /\ n.days = old.days
    BY <1>3, <1>4 DEF Alike
  <1>7. Normal(n)
    <2>1. \A i \in DOMAIN n.sources : n.sources[i].url # ""
      BY <1>3, <1>5, <1>6 DEF Normal
    <2> QED BY <1>3, <1>4, <2>1, AlikeNormal
  <1>8. Normalize(n) = n
    BY <1>4, <1>7, NormalStays
  <1>9. /\ again \in Forms /\ Normal(again)
        /\ DOMAIN again.sources = DOMAIN old.sources
        /\ DOMAIN again.targets = DOMAIN old.targets
        /\ DOMAIN again.tasks = DOMAIN old.tasks
    BY <1>4, <1>6, <1>7, MergeFits, MergeKeepsNormal
  <1>10. /\ again.schedules = old.schedules /\ again.options = old.options
         /\ again.strategies = old.strategies /\ again.limit = old.limit /\ again.days = old.days
    BY <1>4, <1>6, MergeIs
  <1>11. ASSUME NEW i \in DOMAIN old.sources
         PROVE  LET a == again.sources[i]
                    s == old.sources[i]
                IN  /\ a.key = s.key /\ a.enabled = s.enabled /\ a.type = s.type /\ a.path = s.path
                    /\ a.url = EnvSource(s, e).url
                    /\ s.type = "nowledgemem_api" => a.secret = s.secret
    <2>1. /\ old.sources[i] \in Sources /\ Entry(old.sources, old.sources[i].key) = old.sources[i]
          /\ old.sources[i].key \in Keys(old.sources)
      BY <1>1, EntryIs DEF Kept, Keys
    <2>2. LET s == old.sources[i]
          IN  /\ n.sources[i].key = s.key /\ n.sources[i].enabled = s.enabled
              /\ n.sources[i].type = s.type /\ n.sources[i].path = s.path
              /\ n.sources[i].url = EnvSource(s, e).url /\ n.sources[i].secret = Blank
      <3>1. /\ EnvSource(old.sources[i], e).key = old.sources[i].key
            /\ EnvSource(old.sources[i], e).enabled = old.sources[i].enabled
            /\ EnvSource(old.sources[i], e).type = old.sources[i].type
            /\ EnvSource(old.sources[i], e).path = old.sources[i].path
        BY <2>1, EnvSourceFits
      <3>2. seen.sources[i] = EnvSource(old.sources[i], e) /\ i \in DOMAIN seen.sources
        BY <1>2, <1>6
      <3> QED BY <1>5, <3>1, <3>2
    <2> QED BY <1>4, <1>6, <2>1, <2>2, MergedSource
  <1>12. ASSUME NEW i \in DOMAIN old.targets
         PROVE  LET a == again.targets[i]
                    t == old.targets[i]
                IN  /\ a.key = t.key /\ a.enabled = t.enabled /\ a.type = t.type
                    /\ a.complete = t.complete
                    /\ \A f \in SlotsOf[t.type] : a.secrets[f] = t.secrets[f]
    <2>1. /\ old.targets[i] \in Targets /\ Entry(old.targets, old.targets[i].key) = old.targets[i]
          /\ old.targets[i].key \in Keys(old.targets)
      BY <1>1, EntryIs DEF Kept, Keys
    <2>2. LET t == old.targets[i]
          IN  /\ n.targets[i].key = t.key /\ n.targets[i].enabled = t.enabled
              /\ n.targets[i].type = t.type /\ n.targets[i].complete = t.complete
              /\ n.targets[i].secrets = NoSecrets
      BY <1>2, <1>5, <1>6, <2>1, EnvTargetFits
    <2>3. \A f \in SlotsOf[old.targets[i].type] : f \in Slots /\ NoSecrets[f] = Blank
      BY DEF Slots, NoSecrets
    <2> QED BY <1>4, <1>6, <2>1, <2>2, <2>3, MergedTarget
  <1>13. ASSUME NEW i \in DOMAIN old.tasks
         PROVE  again.tasks[i] = old.tasks[i]
    <2>1. /\ old.tasks[i] \in Tasks /\ Entry(old.tasks, old.tasks[i].key) = old.tasks[i]
          /\ old.tasks[i].key \in Keys(old.tasks)
      BY <1>1, EntryIs DEF Kept, Keys
    <2>2. LET t == old.tasks[i]
          IN  /\ n.tasks[i].key = t.key /\ n.tasks[i].enabled = t.enabled /\ n.tasks[i].source = t.source
              /\ n.tasks[i].schedule = t.schedule /\ n.tasks[i].targets = t.targets
              /\ n.tasks[i].option = t.option /\ n.tasks[i].strategy = t.strategy
              /\ n.tasks[i].encrypted = t.encrypted /\ n.tasks[i].secret = Blank
      BY <1>2, <1>5, <1>6, <2>1, EnvTaskFits
    <2> QED BY <1>4, <1>6, <2>1, <2>2, MergedTask, SameTask
  <1> HIDE DEF again
  <1>14. again = MergeUserSecrets(Normalize(Redacted(ApplyEnv(old, e))), old)
    BY <1>8 DEF again, n, seen
  <1> QED BY <1>9, <1>10, <1>11, <1>12, <1>13, <1>14

\* What is in use of settings is settings, once its sources and targets are.
LEMMA InUseFits ==
    ASSUME NEW cfg \in Forms, NEW A \in Seq(Sources), NEW B \in Seq(Targets),
           A = [i \in DOMAIN cfg.sources |-> InUseSource(cfg.sources[i])],
           B = [i \in DOMAIN cfg.targets |-> InUseTarget(cfg.targets[i])]
    PROVE  LET n == InUse(cfg) IN
            /\ n \in Forms
            /\ n.sources = A /\ n.targets = B /\ n.tasks = cfg.tasks
            /\ n.schedules = cfg.schedules /\ n.options = cfg.options /\ n.strategies = cfg.strategies
            /\ n.limit = cfg.limit /\ n.days = cfg.days
  <1>1. InUse(cfg) = [cfg EXCEPT !.sources = A, !.targets = B]
    BY DEF InUse, Each, InUseSource, InUseTarget, Forms
  <1> QED BY <1>1 DEF Forms

\* Of settings that are stored, what is in use is the same once what was shown
\* of them has been saved.
LEMMA EchoInUse ==
    ASSUME NEW old, Kept(old), Normal(old), NEW e \in Envs,
           \A i \in DOMAIN old.targets : old.targets[i].type \in Types
    PROVE  LET again == MergeUserSecrets(Normalize(Redacted(ApplyEnv(old, e))), old)
           IN  InUse(ApplyEnv(again, e)) = InUse(ApplyEnv(old, e))
  <1> DEFINE again == MergeUserSecrets(Normalize(Redacted(ApplyEnv(old, e))), old)
             x == ApplyEnv(again, e)
             y == ApplyEnv(old, e)
             A == [i \in DOMAIN old.sources |-> InUseSource(EnvSource(old.sources[i], e))]
             B == [i \in DOMAIN old.targets |-> InUseTarget(EnvTarget(old.targets[i], e))]
  <1>1. old \in Forms /\ old.sources \in Seq(Sources) /\ old.targets \in Seq(Targets)
    BY DEF Kept, Forms
  <1>2. /\ again \in Forms /\ Normal(again)
        /\ again.schedules = old.schedules /\ again.options = old.options
        /\ again.strategies = old.strategies /\ again.limit = old.limit /\ again.days = old.days
        /\ DOMAIN again.sources = DOMAIN old.sources
        /\ DOMAIN again.targets = DOMAIN old.targets
        /\ DOMAIN again.tasks = DOMAIN old.tasks
    BY ShownAgain
  <1>3. \A i \in DOMAIN old.sources :
                LET a == again.sources[i]
                    s == old.sources[i]
                IN  /\ a.key = s.key /\ a.enabled = s.enabled /\ a.type = s.type /\ a.path = s.path
                    /\ a.url = EnvSource(s, e).url
                    /\ s.type = "nowledgemem_api" => a.secret = s.secret
    BY ShownAgain
  <1>4. \A i \in DOMAIN old.targets :
                LET a == again.targets[i]
                    t == old.targets[i]
                IN  /\ a.key = t.key /\ a.enabled = t.enabled /\ a.type = t.type
                    /\ a.complete = t.complete
                    /\ \A f \in SlotsOf[t.type] : a.secrets[f] = t.secrets[f]
    BY ShownAgain
  <1>5. \A i \in DOMAIN old.tasks : again.tasks[i] = old.tasks[i]
    BY ShownAgain
  <1> HIDE DEF again
  <1>6. again.sources \in Seq(Sources) /\ again.targets \in Seq(Targets)
    BY <1>2 DEF Forms
  <1>7. ASSUME NEW i \in DOMAIN old.sources
        PROVE  /\ InUseSource(EnvSource(again.sources[i], e)) = A[i]
               /\ A[i] \in Sources
    <2>1. again.sources[i] \in Sources /\ old.sources[i] \in Sources
      BY <1>1, <1>2, <1>6
    <2> QED BY <1>3, <2>1, EchoSource
  <1>8. ASSUME NEW i \in DOMAIN old.targets
        PROVE  /\ InUseTarget(EnvTarget(again.targets[i], e)) = B[i]
               /\ B[i] \in Targets
    <2>1. again.targets[i] \in Targets /\ old.targets[i] \in Targets
      BY <1>1, <1>2, <1>6
    <2> QED BY <1>4, <2>1, EchoTarget
  <1>9. /\ x.sources = [i \in DOMAIN old.sources |-> EnvSource(again.sources[i], e)]
        /\ x.targets = [i \in DOMAIN old.targets |-> EnvTarget(again.targets[i], e)]
        /\ x.tasks = [i \in DOMAIN old.tasks |-> EnvTask(again.tasks[i], e)]
        /\ x.schedules = old.schedules /\ x.options = old.options /\ x.strategies = old.strategies
        /\ x.limit = old.limit /\ x.days = old.days
    BY <1>2, ApplyEnvIs
  <1>10. /\ y.sources = [i \in DOMAIN old.sources |-> EnvSource(old.sources[i], e)]
         /\ y.targets = [i \in DOMAIN old.targets |-> EnvTarget(old.targets[i], e)]
         /\ y.tasks = [i \in DOMAIN old.tasks |-> EnvTask(old.tasks[i], e)]
         /\ y.schedules = old.schedules /\ y.options = old.options /\ y.strategies = old.strategies
         /\ y.limit = old.limit /\ y.days = old.days
    BY <1>1, ApplyEnvIs
  <1>11. x \in Forms /\ y \in Forms
    BY <1>1, <1>2, ApplyEnvFits DEF Alike
  <1> HIDE DEF x, y
  <1>12. x.tasks = y.tasks
    BY <1>5, <1>9, <1>10
  <1>13. /\ A = [i \in DOMAIN x.sources |-> InUseSource(x.sources[i])]
         /\ A = [i \in DOMAIN y.sources |-> InUseSource(y.sources[i])]
    <2>1. DOMAIN x.sources = DOMAIN old.sources /\ DOMAIN y.sources = DOMAIN old.sources
      BY <1>9, <1>10
    <2>2. \A i \in DOMAIN old.sources : /\ InUseSource(x.sources[i]) = A[i]
                                        /\ InUseSource(y.sources[i]) = A[i]
      BY <1>7, <1>9, <1>10
    <2>3. A = [i \in DOMAIN old.sources |-> A[i]]
      OBVIOUS
    <2> HIDE DEF A
    <2> QED BY <2>1, <2>2, <2>3
  <1>14. /\ B = [i \in DOMAIN x.targets |-> InUseTarget(x.targets[i])]
         /\ B = [i \in DOMAIN y.targets |-> InUseTarget(y.targets[i])]
    <2>1. DOMAIN x.targets = DOMAIN old.targets /\ DOMAIN y.targets = DOMAIN old.targets
      BY <1>9, <1>10
    <2>2. \A i \in DOMAIN old.targets : /\ InUseTarget(x.targets[i]) = B[i]
                                        /\ InUseTarget(y.targets[i]) = B[i]
      BY <1>8, <1>9, <1>10
    <2>3. B = [i \in DOMAIN old.targets |-> B[i]]
      OBVIOUS
    <2> HIDE DEF B
    <2> QED BY <2>1, <2>2, <2>3
  <1>15. A = [i \in DOMAIN old.sources |-> A[i]] /\ B = [i \in DOMAIN old.targets |-> B[i]]
    OBVIOUS
  <1> HIDE DEF A, B
  <1>16. A \in Seq(Sources) /\ B \in Seq(Targets)
    BY <1>1, <1>7, <1>8, <1>15, ListFits
  <1>17. /\ InUse(x) \in Forms /\ InUse(x).sources = A /\ InUse(x).targets = B
         /\ InUse(x).tasks = x.tasks /\ InUse(x).schedules = x.schedules
         /\ InUse(x).options = x.options /\ InUse(x).strategies = x.strategies
         /\ InUse(x).limit = x.limit /\ InUse(x).days = x.days
    BY <1>11, <1>13, <1>14, <1>16, InUseFits
  <1>18. /\ InUse(y) \in Forms /\ InUse(y).sources = A /\ InUse(y).targets = B
         /\ InUse(y).tasks = y.tasks /\ InUse(y).schedules = y.schedules
         /\ InUse(y).options = y.options /\ InUse(y).strategies = y.strategies
         /\ InUse(y).limit = y.limit /\ InUse(y).days = y.days
    BY <1>11, <1>13, <1>14, <1>16, InUseFits
  <1>19. InUse(x) = InUse(y)
    BY <1>9, <1>10, <1>12, <1>17, <1>18, SameForm
  <1> QED BY <1>19 DEF x, y, again

\* Every secret in use is stored still, once what was shown has been saved.
LEMMA EchoSecrets ==
    ASSUME NEW old, Kept(old), Normal(old), NEW e \in Envs,
           \A i \in DOMAIN old.targets : old.targets[i].type \in Types,
           NEW f \in Fields(old), Used(old, f)
    PROVE  SecretAt(MergeUserSecrets(Normalize(Redacted(ApplyEnv(old, e))), old), f) = SecretAt(old, f)
  <1> DEFINE again == MergeUserSecrets(Normalize(Redacted(ApplyEnv(old, e))), old)
  <1>1. /\ again \in Forms /\ old \in Forms
        /\ DOMAIN again.sources = DOMAIN old.sources
        /\ DOMAIN again.targets = DOMAIN old.targets
        /\ DOMAIN again.tasks = DOMAIN old.tasks
    BY ShownAgain DEF Kept
  <1>2. \A i \in DOMAIN old.sources :
            /\ again.sources[i].key = old.sources[i].key
            /\ old.sources[i].type = "nowledgemem_api" => again.sources[i].secret = old.sources[i].secret
    BY ShownAgain
  <1>3. \A i \in DOMAIN old.targets :
            /\ again.targets[i].key = old.targets[i].key
            /\ \A s \in SlotsOf[old.targets[i].type] : again.targets[i].secrets[s] = old.targets[i].secrets[s]
    BY ShownAgain
  <1>4. \A i \in DOMAIN old.tasks : again.tasks[i] = old.tasks[i]
    BY ShownAgain
  <1> HIDE DEF again
  <1>5. /\ again.sources \in Seq(Sources) /\ again.targets \in Seq(Targets) /\ again.tasks \in Seq(Tasks)
        /\ old.sources \in Seq(Sources) /\ old.targets \in Seq(Targets) /\ old.tasks \in Seq(Tasks)
    BY <1>1 DEF Forms
  <1>6. ValidKeys(again.sources) /\ ValidKeys(again.targets) /\ ValidKeys(again.tasks)
    <2>1. ValidKeys(again.sources)
      BY <1>1, <1>2, <1>5, SameKeys DEF Kept
    <2>2. ValidKeys(again.targets)
      BY <1>1, <1>3, <1>5, SameKeys DEF Kept
    <2>3. ValidKeys(again.tasks)
      BY <1>1, <1>4, <1>5, SameKeys DEF Kept
    <2> QED BY <2>1, <2>2, <2>3
  <1>7. CASE \E key \in Keys(old.sources) : f = SourceField(key)
    <2>1. PICK key \in Keys(old.sources) : f = SourceField(key)
      BY <1>7
    <2>2. PICK i \in DOMAIN old.sources : old.sources[i].key = key /\ Entry(old.sources, key) = old.sources[i]
      BY <1>5, EntryOf DEF Kept
    <2>3. Entry(again.sources, key) = again.sources[i]
      BY <1>1, <1>2, <1>5, <1>6, <2>2, EntryIs
    <2>4. old.sources[i].type = "nowledgemem_api"
      BY <2>1, <2>2, UsedIs
    <2> QED BY <1>2, <2>1, <2>2, <2>3, <2>4, SecretAtIs DEF again
  <1>8. CASE \E key \in Keys(old.targets), s \in Slots : f = TargetField(key, s)
    <2>1. PICK key \in Keys(old.targets), s \in Slots : f = TargetField(key, s)
      BY <1>8
    <2>2. PICK i \in DOMAIN old.targets : old.targets[i].key = key /\ Entry(old.targets, key) = old.targets[i]
      BY <1>5, EntryOf DEF Kept
    <2>3. Entry(again.targets, key) = again.targets[i]
      BY <1>1, <1>3, <1>5, <1>6, <2>2, EntryIs
    <2>4. s \in SlotsOf[old.targets[i].type]
      BY <2>1, <2>2, UsedIs
    <2> QED BY <1>3, <2>1, <2>2, <2>3, <2>4, SecretAtIs DEF again
  <1>9. CASE \E key \in Keys(old.tasks) : f = TaskField(key)
    <2>1. PICK key \in Keys(old.tasks) : f = TaskField(key)
      BY <1>9
    <2>2. PICK i \in DOMAIN old.tasks : old.tasks[i].key = key /\ Entry(old.tasks, key) = old.tasks[i]
      BY <1>5, EntryOf DEF Kept
    <2>3. Entry(again.tasks, key) = again.tasks[i]
      BY <1>1, <1>4, <1>5, <1>6, <2>2, EntryIs
    <2> QED BY <1>4, <2>1, <2>2, <2>3, SecretAtIs DEF again
  <1> QED BY <1>7, <1>8, <1>9, FieldKinds DEF again

\* handleConfig, Redacted, MergeUserSecrets: saving a page of settings as it is
\* shown changes nothing in what is in use, nor which secrets are stored.
THEOREM EchoChangesNothingHolds == Spec => []EchoChangesNothing
  <1>1. StoreInv => EchoChangesNothing
    <2> SUFFICES ASSUME StoreInv, row # NoRow
                 PROVE  EchoChangesNothing
      BY DEF EchoChangesNothing
    <2>1. /\ Kept(row) /\ Normal(row) /\ env \in Envs
          /\ \A i \in DOMAIN row.targets : row.targets[i].type \in Types
      BY DEF StoreInv, RowFits, ProcessFits, Kept, Validate, ValidTarget
    <2> QED BY <2>1, EchoInUse, EchoSecrets DEF EchoChangesNothing
  <1> QED BY <1>1, StoreInvariant, PTL

----------------------------------------------------------------------------
(* When a task runs next.                                                   *)

\* A multiple of S is at least S away from the next.
LEMMA Mono ==
    ASSUME NEW S \in Nat, NEW a \in Nat, NEW b \in Nat, a < b
    PROVE  a * S + S <= b * S
  <1>1. PICK c \in Nat : b = a + 1 + c
    <2>1. b - a - 1 \in Nat /\ b = a + 1 + (b - a - 1)
      OBVIOUS
    <2> QED BY <2>1
  <1>2. b * S = a * S + S + c * S
    BY <1>1
  <1>3. c * S >= 0 /\ c * S \in Nat /\ a * S \in Nat
    OBVIOUS
  <1> QED BY <1>2, <1>3

\* A moment is so many days, and a moment of a day.
LEMMA Division ==
    ASSUME NEW S \in Nat \ {0}, NEW t \in Nat
    PROVE  /\ t \div S \in Nat /\ t % S \in 0..(S - 1)
           /\ t = (t \div S) * S + (t % S)
  OBVIOUS

\* And of no other day: the quotient and the remainder are unique.
LEMMA DivisionOf ==
    ASSUME NEW S \in Nat \ {0}, NEW d \in Nat, NEW r \in 0..(S - 1)
    PROVE  /\ (d * S + r) \div S = d
           /\ (d * S + r) % S = r
  <1> DEFINE t == d * S + r
  <1>1. t \in Nat
    OBVIOUS
  <1> DEFINE e == t \div S
             q == t % S
  <1>2. e \in Nat /\ q \in 0..(S - 1) /\ t = e * S + q
    BY <1>1, Division
  <1>3. t = d * S + r /\ d * S \in Nat /\ e * S \in Nat
    BY <1>2
  <1> HIDE DEF t, e, q
  <1>4. ~(e < d)
    BY <1>2, <1>3, Mono
  <1>5. ~(d < e)
    BY <1>2, <1>3, Mono
  <1>6. e = d
    BY <1>2, <1>4, <1>5
  <1>7. q = r
    BY <1>2, <1>3, <1>6
  <1> QED BY <1>6, <1>7 DEF t, e, q

\* The days that follow d begin S later each, and earlier days end before later ones begin.
LEMMA Products ==
    ASSUME NEW S \in Nat \ {0}, NEW a \in Nat, NEW b \in Nat
    PROVE  /\ a * S \in Nat
           /\ (a + 1) * S = a * S + S /\ (a + 7) * S = a * S + 7 * S
           /\ a < b => a * S + S <= b * S
  <1>1. a * S \in Nat /\ (a + 1) * S = a * S + S /\ (a + 7) * S = a * S + 7 * S
    OBVIOUS
  <1>2. a < b => a * S + S <= b * S
    BY Mono
  <1> QED BY <1>1, <1>2

\* Days do not overlap, compared in both orders.
LEMMA Apart ==
    ASSUME NEW S \in Nat \ {0}, NEW d \in Nat, NEW e \in Nat
    PROVE  /\ d * S \in Nat /\ e * S \in Nat
           /\ d < e => d * S + S <= e * S
           /\ e < d => e * S + S <= d * S
           /\ e = d => e * S = d * S
  BY Products

\* With the days given by where they begin: no moment at of a day comes after
\* now and before next.
LEMMA DailyGap ==
    ASSUME NEW S \in Nat \ {0}, NEW x \in Nat, NEW r \in 0..(S - 1), NEW at \in 0..(S - 1),
           NEW now, now = x + r, NEW next, next = IF x + at > now THEN x + at ELSE x + at + S,
           NEW d \in Nat, NEW e \in Nat, NEW y \in Nat, NEW time, time = y + at,
           d < e => x + S <= y, e < d => y + S <= x, e = d => y = x, time > now
    PROVE  time >= next
  OBVIOUS

\* Likewise a moment between now and the next weekly one lies in one of the days
\* between, none of which is the weekday wanted.
LEMMA WeeklyGap ==
    ASSUME NEW S \in Nat \ {0}, NEW x \in Nat, NEW r \in 0..(S - 1), NEW at \in 0..(S - 1),
           NEW now, now = x + r, NEW d \in Nat, NEW n \in 0..6, NEW z \in Nat,
           0 < n => x + S <= z, n = 0 => z = x,
           NEW then, then = z + at, NEW next, next = IF then > now THEN then ELSE then + 7 * S,
           NEW e \in Nat, NEW y \in Nat, NEW time, time = y + at,
           d < e => x + S <= y, e < d => y + S <= x, e = d => y = x,
           d + n < e => z + S <= y, e = d + n => y = z,
           d + 7 < e => x + 7 * S + S <= y, e = d + 7 => y = x + 7 * S, time > now, time < next
    PROVE  IF n = 0 /\ then <= now THEN d < e /\ e < d + 7 ELSE d <= e /\ e < d + n
  <1>1. d <= e
    OBVIOUS
  <1>2. CASE n = 0 /\ then <= now
    BY <1>1, <1>2
  <1>3. CASE ~(n = 0 /\ then <= now)
    <2>1. next = then
      BY <1>3
    <2> QED BY <1>1, <1>3, <2>1
  <1> QED BY <1>2, <1>3

\* On day d, at moment r of S, what is due daily at moment at is next due then.
DailyIsNext(S, d, r, at) ==
    LET now  == d * S + r
        next == IF d * S + at > now THEN d * S + at ELSE d * S + at + S
    IN  /\ next > now /\ next % S = at
        /\ \A time \in (now + 1)..(next - 1) : time % S # at

\* The next daily moment is the one NextRun computes.
LEMMA DailyNext ==
    ASSUME NEW S \in Nat \ {0}, NEW d \in Nat, NEW r \in 0..(S - 1), NEW at \in 0..(S - 1)
    PROVE  DailyIsNext(S, d, r, at)
  <1> DEFINE now  == d * S + r
             next == IF d * S + at > now THEN d * S + at ELSE d * S + at + S
  <1>1. PICK x \in Nat : x = d * S
    BY Products
  <1>2. now = x + r /\ next = IF x + at > now THEN x + at ELSE x + at + S
    BY <1>1
  <1> HIDE DEF now, next
  <1>3. next \in Nat /\ next > now /\ now \in Nat
    BY <1>2
  <1>4. next % S = at
    <2>1. (d * S + at) % S = at /\ ((d + 1) * S + at) % S = at
      BY d + 1 \in Nat, DivisionOf
    <2>2. (d + 1) * S = x + S
      BY <1>1, Products
    <2>3. (x + at) % S = at /\ (x + S + at) % S = at /\ x + S + at = x + at + S
      BY <1>1, <2>1, <2>2
    <2>4. next = x + at \/ next = x + S + at
      BY <1>2
    <2> QED BY <2>3, <2>4
  <1>5. ASSUME NEW time \in (now + 1)..(next - 1), time % S = at
        PROVE  FALSE
    <2>1. time \in Nat
      BY <1>3
    <2>2. PICK e \in Nat : e = time \div S /\ time = e * S + at
      BY <1>5, <2>1, Division
    <2>3. /\ e * S \in Nat
          /\ d < e => d * S + S <= e * S
          /\ e < d => e * S + S <= d * S
          /\ e = d => e * S = d * S
      BY Apart
    <2>4. PICK y \in Nat : y = e * S
      BY <2>3
    <2>5. time > now /\ ~(time >= next)
      BY <1>3
    <2> QED BY <1>1, <1>2, <2>2, <2>3, <2>4, <2>5, DailyGap
  <1>6. next > now /\ \A time \in (now + 1)..(next - 1) : time % S # at
    BY <1>3, <1>5
  <1> QED BY <1>4, <1>6 DEF DailyIsNext, now, next

\* The number of days to a weekday: it is that weekday and none before it is.
LEMMA WeekdayNext ==
    ASSUME NEW d \in Nat, NEW day \in 0..6, NEW n, n = (day + 7 - (d % 7)) % 7
    PROVE  /\ n \in 0..6 /\ (d + n) % 7 = day /\ (d + n + 7) % 7 = day
           /\ \A e \in d..(d + n - 1) : e % 7 # day
           /\ n = 0 => \A e \in (d + 1)..(d + 6) : e % 7 # day
  OBVIOUS

\* Likewise what is due weekly at moment at of weekday day.
WeeklyIsNext(S, d, r, at, day) ==
    LET now  == d * S + r
        n    == (day + 7 - (d % 7)) % 7
        then == (d + n) * S + at
        next == IF then > now THEN then ELSE then + 7 * S
    IN  /\ next > now /\ next % S = at /\ (next \div S) % 7 = day
        /\ \A time \in (now + 1)..(next - 1) : time % S # at \/ (time \div S) % 7 # day

\* The next weekly moment is the one NextRun computes.
LEMMA WeeklyNext ==
    ASSUME NEW S \in Nat \ {0}, NEW d \in Nat, NEW r \in 0..(S - 1), NEW at \in 0..(S - 1), NEW day \in 0..6
    PROVE  WeeklyIsNext(S, d, r, at, day)
  <1> DEFINE now  == d * S + r
             n    == (day + 7 - (d % 7)) % 7
             then == (d + n) * S + at
             next == IF then > now THEN then ELSE then + 7 * S
  <1>1. /\ n \in 0..6 /\ (d + n) % 7 = day /\ (d + n + 7) % 7 = day
        /\ \A e \in d..(d + n - 1) : e % 7 # day
        /\ n = 0 => \A e \in (d + 1)..(d + 6) : e % 7 # day
    BY WeekdayNext
  <1> HIDE DEF n
  <1>2. PICK m \in Nat : m = d + n
    BY <1>1
  <1>3. PICK x \in Nat, z \in Nat : x = d * S /\ z = m * S /\ (d < m => x + S <= z) /\ (d = m => z = x)
    BY <1>2, Products
  <1>4. now = x + r /\ then = z + at /\ next = IF then > now THEN then ELSE then + 7 * S
    BY <1>2, <1>3
  <1> HIDE DEF now, then, next
  <1>5. d <= m /\ (m = d <=> n = 0) /\ m % 7 = day /\ (m + 7) % 7 = day
    BY <1>1, <1>2
  <1>6. then <= now => n = 0
    BY <1>2, <1>3, <1>4, <1>5
  <1>7. next \in Nat /\ next > now /\ now \in Nat
    BY <1>3, <1>4, <1>5
  <1>8. next % S = at /\ (next \div S) % 7 = day
    <2>1. /\ (m * S + at) % S = at /\ (m * S + at) \div S = m
          /\ ((m + 7) * S + at) % S = at /\ ((m + 7) * S + at) \div S = m + 7
      BY m + 7 \in Nat, DivisionOf
    <2>2. (m + 7) * S = z + 7 * S
      BY <1>3, Products
    <2>3. CASE next = z + at
      BY <1>3, <1>5, <2>1, <2>3
    <2>4. CASE next = z + at + 7 * S
      <3>1. next = (m + 7) * S + at
        BY <2>2, <2>4
      <3> QED BY <1>5, <2>1, <3>1
    <2> QED BY <1>4, <2>3, <2>4
  <1>9. ASSUME NEW time \in (now + 1)..(next - 1), time % S = at, (time \div S) % 7 = day
        PROVE  FALSE
    <2>1. time \in Nat
      BY <1>7
    <2>2. PICK e \in Nat : e = time \div S /\ time = e * S + at /\ e % 7 = day
      BY <1>9, <2>1, Division
    <2>3. /\ e * S \in Nat
          /\ d < e => d * S + S <= e * S
          /\ e < d => e * S + S <= d * S
          /\ e = d => e * S = d * S
          /\ m < e => m * S + S <= e * S
          /\ e = m => e * S = m * S
          /\ d + 7 < e => (d + 7) * S + S <= e * S
          /\ e = d + 7 => e * S = (d + 7) * S
      BY d + 7 \in Nat, Apart
    <2>4. (d + 7) * S = x + 7 * S
      BY <1>3, Products
    <2>5. PICK y \in Nat : y = e * S
      BY <2>3
    <2>6. time > now /\ time < next
      BY <1>7
    <2>7. (0 < n => x + S <= z) /\ (n = 0 => z = x)
      BY <1>1, <1>2, <1>3
    <2>8. time = y + at
      BY <2>2, <2>5
    <2>9. /\ d < e => x + S <= y
          /\ e < d => y + S <= x
          /\ e = d => y = x
          /\ m < e => z + S <= y
          /\ e = m => y = z
          /\ d + 7 < e => x + 7 * S + S <= y
          /\ e = d + 7 => y = x + 7 * S
      BY ONLY <1>3, <2>3, <2>4, <2>5
    <2>10. IF n = 0 /\ then <= now THEN d < e /\ e < d + 7 ELSE d <= e /\ e < d + n
      BY ONLY <1>1, <1>2, <1>4, <2>6, <2>7, <2>8, <2>9, WeeklyGap, S \in Nat \ {0}, d \in Nat,
              r \in 0..(S - 1), at \in 0..(S - 1), e \in Nat, x \in Nat, y \in Nat, z \in Nat
    <2> QED BY <1>1, <2>2, <2>10
  <1>10. next > now /\ \A time \in (now + 1)..(next - 1) : time % S # at \/ (time \div S) % 7 # day
    BY <1>7, <1>9
  <1> QED BY <1>8, <1>10 DEF WeeklyIsNext, now, n, then, next

\* For a valid schedule NextRun is the first moment due after now, or now itself
\* when the only moment has passed.
LEMMA NextRunFits ==
    ASSUME NEW s \in Schedules, ValidSchedule(s), NEW now \in Nat
    PROVE  LET next == NextRun(s, now) IN
            IF s.type = "once" /\ s.at <= now THEN next = now
            ELSE /\ Due(s, next) /\ next > now
                 /\ \A time \in (now + 1)..(next - 1) : ~Due(s, time)
  <1> DEFINE next == NextRun(s, now)
  <1>1. SlotsPerDay \in Nat \ {0} /\ s.at \in Nat
    BY SettingsAssumption DEF Schedules
  <1>2. PICK S \in Nat \ {0} : S = SlotsPerDay
    BY <1>1
  <1>3. PICK d \in Nat, r \in 0..(S - 1) : d = Day(now) /\ now = d * S + r
    BY <1>2, Division DEF Day
  <1>4. CASE s.type = "once"
    <2>1. next = IF s.at < now THEN now ELSE s.at
      BY <1>4 DEF NextRun
    <2>2. \A time : Due(s, time) <=> time = s.at
      BY <1>4 DEF Due
    <2> HIDE DEF next
    <2>3. CASE s.at <= now
      BY <1>1, <1>4, <2>1, <2>3 DEF next
    <2>4. CASE s.at > now
      <3>1. next = s.at /\ next > now
        BY <1>1, <2>1, <2>4
      <3>2. \A time \in (now + 1)..(next - 1) : time # s.at
        BY <1>1, <3>1
      <3>3. ~(s.at <= now)
        BY <1>1, <2>4
      <3> QED BY <2>2, <3>1, <3>2, <3>3 DEF next
    <2> QED BY <1>1, <2>3, <2>4
  <1>5. CASE s.type = "daily"
    <2>1. PICK at \in 0..(S - 1) : at = s.at
      BY <1>1, <1>2, <1>5 DEF ValidSchedule
    <2>2. next = IF d * S + at > now THEN d * S + at ELSE d * S + at + S
      BY <1>2, <1>3, <1>5, <2>1 DEF NextRun
    <2>3. \A time : Due(s, time) <=> time % S = at
      BY <1>2, <1>5, <2>1 DEF Due
    <2> HIDE DEF next
    <2>4. /\ next > now /\ next % S = at
          /\ \A time \in (now + 1)..(next - 1) : time % S # at
      <3>1. DailyIsNext(S, d, r, at)
        BY ONLY DailyNext, S \in Nat \ {0}, d \in Nat, r \in 0..(S - 1), at \in 0..(S - 1)
      <3>2. now = d * S + r
        BY <1>3
      <3> QED BY ONLY <2>2, <3>1, <3>2, Zenon DEF DailyIsNext
    <2>5. s.type # "once"
      BY <1>5
    <2> QED BY <2>3, <2>4, <2>5 DEF next
  <1>6. CASE s.type = "weekly"
    <2>1. PICK at \in 0..(S - 1), day \in 0..6 : at = s.at /\ day = s.day
      BY <1>1, <1>2, <1>6 DEF ValidSchedule, Weekdays
    <2> DEFINE n == (day + 7 - (d % 7)) % 7
               then == (d + n) * S + at
    <2>2. then = d * S + at + n * S
      <3>1. PICK m \in Nat : m = n
        OBVIOUS
      <3>2. (d + m) * S = d * S + m * S
        OBVIOUS
      <3> QED BY <3>1, <3>2
    <2>3. next = IF then > now THEN then ELSE then + 7 * S
      <3>1. next = IF d * S + at + n * S > now THEN d * S + at + n * S ELSE d * S + at + n * S + 7 * S
        BY <1>2, <1>3, <1>6, <2>1 DEF NextRun
      <3> HIDE DEF next, n
      <3> QED BY <2>2, <3>1
    <2>4. \A time : Due(s, time) <=> time % S = at /\ (time \div S) % 7 = day
      BY <1>2, <1>6, <2>1 DEF Due, Day
    <2> HIDE DEF next
    <2>5. /\ next > now /\ next % S = at /\ (next \div S) % 7 = day
          /\ \A time \in (now + 1)..(next - 1) : time % S # at \/ (time \div S) % 7 # day
      <3>1. WeeklyIsNext(S, d, r, at, day)
        BY ONLY WeeklyNext, S \in Nat \ {0}, d \in Nat, r \in 0..(S - 1), at \in 0..(S - 1), day \in 0..6
      <3>2. now = d * S + r
        BY <1>3
      <3> QED BY ONLY <2>3, <3>1, <3>2, Zenon DEF WeeklyIsNext
    <2>6. s.type # "once"
      BY <1>6
    <2> QED BY <2>4, <2>5, <2>6 DEF next
  <1> QED BY <1>4, <1>5, <1>6 DEF ValidSchedule

\* schedulecalc, Runtime: what the browser is told of a task of settings that can
\* be loaded is the first moment after now at which its schedule is due.
THEOREM NextRunIsNextHolds == Spec => []NextRunIsNext
  <1>1. StoreInv => NextRunIsNext
    <2> SUFFICES ASSUME StoreInv, row # NoRow, Validate(row, env),
                        NEW i \in DOMAIN row.tasks, NEW now \in 0..(14 * SlotsPerDay - 1)
                 PROVE  LET s    == Entry(row.schedules, row.tasks[i].schedule)
                            told == Runtime(row, row.tasks[i], now)
                        IN  /\ told.status \in {"scheduled", "disabled", "schedule_disabled"}
                            /\ told.status = "scheduled" =>
                                IF s.type = "once" /\ s.at <= now THEN told.next = now
                                ELSE /\ Due(s, told.next) /\ told.next > now
                                     /\ \A time \in (now + 1)..(told.next - 1) : ~Due(s, time)
      BY DEF NextRunIsNext
    <2> DEFINE t    == row.tasks[i]
               s    == Entry(row.schedules, t.schedule)
               told == Runtime(row, t, now)
    <2>1. row.schedules \in Seq(Schedules) /\ ValidKeys(row.schedules) /\ t.schedule \in Keys(row.schedules)
          /\ \A j \in DOMAIN row.schedules : ValidSchedule(row.schedules[j])
      BY DEF StoreInv, RowFits, Forms, Validate, ValidTask
    <2>2. PICK j \in DOMAIN row.schedules : s = row.schedules[j]
      BY <2>1, EntryOf
    <2>3. s \in Schedules /\ ValidSchedule(s)
      BY <2>1, <2>2
    <2>4. now \in Nat
      <3>1. 14 * SlotsPerDay \in Nat
        <4>1. SlotsPerDay \in Nat
          BY SettingsAssumption
        <4> QED BY <4>1
      <3> QED BY <3>1
    <2>5. told = IF ~t.enabled THEN Told("disabled") ELSE IF ~s.enabled THEN Told("schedule_disabled")
                 ELSE [status |-> "scheduled", next |-> NextRun(s, now)]
      BY <2>1, <2>3 DEF Runtime
    <2>6. /\ told.status \in {"scheduled", "disabled", "schedule_disabled"}
          /\ told.status = "scheduled" => told.next = NextRun(s, now)
      BY <2>5 DEF Told
    <2> HIDE DEF told, s
    <2>7. told.status = "scheduled" =>
            IF s.type = "once" /\ s.at <= now THEN told.next = now
            ELSE /\ Due(s, told.next) /\ told.next > now
                 /\ \A time \in (now + 1)..(told.next - 1) : ~Due(s, time)
      BY <2>3, <2>4, <2>6, NextRunFits
    <2> QED BY <2>6, <2>7 DEF told, s
  <1> QED BY <1>1, StoreInvariant, PTL

----------------------------------------------------------------------------
(* What a test and a backup do with the same settings.                      *)

\* Stages end well if each of them does.
LEMMA ResultIs ==
    ASSUME NEW n \in 1..5, NEW stages, DOMAIN stages = 1..n, \A i \in 1..n : stages[i].code # "ok"
    PROVE  Result(stages) = "ok" <=> \A i \in 1..n : stages[i].ok
  <1> DEFINE First(i) == ~stages[i].ok /\ \A j \in 1..(i - 1) : stages[j].ok
  <1>1. ASSUME NEW i \in 1..n, ~stages[i].ok
        PROVE  \E k \in 1..n : First(k)
    BY <1>1
  <1>2. CASE \A i \in 1..n : stages[i].ok
    BY <1>2 DEF Result
  <1>3. CASE \E i \in 1..n : ~stages[i].ok
    <2>1. PICK k \in 1..n : First(k)
      BY <1>1, <1>3
    <2>2. (CHOOSE j \in DOMAIN stages : First(j)) \in 1..n
      BY <2>1
    <2>3. Result(stages) = stages[CHOOSE j \in DOMAIN stages : First(j)].code
      BY <1>3 DEF Result
    <2> QED BY <1>3, <2>2, <2>3
  <1> QED BY <1>2, <1>3

\* One to five stages.
LEMMA ResultOf ==
    ASSUME NEW n \in 1..5, NEW stages, DOMAIN stages = 1..n, \A i \in 1..n : stages[i].code # "ok"
    PROVE  Result(stages) = "ok" <=>
            /\ stages[1].ok /\ (n >= 2 => stages[2].ok) /\ (n >= 3 => stages[3].ok)
            /\ (n >= 4 => stages[4].ok) /\ (n >= 5 => stages[5].ok)
  <1>1. Result(stages) = "ok" <=> \A i \in 1..n : stages[i].ok
    BY ResultIs
  <1>2. \A i \in 1..n : i = 1 \/ (i = 2 /\ n >= 2) \/ (i = 3 /\ n >= 3) \/ (i = 4 /\ n >= 4) \/ (i = 5 /\ n >= 5)
    OBVIOUS
  <1>3. 1 \in 1..n /\ (n >= 2 => 2 \in 1..n) /\ (n >= 3 => 3 \in 1..n) /\ (n >= 4 => 4 \in 1..n)
        /\ (n >= 5 => 5 \in 1..n)
    OBVIOUS
  <1> QED BY <1>1, <1>2, <1>3

\* The stages of a test of a service.
LEMMA ApiStagesAre ==
    ASSUME NEW s, NEW w
    PROVE  Result(ApiStages(s, w)) = "ok" <=>
                /\ s.secret # Blank
                /\ ValidURL(s.url)
                /\ s.url \in w.healthy
                /\ Accepts(w, s)
  <1> DEFINE st == ApiStages(s, w)
  <1>1. /\ DOMAIN st = 1..4
        /\ st[1] = Stage(s.secret # Blank, "nowledgemem_api_key_required")
        /\ st[2] = Stage(ValidURL(s.url), "nowledgemem_api_url")
        /\ st[3] = Stage(s.url \in w.healthy, "nowledgemem_health_failed")
        /\ st[4] = Stage(Accepts(w, s), "nowledgemem_checkpoint_failed")
    BY DEF ApiStages
  <1> HIDE DEF st
  <1>2. /\ Stage(s.secret # Blank, "nowledgemem_api_key_required").ok <=> s.secret # Blank
        /\ Stage(s.secret # Blank, "nowledgemem_api_key_required").code = "nowledgemem_api_key_required"
        /\ Stage(ValidURL(s.url), "nowledgemem_api_url").ok <=> ValidURL(s.url)
        /\ Stage(ValidURL(s.url), "nowledgemem_api_url").code = "nowledgemem_api_url"
        /\ Stage(s.url \in w.healthy, "nowledgemem_health_failed").ok <=> s.url \in w.healthy
        /\ Stage(s.url \in w.healthy, "nowledgemem_health_failed").code = "nowledgemem_health_failed"
        /\ Stage(Accepts(w, s), "nowledgemem_checkpoint_failed").ok <=> Accepts(w, s)
        /\ Stage(Accepts(w, s), "nowledgemem_checkpoint_failed").code = "nowledgemem_checkpoint_failed"
    BY Zenon DEF Stage
  <1>3. /\ (st[1].ok <=> s.secret # Blank) /\ st[1].code = "nowledgemem_api_key_required"
        /\ (st[2].ok <=> ValidURL(s.url)) /\ st[2].code = "nowledgemem_api_url"
        /\ (st[3].ok <=> s.url \in w.healthy) /\ st[3].code = "nowledgemem_health_failed"
        /\ (st[4].ok <=> Accepts(w, s)) /\ st[4].code = "nowledgemem_checkpoint_failed"
    BY <1>1, <1>2
  <1>4. Result(st) = "ok" <=> st[1].ok /\ st[2].ok /\ st[3].ok /\ st[4].ok
    <2>1. DOMAIN st = 1..4
      BY <1>1
    <2>2. \A i \in 1..4 : i = 1 \/ i = 2 \/ i = 3 \/ i = 4
      OBVIOUS
    <2>3. \A i \in 1..4 : st[i].code # "ok"
      BY <1>3, <2>2
    <2> QED BY ONLY <2>1, <2>3, 4 \in 1..5, ResultOf
  <1> QED BY <1>3, <1>4 DEF st

\* And of a test download.
LEMMA ApiDownloadAre ==
    ASSUME NEW s, NEW w
    PROVE  Result(ApiStages(s, w) \o <<Stage(w.exports, "nowledgemem_download_failed")>>) = "ok" <=>
                /\ s.secret # Blank
                /\ ValidURL(s.url)
                /\ s.url \in w.healthy
                /\ Accepts(w, s)
                /\ w.exports
  <1> DEFINE st == ApiStages(s, w) \o <<Stage(w.exports, "nowledgemem_download_failed")>>
  <1>1. /\ DOMAIN st = 1..5
        /\ st[1] = Stage(s.secret # Blank, "nowledgemem_api_key_required")
        /\ st[2] = Stage(ValidURL(s.url), "nowledgemem_api_url")
        /\ st[3] = Stage(s.url \in w.healthy, "nowledgemem_health_failed")
        /\ st[4] = Stage(Accepts(w, s), "nowledgemem_checkpoint_failed")
        /\ st[5] = Stage(w.exports, "nowledgemem_download_failed")
    BY DEF ApiStages
  <1> HIDE DEF st
  <1>2. /\ Stage(s.secret # Blank, "nowledgemem_api_key_required").ok <=> s.secret # Blank
        /\ Stage(s.secret # Blank, "nowledgemem_api_key_required").code = "nowledgemem_api_key_required"
        /\ Stage(ValidURL(s.url), "nowledgemem_api_url").ok <=> ValidURL(s.url)
        /\ Stage(ValidURL(s.url), "nowledgemem_api_url").code = "nowledgemem_api_url"
        /\ Stage(s.url \in w.healthy, "nowledgemem_health_failed").ok <=> s.url \in w.healthy
        /\ Stage(s.url \in w.healthy, "nowledgemem_health_failed").code = "nowledgemem_health_failed"
        /\ Stage(Accepts(w, s), "nowledgemem_checkpoint_failed").ok <=> Accepts(w, s)
        /\ Stage(Accepts(w, s), "nowledgemem_checkpoint_failed").code = "nowledgemem_checkpoint_failed"
        /\ Stage(w.exports, "nowledgemem_download_failed").ok <=> w.exports
        /\ Stage(w.exports, "nowledgemem_download_failed").code = "nowledgemem_download_failed"
    BY Zenon DEF Stage
  <1>3. /\ (st[1].ok <=> s.secret # Blank) /\ st[1].code = "nowledgemem_api_key_required"
        /\ (st[2].ok <=> ValidURL(s.url)) /\ st[2].code = "nowledgemem_api_url"
        /\ (st[3].ok <=> s.url \in w.healthy) /\ st[3].code = "nowledgemem_health_failed"
        /\ (st[4].ok <=> Accepts(w, s)) /\ st[4].code = "nowledgemem_checkpoint_failed"
        /\ (st[5].ok <=> w.exports) /\ st[5].code = "nowledgemem_download_failed"
    BY <1>1, <1>2
  <1>4. Result(st) = "ok" <=> st[1].ok /\ st[2].ok /\ st[3].ok /\ st[4].ok /\ st[5].ok
    <2>1. DOMAIN st = 1..5
      BY <1>1
    <2>2. \A i \in 1..5 : i = 1 \/ i = 2 \/ i = 3 \/ i = 4 \/ i = 5
      OBVIOUS
    <2>3. \A i \in 1..5 : st[i].code # "ok"
      BY <1>3, <2>2
    <2> QED BY ONLY <2>1, <2>3, 5 \in 1..5, ResultOf
  <1> QED BY <1>3, <1>4 DEF st

\* A directory is checked and made into an archive.
LEMMA ZipStagesAre ==
    ASSUME NEW s, NEW w, NEW e, NEW code, code # "ok"
    PROVE  Result(<<Stage(ValidDirectory(s.path, e), code)>> \o ZipDirectory(s, w)) = "ok" <=>
                /\ ValidDirectory(s.path, e)
                /\ s.path \in w.files \cup w.listed
                /\ s.path \notin w.files
                /\ s.path \in w.readable
  <1> DEFINE st == <<Stage(ValidDirectory(s.path, e), code)>> \o ZipDirectory(s, w)
  <1>1. /\ DOMAIN st = 1..4
        /\ st[1] = Stage(ValidDirectory(s.path, e), code)
        /\ st[2] = Stage(s.path \in w.files \cup w.listed, "stat")
        /\ st[3] = Stage(s.path \notin w.files, "not a directory")
        /\ st[4] = Stage(s.path \in w.readable, "zip")
    <2>1. PICK a, b, c, d :
            /\ a = Stage(ValidDirectory(s.path, e), code)
            /\ b = Stage(s.path \in w.files \cup w.listed, "stat")
            /\ c = Stage(s.path \notin w.files, "not a directory")
            /\ d = Stage(s.path \in w.readable, "zip")
      OBVIOUS
    <2>2. st = <<a>> \o <<b, c, d>>
      BY <2>1 DEF ZipDirectory
    <2>3. LET four == <<a>> \o <<b, c, d>>
          IN  DOMAIN four = 1..4 /\ four[1] = a /\ four[2] = b /\ four[3] = c /\ four[4] = d
      OBVIOUS
    <2> HIDE DEF st
    <2> QED BY <2>1, <2>2, <2>3
  <1> HIDE DEF st
  <1>2. /\ Stage(ValidDirectory(s.path, e), code).ok <=> ValidDirectory(s.path, e)
        /\ Stage(ValidDirectory(s.path, e), code).code = code
        /\ Stage(s.path \in w.files \cup w.listed, "stat").ok <=> s.path \in w.files \cup w.listed
        /\ Stage(s.path \in w.files \cup w.listed, "stat").code = "stat"
        /\ Stage(s.path \notin w.files, "not a directory").ok <=> s.path \notin w.files
        /\ Stage(s.path \notin w.files, "not a directory").code = "not a directory"
        /\ Stage(s.path \in w.readable, "zip").ok <=> s.path \in w.readable
        /\ Stage(s.path \in w.readable, "zip").code = "zip"
    BY Zenon DEF Stage
  <1>3. /\ (st[1].ok <=> ValidDirectory(s.path, e)) /\ st[1].code = code
        /\ (st[2].ok <=> s.path \in w.files \cup w.listed) /\ st[2].code = "stat"
        /\ (st[3].ok <=> s.path \notin w.files) /\ st[3].code = "not a directory"
        /\ (st[4].ok <=> s.path \in w.readable) /\ st[4].code = "zip"
    BY <1>1, <1>2
  <1>4. Result(st) = "ok" <=> st[1].ok /\ st[2].ok /\ st[3].ok /\ st[4].ok
    <2>1. DOMAIN st = 1..4
      BY <1>1
    <2>2. \A i \in 1..4 : i = 1 \/ i = 2 \/ i = 3 \/ i = 4
      OBVIOUS
    <2>3. \A i \in 1..4 : st[i].code # "ok"
      BY <1>3, <2>2
    <2> QED BY ONLY <2>1, <2>3, 4 \in 1..5, ResultOf
  <1> QED BY <1>3, <1>4 DEF st

\* A directory is tested.
LEMMA DirectoryStagesAre ==
    ASSUME NEW s, NEW w, NEW e
    PROVE  Result(<<Stage(ValidDirectory(s.path, e), "directory_invalid"),
                    Stage(s.path \in w.files \cup w.listed, "directory_unreadable"),
                    Stage(s.path \notin w.files, "directory_not_directory")>>) = "ok" <=>
                /\ ValidDirectory(s.path, e)
                /\ s.path \in w.files \cup w.listed
                /\ s.path \notin w.files
  <1> DEFINE st == <<Stage(ValidDirectory(s.path, e), "directory_invalid"),
                     Stage(s.path \in w.files \cup w.listed, "directory_unreadable"),
                     Stage(s.path \notin w.files, "directory_not_directory")>>
  <1>1. /\ DOMAIN st = 1..3
        /\ st[1] = Stage(ValidDirectory(s.path, e), "directory_invalid")
        /\ st[2] = Stage(s.path \in w.files \cup w.listed, "directory_unreadable")
        /\ st[3] = Stage(s.path \notin w.files, "directory_not_directory")
    OBVIOUS
  <1> HIDE DEF st
  <1>2. /\ Stage(ValidDirectory(s.path, e), "directory_invalid").ok <=> ValidDirectory(s.path, e)
        /\ Stage(ValidDirectory(s.path, e), "directory_invalid").code = "directory_invalid"
        /\ Stage(s.path \in w.files \cup w.listed, "directory_unreadable").ok <=> s.path \in w.files \cup w.listed
        /\ Stage(s.path \in w.files \cup w.listed, "directory_unreadable").code = "directory_unreadable"
        /\ Stage(s.path \notin w.files, "directory_not_directory").ok <=> s.path \notin w.files
        /\ Stage(s.path \notin w.files, "directory_not_directory").code = "directory_not_directory"
    BY Zenon DEF Stage
  <1>3. /\ (st[1].ok <=> ValidDirectory(s.path, e)) /\ st[1].code = "directory_invalid"
        /\ (st[2].ok <=> s.path \in w.files \cup w.listed) /\ st[2].code = "directory_unreadable"
        /\ (st[3].ok <=> s.path \notin w.files) /\ st[3].code = "directory_not_directory"
    BY <1>1, <1>2
  <1>4. Result(st) = "ok" <=> st[1].ok /\ st[2].ok /\ st[3].ok
    <2>1. DOMAIN st = 1..3
      BY <1>1
    <2>2. \A i \in 1..3 : i = 1 \/ i = 2 \/ i = 3
      OBVIOUS
    <2>3. \A i \in 1..3 : st[i].code # "ok"
      BY <1>3, <2>2
    <2> QED BY ONLY <2>1, <2>3, 3 \in 1..5, ResultOf
  <1> QED BY <1>3, <1>4 DEF st

\* A service is exported.
LEMMA ExportStagesAre ==
    ASSUME NEW s, NEW w, NEW option, NEW options
    PROVE  Result(<<Stage(option \in options, "export option was not found"),
                    Stage(ValidURL(s.url) /\ Accepts(w, s), "checkpoint"),
                    Stage(w.exports, "download")>>) = "ok" <=>
                /\ option \in options
                /\ ValidURL(s.url) /\ Accepts(w, s)
                /\ w.exports
  <1> DEFINE st == <<Stage(option \in options, "export option was not found"),
                     Stage(ValidURL(s.url) /\ Accepts(w, s), "checkpoint"),
                     Stage(w.exports, "download")>>
  <1>1. /\ DOMAIN st = 1..3
        /\ st[1] = Stage(option \in options, "export option was not found")
        /\ st[2] = Stage(ValidURL(s.url) /\ Accepts(w, s), "checkpoint")
        /\ st[3] = Stage(w.exports, "download")
    OBVIOUS
  <1> HIDE DEF st
  <1>2. /\ Stage(option \in options, "export option was not found").ok <=> option \in options
        /\ Stage(option \in options, "export option was not found").code = "export option was not found"
        /\ Stage(ValidURL(s.url) /\ Accepts(w, s), "checkpoint").ok <=> ValidURL(s.url) /\ Accepts(w, s)
        /\ Stage(ValidURL(s.url) /\ Accepts(w, s), "checkpoint").code = "checkpoint"
        /\ Stage(w.exports, "download").ok <=> w.exports
        /\ Stage(w.exports, "download").code = "download"
    BY Zenon DEF Stage
  <1>3. /\ (st[1].ok <=> option \in options) /\ st[1].code = "export option was not found"
        /\ (st[2].ok <=> ValidURL(s.url) /\ Accepts(w, s)) /\ st[2].code = "checkpoint"
        /\ (st[3].ok <=> w.exports) /\ st[3].code = "download"
    BY <1>1, <1>2
  <1>4. Result(st) = "ok" <=> st[1].ok /\ st[2].ok /\ st[3].ok
    <2>1. DOMAIN st = 1..3
      BY <1>1
    <2>2. \A i \in 1..3 : i = 1 \/ i = 2 \/ i = 3
      OBVIOUS
    <2>3. \A i \in 1..3 : st[i].code # "ok"
      BY <1>3, <2>2
    <2> QED BY ONLY <2>1, <2>3, 3 \in 1..5, ResultOf
  <1> QED BY <1>3, <1>4 DEF st

\* An upload is tested.
LEMMA UploadTestStagesAre ==
    ASSUME NEW t, NEW w
    PROVE  Result(<<Stage(Opens(t, w), "target_open_failed"),
                    Stage(Known(t, w) /\ w.tries, "target_write_failed"),
                    Stage(w.removes, "target_cleanup_failed")>>) = "ok" <=>
                /\ Opens(t, w)
                /\ Known(t, w) /\ w.tries
                /\ w.removes
  <1> DEFINE st == <<Stage(Opens(t, w), "target_open_failed"),
                     Stage(Known(t, w) /\ w.tries, "target_write_failed"),
                     Stage(w.removes, "target_cleanup_failed")>>
  <1>1. /\ DOMAIN st = 1..3
        /\ st[1] = Stage(Opens(t, w), "target_open_failed")
        /\ st[2] = Stage(Known(t, w) /\ w.tries, "target_write_failed")
        /\ st[3] = Stage(w.removes, "target_cleanup_failed")
    OBVIOUS
  <1> HIDE DEF st
  <1>2. /\ Stage(Opens(t, w), "target_open_failed").ok <=> Opens(t, w)
        /\ Stage(Opens(t, w), "target_open_failed").code = "target_open_failed"
        /\ Stage(Known(t, w) /\ w.tries, "target_write_failed").ok <=> Known(t, w) /\ w.tries
        /\ Stage(Known(t, w) /\ w.tries, "target_write_failed").code = "target_write_failed"
        /\ Stage(w.removes, "target_cleanup_failed").ok <=> w.removes
        /\ Stage(w.removes, "target_cleanup_failed").code = "target_cleanup_failed"
    BY Zenon DEF Stage
  <1>3. /\ (st[1].ok <=> Opens(t, w)) /\ st[1].code = "target_open_failed"
        /\ (st[2].ok <=> Known(t, w) /\ w.tries) /\ st[2].code = "target_write_failed"
        /\ (st[3].ok <=> w.removes) /\ st[3].code = "target_cleanup_failed"
    BY <1>1, <1>2
  <1>4. Result(st) = "ok" <=> st[1].ok /\ st[2].ok /\ st[3].ok
    <2>1. DOMAIN st = 1..3
      BY <1>1
    <2>2. \A i \in 1..3 : i = 1 \/ i = 2 \/ i = 3
      OBVIOUS
    <2>3. \A i \in 1..3 : st[i].code # "ok"
      BY <1>3, <2>2
    <2> QED BY ONLY <2>1, <2>3, 3 \in 1..5, ResultOf
  <1> QED BY <1>3, <1>4 DEF st

\* A target is looked at.
LEMMA ProbeStagesAre ==
    ASSUME NEW t, NEW w
    PROVE  Result(<<Stage(t.type \in {"gcs", "sftp"} => Opens(t, w), "target_probe_failed"),
                    Stage(Known(t, w) /\ t.type \in w.looks, "target_probe_failed")>>) = "ok" <=>
                /\ (t.type \in {"gcs", "sftp"} => Opens(t, w))
                /\ Known(t, w) /\ t.type \in w.looks
  <1> DEFINE st == <<Stage(t.type \in {"gcs", "sftp"} => Opens(t, w), "target_probe_failed"),
                     Stage(Known(t, w) /\ t.type \in w.looks, "target_probe_failed")>>
  <1>1. /\ DOMAIN st = 1..2
        /\ st[1] = Stage(t.type \in {"gcs", "sftp"} => Opens(t, w), "target_probe_failed")
        /\ st[2] = Stage(Known(t, w) /\ t.type \in w.looks, "target_probe_failed")
    OBVIOUS
  <1> HIDE DEF st
  <1>2. /\ Stage(t.type \in {"gcs", "sftp"} => Opens(t, w), "target_probe_failed").ok <=> (t.type \in {"gcs", "sftp"} => Opens(t, w))
        /\ Stage(t.type \in {"gcs", "sftp"} => Opens(t, w), "target_probe_failed").code = "target_probe_failed"
        /\ Stage(Known(t, w) /\ t.type \in w.looks, "target_probe_failed").ok <=> Known(t, w) /\ t.type \in w.looks
        /\ Stage(Known(t, w) /\ t.type \in w.looks, "target_probe_failed").code = "target_probe_failed"
    BY Zenon DEF Stage
  <1>3. /\ (st[1].ok <=> (t.type \in {"gcs", "sftp"} => Opens(t, w))) /\ st[1].code = "target_probe_failed"
        /\ (st[2].ok <=> Known(t, w) /\ t.type \in w.looks) /\ st[2].code = "target_probe_failed"
    BY <1>1, <1>2
  <1>4. Result(st) = "ok" <=> st[1].ok /\ st[2].ok
    <2>1. DOMAIN st = 1..2
      BY <1>1
    <2>2. \A i \in 1..2 : i = 1 \/ i = 2
      OBVIOUS
    <2>3. \A i \in 1..2 : st[i].code # "ok"
      BY <1>3, <2>2
    <2> QED BY ONLY <2>1, <2>3, 2 \in 1..5, ResultOf
  <1> QED BY <1>3, <1>4 DEF st

\* A backup is uploaded.
LEMMA UploadStagesAre ==
    ASSUME NEW t, NEW w
    PROVE  Result(<<Stage(Opens(t, w), "open"),
                    Stage(Known(t, w) /\ w.makes, "directory"),
                    Stage(w.takes, "write")>>) = "ok" <=>
                /\ Opens(t, w)
                /\ Known(t, w) /\ w.makes
                /\ w.takes
  <1> DEFINE st == <<Stage(Opens(t, w), "open"),
                     Stage(Known(t, w) /\ w.makes, "directory"),
                     Stage(w.takes, "write")>>
  <1>1. /\ DOMAIN st = 1..3
        /\ st[1] = Stage(Opens(t, w), "open")
        /\ st[2] = Stage(Known(t, w) /\ w.makes, "directory")
        /\ st[3] = Stage(w.takes, "write")
    OBVIOUS
  <1> HIDE DEF st
  <1>2. /\ Stage(Opens(t, w), "open").ok <=> Opens(t, w)
        /\ Stage(Opens(t, w), "open").code = "open"
        /\ Stage(Known(t, w) /\ w.makes, "directory").ok <=> Known(t, w) /\ w.makes
        /\ Stage(Known(t, w) /\ w.makes, "directory").code = "directory"
        /\ Stage(w.takes, "write").ok <=> w.takes
        /\ Stage(w.takes, "write").code = "write"
    BY Zenon DEF Stage
  <1>3. /\ (st[1].ok <=> Opens(t, w)) /\ st[1].code = "open"
        /\ (st[2].ok <=> Known(t, w) /\ w.makes) /\ st[2].code = "directory"
        /\ (st[3].ok <=> w.takes) /\ st[3].code = "write"
    BY <1>1, <1>2
  <1>4. Result(st) = "ok" <=> st[1].ok /\ st[2].ok /\ st[3].ok
    <2>1. DOMAIN st = 1..3
      BY <1>1
    <2>2. \A i \in 1..3 : i = 1 \/ i = 2 \/ i = 3
      OBVIOUS
    <2>3. \A i \in 1..3 : st[i].code # "ok"
      BY <1>3, <2>2
    <2> QED BY ONLY <2>1, <2>3, 3 \in 1..5, ResultOf
  <1> QED BY <1>3, <1>4 DEF st

\* A source is tested as the environment makes it: what the two tests ask of it.
LEMMA SourceStages ==
    ASSUME NEW s, NEW e, NEW w
    PROVE  LET x     == EnvSource(NormalSource(s), e)
               api   == x.secret # Blank /\ ValidURL(x.url) /\ x.url \in w.healthy /\ Accepts(w, x)
               there == ValidDirectory(x.path, e) /\ x.path \in w.files \cup w.listed /\ x.path \notin w.files
           IN  /\ x.type = "nowledgemem_api" =>
                    /\ TestSource(s, e, w) = "ok" <=> api
                    /\ DownloadTest(s, e, w) = "ok" <=> api /\ w.exports
               /\ x.type = "directory" =>
                    /\ TestSource(s, e, w) = "ok" <=> there
                    /\ DownloadTest(s, e, w) = "ok" <=> there /\ x.path \in w.readable
  <1> DEFINE x == EnvSource(NormalSource(s), e)
             three == <<Stage(ValidDirectory(x.path, e), "directory_invalid"),
                        Stage(x.path \in w.files \cup w.listed, "directory_unreadable"),
                        Stage(x.path \notin w.files, "directory_not_directory")>>
  <1>1. TestSource(s, e, w) =
            CASE x.type = "nowledgemem_api" -> Result(ApiStages(x, w))
              [] x.type = "directory" -> Result(three)
              [] OTHER -> "unsupported_source_type"
    BY DEF TestSource
  <1>2. DownloadTest(s, e, w) =
            CASE x.type = "nowledgemem_api" ->
                    Result(ApiStages(x, w) \o <<Stage(w.exports, "nowledgemem_download_failed")>>)
              [] x.type = "directory" ->
                    Result(<<Stage(ValidDirectory(x.path, e), "directory_invalid")>> \o ZipDirectory(x, w))
              [] OTHER -> "unsupported_source_type"
    BY DEF DownloadTest
  <1> HIDE DEF x
  <1>3. CASE x.type = "nowledgemem_api"
    <2> HIDE DEF three
    <2>1. /\ TestSource(s, e, w) = Result(ApiStages(x, w))
          /\ DownloadTest(s, e, w) =
                Result(ApiStages(x, w) \o <<Stage(w.exports, "nowledgemem_download_failed")>>)
      BY <1>1, <1>2, <1>3
    <2> QED BY <1>3, <2>1, ApiStagesAre, ApiDownloadAre DEF x
  <1>4. CASE x.type = "directory"
    <2>1. Result(three) = "ok" <=>
            ValidDirectory(x.path, e) /\ x.path \in w.files \cup w.listed /\ x.path \notin w.files
      BY DirectoryStagesAre
    <2> HIDE DEF three
    <2>2. /\ TestSource(s, e, w) = Result(three)
          /\ DownloadTest(s, e, w) =
                Result(<<Stage(ValidDirectory(x.path, e), "directory_invalid")>> \o ZipDirectory(x, w))
      BY <1>1, <1>2, <1>4
    <2> QED BY <1>4, <2>1, <2>2, ZipStagesAre DEF x
  <1> QED BY <1>3, <1>4 DEF x

\* The form of a source, its blank secret taken from the settings, is the source.
LEMMA FormOfSource ==
    ASSUME NEW cfg \in Forms, ValidKeys(cfg.sources), NEW i \in DOMAIN cfg.sources
    PROVE  LET r    == cfg.sources[i]
               form == SourceToTest(cfg, Redacted(cfg).sources[i])
           IN  /\ form \in Sources /\ form.key = r.key /\ form.type = r.type /\ form.url = r.url
               /\ form.path = r.path /\ (r.type = "nowledgemem_api" => form.secret = r.secret)
  <1> DEFINE r == cfg.sources[i]
             a == Redacted(cfg).sources[i]
             form == SourceToTest(cfg, a)
  <1>1. r \in Sources /\ r.key \in Keys(cfg.sources) /\ Entry(cfg.sources, r.key) = r
    BY EntryIs DEF Forms, Keys
  <1>2. a \in Sources /\ a.key = r.key /\ a.type = r.type /\ a.url = r.url /\ a.path = r.path /\ a.secret = Blank
    BY RedactedFits DEF Forms
  <1> HIDE DEF r, a
  <1>3. form = IF a.type = "nowledgemem_api" THEN [a EXCEPT !.secret = OrSecret(@, r.secret)] ELSE a
    BY <1>1, <1>2 DEF SourceToTest, MergeSourceSecrets
  <1>4. CASE a.type = "nowledgemem_api"
    <2>1. form = [a EXCEPT !.secret = r.secret]
      BY <1>2, <1>3, <1>4 DEF OrSecret, Sources
    <2>2. form \in Sources /\ form.key = a.key /\ form.type = a.type /\ form.url = a.url
          /\ form.path = a.path /\ form.secret = r.secret
      BY <1>1, <1>2, <2>1 DEF Sources
    <2> HIDE DEF form
    <2> QED BY <1>2, <2>2 DEF r, a, form
  <1>5. CASE a.type # "nowledgemem_api"
    <2>1. form = a
      BY <1>3, <1>5
    <2> HIDE DEF form
    <2> QED BY <1>2, <1>5, <2>1 DEF r, a, form
  <1> QED BY <1>4, <1>5

\* The environment, applied to a source a second time, changes nothing that a
\* test looks at.
LEMMA EnvSourceAgain ==
    ASSUME NEW s \in Sources, s.type # "", s.url # "", NEW e \in Envs, NEW form \in Sources,
           form.key = s.key, form.type = s.type, form.url = EnvSource(s, e).url, form.path = s.path,
           s.type = "nowledgemem_api" => form.secret = EnvSource(s, e).secret
    PROVE  LET r == EnvSource(s, e)
               x == EnvSource(NormalSource(form), e)
           IN  /\ x.type = r.type /\ x.path = r.path /\ x.url = r.url
               /\ s.type = "nowledgemem_api" => x.secret = r.secret
  <1> DEFINE r == EnvSource(s, e)
             n == NormalSource(form)
             x == EnvSource(n, e)
             u(y) == IF y.key = DefaultSource THEN OrElse(e.url, y.url) ELSE y.url
             v(y) == OrSecret(y.secret, Getenv(e, <<"source", y.key, "api_key">>))
  <1>1. r.type = s.type /\ r.path = s.path /\ r.url # ""
    BY EnvSourceFits
  <1>2. /\ n \in Sources /\ n.key = s.key /\ n.type = s.type /\ n.url = r.url /\ n.path = s.path
        /\ n.secret = form.secret
    BY <1>1, NormalSourceFits DEF OrElse
  <1> HIDE DEF n
  <1>3. x.type = s.type /\ x.path = s.path
    BY <1>2, EnvSourceFits
  <1>4. CASE s.type = "nowledgemem_api"
    <2>1. ASSUME NEW y \in Sources, y.type = "nowledgemem_api"
          PROVE  EnvSource(y, e).url = u(y) /\ EnvSource(y, e).secret = v(y)
      BY <2>1 DEF EnvSource, Sources
    <2>2. r.url = u(s) /\ r.secret = v(s) /\ x.url = u(n) /\ x.secret = v(n)
      BY <1>2, <1>4, <2>1
    <2>3. n.secret = r.secret
      BY <1>2, <1>4
    <2> HIDE DEF r, x
    <2>4. u(n) = r.url
      BY <1>2, <2>2 DEF OrElse
    <2>5. v(n) = r.secret
      BY <1>2, <2>2, <2>3 DEF OrSecret
    <2> QED BY <1>1, <1>3, <2>2, <2>4, <2>5 DEF r, x, n
  <1>5. CASE s.type # "nowledgemem_api"
    <2>1. x = n /\ r = s
      BY <1>2, <1>5 DEF EnvSource
    <2> QED BY <1>2, <1>5, <2>1 DEF n
  <1> QED BY <1>4, <1>5

\* The form of a target, its blank secrets taken from the settings and from the
\* environment, is the target as a backup opens it.
LEMMA FormOfTarget ==
    ASSUME NEW cfg \in Forms, ValidKeys(cfg.targets), NEW i \in DOMAIN cfg.targets, NEW e \in Envs,
           NEW t \in Targets, t.type \in Types, cfg.targets[i] = EnvTarget(t, e)
    PROVE  LET r == cfg.targets[i]
               y == EnvTarget(TargetToTest(cfg, Redacted(cfg).targets[i]), e)
               x == [y EXCEPT !.enabled = TRUE]
           IN  /\ y.key = r.key /\ y.type = r.type /\ y.complete = r.complete /\ y.enabled = r.enabled
               /\ x.key = r.key /\ x.type = r.type /\ x.complete = r.complete /\ x.enabled
               /\ \A f \in SlotsOf[r.type] : y.secrets[f] = r.secrets[f] /\ x.secrets[f] = r.secrets[f]
  <1> DEFINE r == cfg.targets[i]
             a == Redacted(cfg).targets[i]
             form == TargetToTest(cfg, a)
             filled == [f \in Slots |-> IF f \in SlotsOf[a.type] THEN OrSecret(a.secrets[f], r.secrets[f])
                                        ELSE a.secrets[f]]
             y == EnvTarget(form, e)
  <1>1. r \in Targets /\ r.key \in Keys(cfg.targets) /\ Entry(cfg.targets, r.key) = r
    BY EntryIs DEF Forms, Keys
  <1>2. /\ a \in Targets /\ a.key = r.key /\ a.type = r.type /\ a.complete = r.complete /\ a.enabled = r.enabled
        /\ a.secrets = NoSecrets
    BY RedactedFits DEF Forms
  <1>3. r.key = t.key /\ r.type = t.type /\ r.type \in Types
    BY EnvTargetFits
  <1>4. ASSUME NEW f \in SlotsOf[t.type]
        PROVE  f \in Slots /\ r.secrets[f] = OrSecret(t.secrets[f], Getenv(e, <<"target", t.key, f>>))
    <2>1. f \in Slots
      BY DEF Slots
    <2>2. r = EnvTarget(t, e)
      OBVIOUS
    <2> HIDE DEF r
    <2> QED BY <2>1, <2>2 DEF EnvTarget, Targets
  <1> HIDE DEF r, a
  <1>5. form = [a EXCEPT !.secrets = filled]
    BY <1>1, <1>2, <1>3 DEF TargetToTest, MergeTargetSecrets, Targets
  <1>6. filled \in [Slots -> Secrets \cup {Blank}]
    <2>1. a.secrets \in [Slots -> Secrets \cup {Blank}] /\ r.secrets \in [Slots -> Secrets \cup {Blank}]
      BY <1>1, <1>2 DEF Targets
    <2> QED BY <2>1 DEF OrSecret
  <1>7. \A f \in SlotsOf[r.type] : f \in Slots /\ filled[f] = r.secrets[f]
    <2>1. \A f \in SlotsOf[r.type] : f \in Slots
      BY <1>3 DEF Slots
    <2>2. \A f \in Slots : a.secrets[f] = Blank
      BY <1>2 DEF NoSecrets
    <2> QED BY <1>2, <2>1, <2>2 DEF OrSecret
  <1> HIDE DEF filled
  <1>8. /\ form \in Targets /\ form.key = r.key /\ form.type = r.type /\ form.complete = r.complete
        /\ form.enabled = r.enabled
        /\ form.secrets = filled
    BY <1>2, <1>5, <1>6 DEF Targets
  <1> HIDE DEF form
  <1>9. y \in Targets /\ y.key = r.key /\ y.type = r.type /\ y.complete = r.complete /\ y.enabled = r.enabled
    BY <1>8, EnvTargetFits
  <1>10. ASSUME NEW f \in SlotsOf[r.type]
         PROVE  y.secrets[f] = r.secrets[f]
    <2>1. y.secrets[f] = OrSecret(form.secrets[f], Getenv(e, <<"target", form.key, f>>))
      BY <1>3, <1>7, <1>8, <1>10 DEF EnvTarget, Targets
    <2>2. r.secrets[f] = OrSecret(t.secrets[f], Getenv(e, <<"target", t.key, f>>))
      BY <1>3, <1>4, <1>10
    <2>3. form.secrets[f] = r.secrets[f] /\ form.key = t.key
      BY <1>3, <1>7, <1>8, <1>10
    <2> QED BY <2>1, <2>2, <2>3 DEF OrSecret
  <1> HIDE DEF y
  <1>11. LET x == [y EXCEPT !.enabled = TRUE]
         IN  /\ x.key = r.key /\ x.type = r.type /\ x.complete = r.complete /\ x.enabled
             /\ x.secrets = y.secrets
    BY <1>9 DEF Targets
  <1> QED BY <1>9, <1>10, <1>11 DEF r, a, form, y

\* source.Test, source.DownloadTest, storage.Test, Exporter.Export: the tests in
\* the browser and a backup agree, for any settings, in every world that lets both
\* do what they do.
THEOREM TestAgreesWithRunHolds == Spec => []TestAgreesWithRun
  <1>1. StoreInv => TestAgreesWithRun
    <2> SUFFICES ASSUME StoreInv, row # NoRow, NEW w \in Worlds
                 PROVE  LET cfg == ApplyEnv(row, env) IN
                        /\ \A i \in DOMAIN cfg.tasks :
                            LET t    == cfg.tasks[i]
                                real == Entry(cfg.sources, t.source)
                                form == SourceToTest(cfg, Entry(Redacted(cfg).sources, t.source))
                            IN  Validate(cfg, env) /\ real.enabled =>
                                /\ DownloadTest(form, env, w) = "ok" =>
                                    Export(cfg, t, env, w) = "ok" /\ TestSource(form, env, w) = "ok"
                                /\ /\ Export(cfg, t, env, w) = "ok"
                                   /\ real.type = "nowledgemem_api" =>
                                        real.secret # Blank /\ real.url \in w.healthy
                                   => DownloadTest(form, env, w) = "ok"
                        /\ \A i \in DOMAIN cfg.targets :
                            LET t    == cfg.targets[i]
                                form == TargetToTest(cfg, Redacted(cfg).targets[i])
                            IN  t.enabled =>
                                /\ UploadTest(form, env, w) = "ok" /\ w.makes /\ w.takes =>
                                    Upload(cfg, t.key, w) = "ok"
                                /\ Upload(cfg, t.key, w) = "ok" /\ t.type \in w.looks =>
                                    ProbeTest(form, env, w) = "ok"
      BY DEF TestAgreesWithRun
    <2> DEFINE cfg == ApplyEnv(row, env)
    <2>1. row \in Forms /\ Normal(row) /\ Validate(row, savedIn) /\ env \in Envs
      BY DEF StoreInv, RowFits, ProcessFits
    <2>2. Alike(cfg, row) /\ cfg \in Forms
      BY <2>1, ApplyEnvFits DEF Alike
    <2>3. /\ DOMAIN cfg.sources = DOMAIN row.sources /\ DOMAIN cfg.targets = DOMAIN row.targets
          /\ \A i \in DOMAIN row.sources : cfg.sources[i] = EnvSource(row.sources[i], env)
          /\ \A i \in DOMAIN row.targets : cfg.targets[i] = EnvTarget(row.targets[i], env)
      <3>1. /\ cfg.sources = [i \in DOMAIN row.sources |-> EnvSource(row.sources[i], env)]
            /\ cfg.targets = [i \in DOMAIN row.targets |-> EnvTarget(row.targets[i], env)]
        BY <2>1, ApplyEnvIs
      <3> HIDE DEF cfg
      <3> QED BY <3>1
    <2>4. ValidKeys(cfg.sources) /\ ValidKeys(cfg.targets)
      BY <2>1, <2>2, AlikeKeys DEF Validate
    <2> HIDE DEF cfg
    <2>5. ASSUME NEW i \in DOMAIN cfg.tasks, Validate(cfg, env)
          PROVE  LET t    == cfg.tasks[i]
                     real == Entry(cfg.sources, t.source)
                     form == SourceToTest(cfg, Entry(Redacted(cfg).sources, t.source))
                 IN  real.enabled =>
                        /\ DownloadTest(form, env, w) = "ok" =>
                            Export(cfg, t, env, w) = "ok" /\ TestSource(form, env, w) = "ok"
                        /\ /\ Export(cfg, t, env, w) = "ok"
                           /\ real.type = "nowledgemem_api" =>
                                real.secret # Blank /\ real.url \in w.healthy
                           => DownloadTest(form, env, w) = "ok"
      <3> DEFINE t    == cfg.tasks[i]
                 real == Entry(cfg.sources, t.source)
                 form == SourceToTest(cfg, Entry(Redacted(cfg).sources, t.source))
                 x    == EnvSource(NormalSource(form), env)
      <3>1. t.source \in Keys(cfg.sources) /\ t.option \in Keys(cfg.options)
        BY <2>5 DEF Validate, ValidTask
      <3>2. PICK k \in DOMAIN cfg.sources : cfg.sources[k].key = t.source /\ real = cfg.sources[k]
        BY <2>2, <2>4, <3>1, EntryOf DEF Forms
      <3>3. form = SourceToTest(cfg, Redacted(cfg).sources[k])
        <4>1. /\ Redacted(cfg).sources \in Seq(Sources) /\ DOMAIN Redacted(cfg).sources = DOMAIN cfg.sources
              /\ \A l \in DOMAIN cfg.sources : Redacted(cfg).sources[l].key = cfg.sources[l].key
          BY <2>2, RedactedFits DEF Forms
        <4>2. ValidKeys(Redacted(cfg).sources)
          BY <2>2, <2>4, <4>1, SameKeys DEF Forms
        <4>3. Entry(Redacted(cfg).sources, Redacted(cfg).sources[k].key) = Redacted(cfg).sources[k]
          BY <4>1, <4>2, EntryIs
        <4>4. Redacted(cfg).sources[k].key = t.source
          BY <3>2, <4>1
        <4> QED BY <4>3, <4>4
      <3>4. /\ form \in Sources /\ form.key = real.key /\ form.type = real.type /\ form.url = real.url
            /\ form.path = real.path /\ (real.type = "nowledgemem_api" => form.secret = real.secret)
        <4> HIDE DEF form, real
        <4> QED BY <2>2, <2>4, <3>2, <3>3, FormOfSource
      <3>5. PICK s \in Sources : real = EnvSource(s, env) /\ s.type # "" /\ s.url # ""
        <4>1. row.sources[k] \in Sources /\ row.sources[k].type # "" /\ row.sources[k].url # ""
          <5>1. k \in DOMAIN row.sources /\ row.sources \in Seq(Sources)
            BY <2>1, <2>3, <3>2 DEF Forms
          <5>2. row.sources[k].type # "" /\ row.sources[k].url # ""
            BY <2>1, <5>1 DEF Normal
          <5>3. row.sources[k] \in Sources
            BY <5>1, ElementOfSeq
          <5> QED BY <5>2, <5>3
        <4> QED BY <2>3, <3>2, <4>1
      <3>6. ValidSource(real, env)
        BY <2>5, <3>2 DEF Validate
      <3> HIDE DEF t, real, form
      <3>7. /\ x.type = real.type /\ x.path = real.path /\ x.url = real.url
            /\ real.type = "nowledgemem_api" => x.secret = real.secret
        <4>1. real.key = s.key /\ real.type = s.type /\ real.path = s.path
          BY <2>1, <3>5, EnvSourceFits
        <4>2. /\ form.key = s.key /\ form.type = s.type /\ form.url = EnvSource(s, env).url
              /\ form.path = s.path /\ (s.type = "nowledgemem_api" => form.secret = EnvSource(s, env).secret)
          BY <3>4, <3>5, <4>1
        <4>3. LET y == EnvSource(NormalSource(form), env)
                  r == EnvSource(s, env)
              IN  /\ y.type = r.type /\ y.path = r.path /\ y.url = r.url
                  /\ s.type = "nowledgemem_api" => y.secret = r.secret
          BY <2>1, <3>4, <3>5, <4>2, EnvSourceAgain
        <4> QED BY <3>5, <4>1, <4>3
      <3>8. real.enabled => Export(cfg, t, env, w) =
                CASE real.type = "nowledgemem_api" ->
                        Result(<<Stage(t.option \in Keys(cfg.options), "export option was not found"),
                                 Stage(ValidURL(real.url) /\ Accepts(w, real), "checkpoint"),
                                 Stage(w.exports, "download")>>)
                  [] real.type = "directory" ->
                        Result(<<Stage(ValidDirectory(real.path, env), "invalid")>> \o ZipDirectory(real, w))
                  [] OTHER -> "unsupported source type"
        BY <3>1 DEF Export, real
      <3>9. CASE real.type = "nowledgemem_api"
        <4>1. real.enabled =>
                (Export(cfg, t, env, w) = "ok" <=> ValidURL(real.url) /\ Accepts(w, real) /\ w.exports)
          <5>1. real.enabled => Export(cfg, t, env, w) =
                        Result(<<Stage(t.option \in Keys(cfg.options), "export option was not found"),
                                 Stage(ValidURL(real.url) /\ Accepts(w, real), "checkpoint"),
                                 Stage(w.exports, "download")>>)
            BY <3>8, <3>9
          <5>2. Result(<<Stage(t.option \in Keys(cfg.options), "export option was not found"),
                         Stage(ValidURL(real.url) /\ Accepts(w, real), "checkpoint"),
                         Stage(w.exports, "download")>>) = "ok" <=>
                    t.option \in Keys(cfg.options) /\ (ValidURL(real.url) /\ Accepts(w, real)) /\ w.exports
            BY ExportStagesAre, Zenon
          <5> QED BY <3>1, <5>1, <5>2
        <4>2. LET api == x.secret # Blank /\ ValidURL(x.url) /\ x.url \in w.healthy /\ Accepts(w, x)
              IN  /\ TestSource(form, env, w) = "ok" <=> api
                  /\ DownloadTest(form, env, w) = "ok" <=> api /\ w.exports
          BY <3>7, <3>9, SourceStages
        <4> HIDE DEF x
        <4>3. Accepts(w, x) <=> Accepts(w, real)
          BY <3>7, <3>9 DEF Accepts
        <4> QED BY <3>7, <3>9, <4>1, <4>2, <4>3 DEF t, real, form
      <3>10. CASE real.type = "directory"
        <4>1. real.enabled =>
                (Export(cfg, t, env, w) = "ok" <=>
                    /\ ValidDirectory(real.path, env) /\ real.path \in w.files \cup w.listed
                    /\ real.path \notin w.files /\ real.path \in w.readable)
          BY <3>8, <3>10, ZipStagesAre
        <4>2. LET there == /\ ValidDirectory(x.path, env) /\ x.path \in w.files \cup w.listed
                           /\ x.path \notin w.files
              IN  /\ TestSource(form, env, w) = "ok" <=> there
                  /\ DownloadTest(form, env, w) = "ok" <=> there /\ x.path \in w.readable
          BY <3>7, <3>10, SourceStages
        <4> HIDE DEF x
        <4> QED BY <3>7, <3>10, <4>1, <4>2 DEF t, real, form
      <3> QED BY <3>6, <3>9, <3>10 DEF ValidSource
    <2>6. ASSUME NEW i \in DOMAIN cfg.targets
          PROVE  LET t    == cfg.targets[i]
                     form == TargetToTest(cfg, Redacted(cfg).targets[i])
                 IN  t.enabled =>
                        /\ UploadTest(form, env, w) = "ok" /\ w.makes /\ w.takes =>
                            Upload(cfg, t.key, w) = "ok"
                        /\ Upload(cfg, t.key, w) = "ok" /\ t.type \in w.looks =>
                            ProbeTest(form, env, w) = "ok"
      <3> DEFINE t    == cfg.targets[i]
                 form == TargetToTest(cfg, Redacted(cfg).targets[i])
                 y    == EnvTarget(form, env)
                 x    == [y EXCEPT !.enabled = TRUE]
      <3>1. /\ row.targets[i] \in Targets /\ ValidTarget(row.targets[i]) /\ t = EnvTarget(row.targets[i], env)
        BY <2>1, <2>3 DEF Forms, Validate
      <3>2. /\ y.key = t.key /\ y.type = t.type /\ y.complete = t.complete /\ y.enabled = t.enabled
            /\ x.key = t.key /\ x.type = t.type /\ x.complete = t.complete /\ x.enabled
            /\ \A f \in SlotsOf[t.type] : y.secrets[f] = t.secrets[f] /\ x.secrets[f] = t.secrets[f]
        BY <2>1, <2>2, <2>4, <3>1, FormOfTarget DEF ValidTarget
      <3>3. t.key \in Keys(cfg.targets) /\ Entry(cfg.targets, t.key) = t
        BY <2>2, <2>4, EntryIs DEF Forms, Keys
      <3>4. ValidTarget(t)
        <4>1. t.key = row.targets[i].key /\ t.type = row.targets[i].type /\ t.complete = row.targets[i].complete
          BY <2>1, <3>1, EnvTargetFits
        <4> QED BY <3>1, <4>1 DEF ValidTarget
      <3>5. /\ UploadTest(form, env, w) =
                IF ~ValidTarget(x) THEN "target_invalid"
                ELSE Result(<<Stage(Opens(x, w), "target_open_failed"),
                              Stage(Known(x, w) /\ w.tries, "target_write_failed"),
                              Stage(w.removes, "target_cleanup_failed")>>)
            /\ ProbeTest(form, env, w) =
                IF ~ValidTarget(y) THEN "target_invalid"
                ELSE Result(<<Stage(y.type \in {"gcs", "sftp"} => Opens(y, w), "target_probe_failed"),
                              Stage(Known(y, w) /\ y.type \in w.looks, "target_probe_failed")>>)
        BY DEF UploadTest, ProbeTest
      <3> HIDE DEF t, form, x, y
      <3>6. Upload(cfg, t.key, w) =
                Result(<<Stage(Opens(t, w), "open"),
                         Stage(Known(t, w) /\ w.makes, "directory"),
                         Stage(w.takes, "write")>>)
        BY <3>3 DEF Upload
      <3>7. ValidTarget(x) /\ ValidTarget(y)
        BY <3>2, <3>4 DEF ValidTarget
      <3>8. (Known(x, w) <=> Known(t, w)) /\ (Known(y, w) <=> Known(t, w))
        BY <3>2 DEF Known
      <3>9. (t.enabled => (Opens(x, w) <=> Opens(t, w))) /\ (Opens(y, w) <=> Opens(t, w))
        BY <3>2, <3>8 DEF Opens
      <3>10. UploadTest(form, env, w) = "ok" => Opens(x, w) /\ Known(x, w)
        <4>1. UploadTest(form, env, w) = Result(<<Stage(Opens(x, w), "target_open_failed"),
                              Stage(Known(x, w) /\ w.tries, "target_write_failed"),
                              Stage(w.removes, "target_cleanup_failed")>>)
          BY <3>5, <3>7
        <4> QED BY <4>1, UploadTestStagesAre
      <3>11. Opens(y, w) /\ Known(y, w) /\ y.type \in w.looks => ProbeTest(form, env, w) = "ok"
        <4>1. ProbeTest(form, env, w) =
                Result(<<Stage(y.type \in {"gcs", "sftp"} => Opens(y, w), "target_probe_failed"),
                         Stage(Known(y, w) /\ y.type \in w.looks, "target_probe_failed")>>)
          BY <3>5, <3>7
        <4> QED BY <4>1, ProbeStagesAre
      <3>12. Upload(cfg, t.key, w) = "ok" <=> Opens(t, w) /\ (Known(t, w) /\ w.makes) /\ w.takes
        BY <3>6, UploadStagesAre
      <3> QED BY <3>2, <3>8, <3>9, <3>10, <3>11, <3>12 DEF t, form
    <2> QED BY <2>5, <2>6 DEF cfg
  <1> QED BY <1>1, StoreInvariant, PTL
====
